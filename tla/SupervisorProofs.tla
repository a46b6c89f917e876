-------------------------- MODULE SupervisorProofs --------------------------
(***************************************************************************)
(* The safety of the supervisor for any number of child slots, revisions   *)
(* and pending drains: the proxy points at a child that serves, no process *)
(* leaks, activeTarget names what runs, and a crash starts a repair.       *)
(***************************************************************************)
EXTENDS Supervisor, SequenceTheorems, TLAPS

\* An activity holds a child exactly while it starts or stops one, and the
\* restart loop is in one of its own steps.
TasksFit ==
    /\ \A a \in Activities :
          task[a].child # None <=> task[a].step \in {"spawned", "polling", "stopping"}
    /\ task["restart"] = Done \/ Repairing \/ task["restart"].step = "stopping"

\* A child has one role: it is active, or draining once, or of one activity.
RolesApart ==
    /\ \A a \in Activities : task[a].child # None =>
          /\ task[a].child # active
          /\ \A i \in DOMAIN draining : draining[i].child # task[a].child
          /\ \A b \in Activities : a # b => task[b].child # task[a].child
    /\ \A i \in DOMAIN draining : draining[i].child # active
    /\ \A i, j \in DOMAIN draining : i # j => draining[i].child # draining[j].child

\* Nobody has been told to leave who is in use or is starting.
NobodyToldToLeave ==
    /\ \A a \in Activities :
          task[a].step \in {"spawned", "polling"} => signal[task[a].child] = "none"
    /\ mode = "running" =>
          \A i \in DOMAIN draining :
              alive[draining[i].child] => signal[draining[i].child] = "none"

\* Until the proxy listens nothing else happens.
BootFirst ==
    task["boot"] # Done =>
        /\ active = None /\ activeTarget = 0 /\ task["boot"].target = 0
        /\ task["update"] = Done /\ task["restart"] = Done

\* Every child runs the revision that is noted for it.
ReleasesNoted ==
    /\ \A i \in DOMAIN draining : release[draining[i].child] = draining[i].target
    /\ \A a \in Activities :
          task[a].step \in {"spawned", "polling"} => release[task[a].child] = task[a].target

\* The proxy points at a child that nobody is stopping, and one that is not a
\* cluster has not exited.
ActiveAnswers ==
    ~ IsStopping /\ active # None => (alive[active] \/ Clustered) /\ signal[active] = "none"

\* The inductive invariant.
IInv ==
    /\ TypeOK
    /\ TasksFit
    /\ RolesApart
    /\ NobodyToldToLeave
    /\ BootFirst
    /\ ReleasesNoted
    /\ ActiveAnswers
    /\ NoChildLeaks
    /\ ActiveTargetIsRunning

-----------------------------------------------------------------------------
(* Sequences and records. *)

\* RemoveAt moves what follows one place forward.
LEMMA RemoveAtFacts ==
    ASSUME NEW S, NEW s \in Seq(S), NEW i \in DOMAIN s
    PROVE  /\ RemoveAt(s, i) \in Seq(S)
           /\ DOMAIN RemoveAt(s, i) = 1 .. Len(s) - 1
           /\ \A k \in 1 .. Len(s) - 1 :
                 RemoveAt(s, i)[k] = IF k < i THEN s[k] ELSE s[k + 1]
<1> DEFINE p == SubSeq(s, 1, i - 1)
           q == SubSeq(s, i + 1, Len(s))
<1>1. /\ Len(s) \in Nat /\ DOMAIN s = 1 .. Len(s) /\ i \in 1 .. Len(s)
      /\ \A k \in 1 .. Len(s) : s[k] \in S
  OBVIOUS
<1>2. /\ p \in Seq(S) /\ Len(p) = i - 1
      /\ \A k \in 1 .. i - 1 : p[k] = s[k]
  BY <1>1
<1>3. /\ q \in Seq(S) /\ Len(q) = Len(s) - i
      /\ \A k \in 1 .. Len(s) - i : q[k] = s[i + k]
  <2>1. q \in Seq(S) /\ Len(q) = Len(s) - i
    BY <1>1
  <2>2. ASSUME NEW k \in 1 .. Len(s) - i
        PROVE  q[k] = s[i + k]
    <3>1. q[k] = s[(i + 1) + k - 1] /\ (i + 1) + k - 1 = i + k
      BY <1>1
    <3> QED
      BY <3>1
  <2> QED
    BY <2>1, <2>2
<1>4. RemoveAt(s, i) = p \o q
  BY DEF RemoveAt
<1> HIDE DEF p, q
<1>5. /\ p \o q \in Seq(S)
      /\ Len(p \o q) = Len(s) - 1
      /\ \A k \in 1 .. Len(s) - 1 :
            (p \o q)[k] = IF k < i THEN p[k] ELSE q[k - (i - 1)]
  <2>1. /\ p \o q \in Seq(S) /\ Len(p \o q) = Len(p) + Len(q)
        /\ \A k \in 1 .. Len(p) + Len(q) :
              (p \o q)[k] = IF k <= Len(p) THEN p[k] ELSE q[k - Len(p)]
    BY <1>2, <1>3, ConcatProperties
  <2> QED
    BY <1>1, <1>2, <1>3, <2>1
<1> QED
  <2>1. DOMAIN (p \o q) = 1 .. Len(s) - 1
    BY <1>5, <1>1
  <2>2. ASSUME NEW k \in 1 .. Len(s) - 1
        PROVE  (p \o q)[k] = IF k < i THEN s[k] ELSE s[k + 1]
    <3>1. CASE k < i
      BY <3>1, <1>1, <1>2, <1>5
    <3>2. CASE ~ (k < i)
      <4>1. k - (i - 1) \in 1 .. Len(s) - i /\ i + (k - (i - 1)) = k + 1
        BY <3>2, <1>1
      <4> QED
        BY <4>1, <3>2, <1>3, <1>5
    <3> QED
      BY <3>1, <3>2
  <2> QED
    BY <1>4, <1>5, <2>1, <2>2

\* What holds of the entries of draining holds of what RemoveAt leaves, and no
\* entry is kept twice.
LEMMA RemoveAtKeeps ==
    ASSUME NEW S, NEW s \in Seq(S), NEW i \in DOMAIN s
    PROVE  /\ RemoveAt(s, i) \in Seq(S)
           /\ \A k \in DOMAIN RemoveAt(s, i) :
                 \E m \in DOMAIN s : m # i /\ RemoveAt(s, i)[k] = s[m]
           /\ \A m \in DOMAIN s : m # i =>
                 \E k \in DOMAIN RemoveAt(s, i) : RemoveAt(s, i)[k] = s[m]
           /\ \A k, l \in DOMAIN RemoveAt(s, i) : k # l =>
                 \E m, n \in DOMAIN s :
                    /\ m # n /\ m # i /\ n # i
                    /\ RemoveAt(s, i)[k] = s[m] /\ RemoveAt(s, i)[l] = s[n]
<1> DEFINE t == RemoveAt(s, i)
           at(k) == IF k < i THEN k ELSE k + 1
<1>1. /\ t \in Seq(S) /\ DOMAIN t = 1 .. Len(s) - 1
      /\ \A k \in 1 .. Len(s) - 1 : t[k] = IF k < i THEN s[k] ELSE s[k + 1]
  BY RemoveAtFacts
<1>2. Len(s) \in Nat /\ DOMAIN s = 1 .. Len(s) /\ i \in 1 .. Len(s)
  OBVIOUS
<1> HIDE DEF t
<1>3. \A k \in 1 .. Len(s) - 1 : at(k) \in DOMAIN s /\ at(k) # i /\ t[k] = s[at(k)]
  BY <1>1, <1>2
<1>4. \A k, l \in 1 .. Len(s) - 1 : k # l => at(k) # at(l)
  BY <1>2
<1>5. ASSUME NEW m \in DOMAIN s, m # i
      PROVE  \E k \in DOMAIN t : t[k] = s[m]
  <2>1. CASE m < i
    BY <2>1, <1>1, <1>2, m \in DOMAIN t
  <2>2. CASE i < m
    <3>1. m - 1 \in DOMAIN t /\ ~ (m - 1 < i) /\ (m - 1) + 1 = m
      BY <2>2, <1>1, <1>2
    <3> QED
      BY <3>1, <1>1
  <2> QED
    BY <2>1, <2>2, <1>2, <1>5
<1>6. \A k \in DOMAIN t : \E m \in DOMAIN s : m # i /\ t[k] = s[m]
  BY <1>1, <1>3
<1>7. \A k, l \in DOMAIN t : k # l =>
          \E m, n \in DOMAIN s :
             m # n /\ m # i /\ n # i /\ t[k] = s[m] /\ t[l] = s[n]
  BY <1>1, <1>3, <1>4
<1> QED
  BY <1>1, <1>5, <1>6, <1>7 DEF t

-----------------------------------------------------------------------------
(* The invariant is kept. *)

LEMMA InitInv == SupervisorAssumption /\ Init => IInv
<1> SUFFICES ASSUME SupervisorAssumption, Init PROVE IInv
  OBVIOUS
<1> USE DEF Init, Done, Activities
<1>1. draining \in Seq(Record) /\ DOMAIN draining = {} /\ ToSet(draining) = {}
  BY DEF ToSet
<1>2. TypeOK
  BY <1>1 DEF TypeOK, Task, Record, Steps, Revisions, SupervisorAssumption
<1>3. TasksFit /\ RolesApart /\ NobodyToldToLeave /\ BootFirst /\ ReleasesNoted
  BY <1>1 DEF TasksFit, RolesApart, NobodyToldToLeave, BootFirst, ReleasesNoted,
              SupervisorAssumption
<1>4. ActiveAnswers /\ ActiveTargetIsRunning
  BY DEF ActiveAnswers, ActiveTargetIsRunning
<1>5. NoChildLeaks
  <2>1. PICK c \in Children : /\ alive = [d \in Children |-> d = c]
                              /\ task["boot"].child = c
    OBVIOUS
  <2> QED
    BY <2>1 DEF NoChildLeaks
<1> QED
  BY <1>2, <1>3, <1>4, <1>5 DEF IInv

\* The children of draining are children, the tasks are tasks.
LEMMA DrainingAreChildren ==
    TypeOK => /\ \A i \in DOMAIN draining : draining[i] \in Record
              /\ \A i \in DOMAIN draining : draining[i].child \in Children
<1> SUFFICES ASSUME TypeOK, NEW i \in DOMAIN draining
             PROVE  draining[i] \in Record /\ draining[i].child \in Children
  OBVIOUS
<1>1. draining[i] \in Record
  BY DEF TypeOK
<1> QED
  BY <1>1 DEF Record

LEMMA DoneFacts ==
    SupervisorAssumption => /\ Done \in Task
                            /\ Done.step = "idle" /\ Done.child = None /\ Done.target = 0
BY DEF Done, Task, Steps, Revisions, SupervisorAssumption

LEMMA KeptByPrintsUrl ==
    ASSUME SupervisorAssumption, IInv, NEW a \in Activities, PrintsUrl(a)
    PROVE  IInv'
<1>1. TypeOK'
  <2>1. task' \in [Activities -> Task]
    <3>1. /\ task \in [Activities -> Task] /\ "polling" \in Steps
          /\ task' = [task EXCEPT ![a].step = "polling"]
      BY DEF IInv, TypeOK, PrintsUrl, Steps
    <3> QED
      BY <3>1 DEF Task
  <2> QED
    BY <2>1 DEF IInv, PrintsUrl, processVars, proxyVars, TypeOK
<1>2. TasksFit'
  BY DEF IInv, PrintsUrl, processVars, proxyVars, TypeOK, TasksFit, Repairing, Done, Activities, Task
<1>3. RolesApart'
  BY DEF IInv, PrintsUrl, processVars, proxyVars, TypeOK, TasksFit, RolesApart, Activities
<1>4. NobodyToldToLeave'
  BY DEF IInv, PrintsUrl, processVars, proxyVars, TypeOK, TasksFit, RolesApart, NobodyToldToLeave, Activities
<1>5. BootFirst'
  BY DEF IInv, PrintsUrl, processVars, proxyVars, TypeOK, BootFirst, Done, Activities, Task
<1>6. ReleasesNoted'
  BY DEF IInv, PrintsUrl, processVars, proxyVars, TypeOK, TasksFit, RolesApart, ReleasesNoted, Activities
<1>7. ActiveAnswers'
  BY DEF IInv, PrintsUrl, processVars, proxyVars, TypeOK, TasksFit, RolesApart, NobodyToldToLeave, ActiveAnswers, IsStopping, Activities
<1>8. NoChildLeaks'
  BY DEF IInv, PrintsUrl, processVars, proxyVars, TypeOK, TasksFit, NoChildLeaks, DrainingChildren, Activities
<1>9. ActiveTargetIsRunning'
  BY DEF IInv, PrintsUrl, processVars, proxyVars, TypeOK, TasksFit, RolesApart, ReleasesNoted, ActiveTargetIsRunning, Activities
<1> QED
  BY <1>1, <1>2, <1>3, <1>4, <1>5, <1>6, <1>7, <1>8, <1>9 DEF IInv

\* What an activity becomes when its start is rejected.
LEMMA FailureFacts ==
    ASSUME SupervisorAssumption, TypeOK, NEW a \in Activities, a = "boot" => task[a].target = 0
    PROVE  /\ AfterFailure(a) \in Task
           /\ AfterFailure(a).child = None
           /\ AfterFailure(a).step \in {"failed", "idle", "backoff"}
           /\ a = "boot" => AfterFailure(a).target = 0
           /\ a = "restart" => AfterFailure(a) = Done \/ AfterFailure(a).step = "backoff"
<1>1. task[a] \in Task /\ Done \in Task
  BY DEF TypeOK, Done, Task, Steps, Revisions, SupervisorAssumption
<1>2. ASSUME NEW s \in {"failed", "backoff"}
      PROVE  /\ [task[a] EXCEPT !.step = s, !.child = None] \in Task
             /\ [task[a] EXCEPT !.step = s, !.child = None].child = None
             /\ [task[a] EXCEPT !.step = s, !.child = None].step = s
             /\ [task[a] EXCEPT !.step = s, !.child = None].target = task[a].target
  BY <1>1 DEF Task, Steps
<1>3. CASE a = "boot"
  BY <1>2, <1>3 DEF AfterFailure
<1>4. CASE a = "update"
  BY <1>1, <1>4 DEF AfterFailure, Done
<1>5. CASE a = "restart"
  BY <1>1, <1>2, <1>5 DEF AfterFailure, Done
<1> QED
  BY <1>3, <1>4, <1>5 DEF Activities

LEMMA KeptByStartFails ==
    ASSUME SupervisorAssumption, IInv, NEW a \in Activities, StartFails(a)
    PROVE  IInv'
<1> DEFINE c == task[a].child
           f == AfterFailure(a)
<1>1. /\ c \in Children /\ c # active
      /\ \A i \in DOMAIN draining : draining[i].child # c
      /\ \A b \in Activities : b # a => task[b].child # c
  BY DEF StartFails, IInv, TypeOK, TasksFit, RolesApart, Task, SupervisorAssumption
<1>2. /\ f \in Task /\ f.child = None /\ f.step \in {"failed", "idle", "backoff"}
      /\ a = "boot" => f.target = 0
      /\ a = "restart" => f = Done \/ f.step = "backoff"
  <2>1. a = "boot" => task[a].target = 0
    BY DEF IInv, BootFirst, StartFails, Done
  <2> QED
    BY <2>1, FailureFacts DEF IInv
<1>3. /\ \A d \in Children : d # c => alive'[d] = alive[d] /\ signal'[d] = signal[d]
      /\ ~ alive'[c] \/ signal'[c] # "none"
      /\ alive' \in [Children -> BOOLEAN]
      /\ signal' \in [Children -> {"none", "term", "stop"}]
  BY <1>1 DEF StartFails, IInv, TypeOK
<1>4. /\ task' = [task EXCEPT ![a] = f]
      /\ UNCHANGED <<release, active, activeTarget, draining, drainers, mode, awaited,
                     remote>>
  BY DEF StartFails, proxyVars
<1>5. task[a].step \in {"spawned", "polling"}
  BY DEF StartFails
<1> HIDE DEF c, f
<1>6. /\ TypeOK'
      /\ task'[a] = f
      /\ \A b \in Activities : b # a => task'[b] = task[b]
  BY <1>2, <1>3, <1>4 DEF IInv, TypeOK
<1>7. TasksFit'
  BY <1>2, <1>6 DEF IInv, TasksFit, Repairing, Activities
<1>8. RolesApart'
  BY <1>2, <1>4, <1>6 DEF IInv, RolesApart
<1>9. NobodyToldToLeave'
  <2>1. \A b \in Activities : task'[b].step \in {"spawned", "polling"} =>
           /\ b # a /\ task'[b] = task[b]
           /\ task[b].child \in Children /\ task[b].child # c
    BY <1>1, <1>2, <1>6 DEF IInv, TypeOK, TasksFit, Task
  <2>2. \A i \in DOMAIN draining : draining[i].child \in Children
    BY DrainingAreChildren DEF IInv
  <2> QED
    BY <1>1, <1>3, <1>4, <2>1, <2>2 DEF IInv, NobodyToldToLeave
<1>10. BootFirst'
  BY <1>2, <1>4, <1>5, <1>6 DEF IInv, BootFirst, Done, Activities
<1>11. ReleasesNoted'
  BY <1>2, <1>4, <1>6 DEF IInv, ReleasesNoted
<1>12. ActiveAnswers' /\ ActiveTargetIsRunning'
  BY <1>1, <1>3, <1>4
  DEF IInv, TypeOK, ActiveAnswers, ActiveTargetIsRunning, IsStopping
<1>13. NoChildLeaks'
  BY <1>1, <1>2, <1>3, <1>4, <1>6, c = task[a].child
  DEF IInv, NoChildLeaks, DrainingChildren, c
<1> QED
  BY <1>6, <1>7, <1>8, <1>9, <1>10, <1>11, <1>12, <1>13 DEF IInv

\* A step of the update attempt while it has no child.
LEMMA KeptByQuietStep ==
    ASSUME SupervisorAssumption, IInv, ProxyIsUp,
           NEW V \in Task, V.child = None, V.step \in {"idle", "checking", "staging"},
           task["update"].child = None,
           task' = [task EXCEPT !["update"] = V],
           UNCHANGED <<processVars, proxyVars, mode, awaited, remote>>
    PROVE  IInv'
<1> USE DEF processVars, proxyVars
<1>1. /\ TypeOK'
      /\ task'["update"] = V
      /\ \A b \in Activities : b # "update" => task'[b] = task[b]
  BY DEF IInv, TypeOK, Activities
<1>2. TasksFit' /\ BootFirst'
  BY <1>1 DEF IInv, TasksFit, Repairing, BootFirst, ProxyIsUp, Activities
<1>3. RolesApart'
  BY <1>1 DEF IInv, RolesApart
<1>4. NobodyToldToLeave' /\ ReleasesNoted'
  BY <1>1 DEF IInv, NobodyToldToLeave, ReleasesNoted
<1>5. ActiveAnswers' /\ ActiveTargetIsRunning'
  BY DEF IInv, ActiveAnswers, ActiveTargetIsRunning, IsStopping
<1>6. NoChildLeaks'
  BY <1>1 DEF IInv, NoChildLeaks, DrainingChildren, Activities, TypeOK, SupervisorAssumption
<1> QED
  BY <1>1, <1>2, <1>3, <1>4, <1>5, <1>6 DEF IInv

\* While the update attempt has something to do the proxy listens.
LEMMA UpdateMeansUp ==
    IInv /\ (task["update"] # Done \/ task["restart"] # Done) => ProxyIsUp
BY DEF IInv, BootFirst, ProxyIsUp

LEMMA KeptByUpdateSteps ==
    ASSUME SupervisorAssumption, IInv,
           BeginUpdateCheck \/ ReadRemoteRevision \/ UpdateFails
    PROVE  IInv'
<1>1. task["update"] \in Task /\ remote \in Revisions
  BY DEF IInv, TypeOK, Activities
<1>2. CASE BeginUpdateCheck
  <2> DEFINE V == [Done EXCEPT !.step = "checking"]
  <2>1. V \in Task /\ V.child = None /\ V.step = "checking"
    BY DoneFacts DEF Task, Steps
  <2>2. /\ task' = [task EXCEPT !["update"] = V]
        /\ task["update"].child = None /\ ProxyIsUp
        /\ UNCHANGED <<processVars, proxyVars, mode, awaited, remote>>
    BY <1>2, DoneFacts DEF BeginUpdateCheck, IInv, TypeOK, Activities
  <2> HIDE DEF V
  <2> QED
    BY <2>1, <2>2, KeptByQuietStep
<1>3. CASE ReadRemoteRevision
  <2> DEFINE V == IF activeTarget = remote THEN Done
                  ELSE [task["update"] EXCEPT !.step = "staging", !.target = remote]
  <2>1. task["update"].step = "checking" /\ task["update"].child = None
    BY <1>3 DEF ReadRemoteRevision, IInv, TasksFit, Activities
  <2>2. V \in Task /\ V.child = None /\ V.step \in {"idle", "staging"}
    BY <1>1, <2>1, DoneFacts DEF Task, Steps
  <2>3. /\ task' = [task EXCEPT !["update"] = V]
        /\ UNCHANGED <<processVars, proxyVars, mode, awaited, remote>>
    BY <1>3 DEF ReadRemoteRevision
  <2>4. ProxyIsUp
    BY <2>1, DoneFacts, UpdateMeansUp
  <2> HIDE DEF V
  <2> QED
    BY <2>1, <2>2, <2>3, <2>4, KeptByQuietStep
<1>4. CASE UpdateFails
  <2>1. task["update"].step \in {"checking", "staging"} /\ task["update"].child = None
    BY <1>4 DEF UpdateFails, IInv, TasksFit, Activities
  <2>2. ProxyIsUp
    BY <2>1, DoneFacts, UpdateMeansUp
  <2> QED
    BY <1>4, <2>1, <2>2, DoneFacts, KeptByQuietStep DEF UpdateFails
<1> QED
  BY <1>2, <1>3, <1>4

\* The child of start() or of the restart loop becomes the active one.
LEMMA KeptByTakeOver ==
    ASSUME SupervisorAssumption, IInv, NEW a \in {"boot", "restart"}, Healthy(a),
           active = None, active' = task[a].child, activeTarget' = task[a].target,
           task' = [task EXCEPT ![a] = Done],
           UNCHANGED <<processVars, draining, drainers, mode, awaited, remote>>
    PROVE  IInv'
<1> USE DEF processVars
<1> DEFINE c == task[a].child
<1>1. /\ a \in Activities /\ task[a].step = "polling" /\ (alive[c] \/ Clustered)
      /\ task[a] \in Task /\ c \in Children
      /\ \A i \in DOMAIN draining : draining[i].child # c
      /\ \A b \in Activities : b # a => task[b].child # c
      /\ signal[c] = "none" /\ release[c] = task[a].target
  BY DEF Healthy, IInv, TypeOK, TasksFit, RolesApart, NobodyToldToLeave, ReleasesNoted,
         Activities, Task, SupervisorAssumption
<1>2. /\ TypeOK'
      /\ task'[a] = Done
      /\ \A b \in Activities : b # a => task'[b] = task[b]
  BY <1>1, DoneFacts DEF IInv, TypeOK, Task
<1>3. TasksFit'
  BY <1>1, <1>2, DoneFacts DEF IInv, TasksFit, Repairing, Activities
<1>4. RolesApart'
  BY <1>1, <1>2, DoneFacts DEF IInv, RolesApart
<1>5. NobodyToldToLeave' /\ ReleasesNoted'
  BY <1>1, <1>2, DoneFacts DEF IInv, NobodyToldToLeave, ReleasesNoted
<1>6. BootFirst'
  BY <1>1, <1>2, DoneFacts DEF IInv, BootFirst, Activities
<1>7. ActiveAnswers' /\ ActiveTargetIsRunning'
  BY <1>1 DEF ActiveAnswers, ActiveTargetIsRunning
<1>8. NoChildLeaks'
  BY <1>1, <1>2, DoneFacts DEF IInv, NoChildLeaks, DrainingChildren
<1> QED
  BY <1>2, <1>3, <1>4, <1>5, <1>6, <1>7, <1>8 DEF IInv

LEMMA KeptByBootCompletes ==
    ASSUME SupervisorAssumption, IInv, BootCompletes
    PROVE  IInv'
<1>1. task["boot"].step = "polling" /\ task["boot"] # Done
  BY DoneFacts DEF BootCompletes, Healthy
<1>2. active = None /\ activeTarget = task["boot"].target
  BY <1>1 DEF IInv, BootFirst
<1> QED
  BY <1>2, KeptByTakeOver DEF BootCompletes

LEMMA KeptByRestartSucceeds ==
    ASSUME SupervisorAssumption, IInv, RestartSucceeds
    PROVE  IInv'
BY KeptByTakeOver DEF RestartSucceeds

LEMMA KeptByPush ==
    ASSUME SupervisorAssumption, IInv, Push
    PROVE  IInv'
<1>1. TypeOK'
  BY DEF IInv, Push, processVars, proxyVars, TypeOK, Task, Record, Steps, Activities, Revisions
<1>2. TasksFit'
  BY DEF IInv, Push, processVars, proxyVars, TypeOK, TasksFit, Repairing, Done, Activities, Task
<1>3. RolesApart'
  BY DEF IInv, Push, processVars, proxyVars, TypeOK, TasksFit, RolesApart, Activities
<1>4. NobodyToldToLeave'
  BY DEF IInv, Push, processVars, proxyVars, TypeOK, TasksFit, RolesApart, NobodyToldToLeave, Activities
<1>5. BootFirst'
  BY DEF IInv, Push, processVars, proxyVars, TypeOK, BootFirst, Done, Activities, Task
<1>6. ReleasesNoted'
  BY DEF IInv, Push, processVars, proxyVars, TypeOK, TasksFit, RolesApart, ReleasesNoted, Activities
<1>7. ActiveAnswers'
  BY DEF IInv, Push, processVars, proxyVars, TypeOK, TasksFit, RolesApart, NobodyToldToLeave, ActiveAnswers, IsStopping, Activities
<1>8. NoChildLeaks'
  BY DEF IInv, Push, processVars, proxyVars, TypeOK, TasksFit, NoChildLeaks, DrainingChildren, Activities
<1>9. ActiveTargetIsRunning'
  BY DEF IInv, Push, processVars, proxyVars, TypeOK, TasksFit, RolesApart, ReleasesNoted, ActiveTargetIsRunning, Activities
<1> QED
  BY <1>1, <1>2, <1>3, <1>4, <1>5, <1>6, <1>7, <1>8, <1>9 DEF IInv

\* The restart loop stops its child, unless that has exited already.
LEMMA KeptByRestartSurplus ==
    ASSUME SupervisorAssumption, IInv, RestartSurplus
    PROVE  IInv'
<1> DEFINE c == task["restart"].child
           V == IF alive[c] THEN [task["restart"] EXCEPT !.step = "stopping"] ELSE Done
<1>1. /\ task["restart"].step = "polling" /\ task["restart"] \in Task
      /\ active # None
      /\ task' = [task EXCEPT !["restart"] = V]
      /\ signal' = [signal EXCEPT ![c] = IF alive[c] THEN "stop" ELSE @]
      /\ UNCHANGED <<alive, release, active, activeTarget, draining, drainers, mode,
                     awaited, remote>>
  BY DEF RestartSurplus, StopChild, Healthy, proxyVars, IInv, TypeOK, Activities
<1>2. /\ c \in Children /\ c # active
      /\ \A i \in DOMAIN draining : draining[i].child # c
      /\ \A b \in Activities : b # "restart" => task[b].child # c
  BY <1>1 DEF IInv, TasksFit, RolesApart, Task, Activities, SupervisorAssumption
<1>3. /\ V \in Task
      /\ V = Done \/ (V.step = "stopping" /\ V.child = c)
      /\ V = Done => ~ alive[c]
      /\ V.step \notin {"spawned", "polling"}
      /\ V.child # None <=> V.step = "stopping"
  <2>1. CASE alive[c]
    <3>1. V = [task["restart"] EXCEPT !.step = "stopping"]
      BY <2>1
    <3>2. V \in Task /\ V.step = "stopping" /\ V.child = c
      BY <1>1, <3>1 DEF Task, Steps
    <3> HIDE DEF c, V
    <3> QED
      BY <1>2, <2>1, <3>2, DoneFacts DEF SupervisorAssumption
  <2>2. CASE ~ alive[c]
    <3>1. V = Done
      BY <2>2
    <3> HIDE DEF c, V
    <3> QED
      BY <2>2, <3>1, DoneFacts
  <2> QED
    BY <2>1, <2>2
<1> HIDE DEF c, V
<1>4. /\ signal' \in [Children -> {"none", "term", "stop"}]
      /\ \A d \in Children :
            signal'[d] = signal[d] \/ (d = c /\ alive[c] /\ signal'[d] = "stop")
      /\ alive[c] => signal'[c] = "stop"
  <2>1. signal \in [Children -> {"none", "term", "stop"}]
    BY DEF IInv, TypeOK
  <2>2. CASE alive[c]
    <3>1. signal' = [signal EXCEPT ![c] = "stop"]
      BY <1>1, <2>2
    <3> QED
      BY <1>2, <2>1, <2>2, <3>1
  <2>3. CASE ~ alive[c]
    <3>1. signal' = signal
      BY <1>1, <1>2, <2>1, <2>3
    <3> QED
      BY <2>1, <2>3, <3>1
  <2> QED
    BY <2>2, <2>3
<1>5. /\ TypeOK'
      /\ task'["restart"] = V
      /\ \A b \in Activities : b # "restart" => task'[b] = task[b]
  BY <1>1, <1>3, <1>4 DEF IInv, TypeOK, Activities
<1>6. TasksFit' /\ BootFirst'
  BY <1>1, <1>3, <1>5, DoneFacts DEF IInv, TasksFit, Repairing, BootFirst, Activities
<1>7. RolesApart'
  BY <1>1, <1>2, <1>3, <1>5, DoneFacts DEF IInv, RolesApart
<1>8. NobodyToldToLeave'
  <2>1. \A a \in Activities : task'[a].step \in {"spawned", "polling"} =>
           a # "restart" /\ task'[a] = task[a] /\ task[a].child # c
    BY <1>2, <1>3, <1>5
  <2>2. \A a \in Activities : task[a].step \in {"spawned", "polling"} =>
           task[a].child \in Children
    BY DEF IInv, TypeOK, TasksFit, Task
  <2>3. \A a \in Activities : task'[a].step \in {"spawned", "polling"} =>
           signal'[task'[a].child] = "none"
    BY <1>4, <2>1, <2>2 DEF IInv, NobodyToldToLeave
  <2>4. mode' = "running" => \A i \in DOMAIN draining' :
           alive'[draining'[i].child] => signal'[draining'[i].child] = "none"
    BY <1>1, <1>2, <1>4, DrainingAreChildren DEF IInv, NobodyToldToLeave
  <2> QED
    BY <2>3, <2>4 DEF NobodyToldToLeave
<1>9. ReleasesNoted'
  BY <1>1, <1>3, <1>5 DEF IInv, ReleasesNoted
<1>10. ActiveAnswers' /\ ActiveTargetIsRunning'
  <2>1. active \in Children
    BY <1>1 DEF IInv, TypeOK
  <2> QED
    BY <1>1, <1>2, <1>4, <2>1 DEF IInv, ActiveAnswers, ActiveTargetIsRunning, IsStopping
<1>11. NoChildLeaks'
  <2> SUFFICES ASSUME NEW d \in Children, alive'[d]
               PROVE  \/ d = active' \/ d \in DrainingChildren'
                      \/ signal'[d] # "none"
                      \/ \E a \in Activities : task'[a].child = d
    BY DEF NoChildLeaks
  <2>1. \/ d = active \/ d \in DrainingChildren \/ signal[d] # "none"
        \/ \E a \in Activities : task[a].child = d
    BY <1>1 DEF IInv, NoChildLeaks
  <2>2. DrainingChildren' = DrainingChildren
    BY <1>1 DEF DrainingChildren
  <2>3. CASE \E a \in Activities : task[a].child = d
    BY <1>1, <1>4, <1>5, <2>3 DEF c
  <2> QED
    BY <1>1, <1>4, <2>1, <2>2, <2>3
<1> QED
  BY <1>5, <1>6, <1>7, <1>8, <1>9, <1>10, <1>11 DEF IInv

LEMMA KeptByEndStop ==
    ASSUME SupervisorAssumption, IInv, EndStop
    PROVE  IInv'
<1>1. TypeOK'
  BY DEF IInv, EndStop, processVars, proxyVars, TypeOK, Task, Record, Steps, Activities, Revisions
<1>2. TasksFit'
  BY DEF IInv, EndStop, processVars, proxyVars, TypeOK, TasksFit, Repairing, Done, Activities, Task
<1>3. RolesApart'
  BY DEF IInv, EndStop, processVars, proxyVars, TypeOK, TasksFit, RolesApart, Activities
<1>4. NobodyToldToLeave'
  BY DEF IInv, EndStop, processVars, proxyVars, TypeOK, TasksFit, RolesApart, NobodyToldToLeave, Activities
<1>5. BootFirst'
  BY DEF IInv, EndStop, processVars, proxyVars, TypeOK, BootFirst, Done, Activities, Task
<1>6. ReleasesNoted'
  BY DEF IInv, EndStop, processVars, proxyVars, TypeOK, TasksFit, RolesApart, ReleasesNoted, Activities
<1>7. ActiveAnswers'
  BY DEF IInv, EndStop, processVars, proxyVars, TypeOK, TasksFit, RolesApart, NobodyToldToLeave, ActiveAnswers, IsStopping, Activities
<1>8. NoChildLeaks'
  BY DEF IInv, EndStop, processVars, proxyVars, TypeOK, TasksFit, NoChildLeaks, DrainingChildren, Activities
<1>9. ActiveTargetIsRunning'
  BY DEF IInv, EndStop, processVars, proxyVars, TypeOK, TasksFit, RolesApart, ReleasesNoted, ActiveTargetIsRunning, Activities
<1> QED
  BY <1>1, <1>2, <1>3, <1>4, <1>5, <1>6, <1>7, <1>8, <1>9 DEF IInv

\* A process that nobody uses or starts is gone: an active one only when the
\* supervisor is stopping.
LEMMA KeptByDeath ==
    ASSUME SupervisorAssumption, IInv, NEW c \in Children, alive[c],
           mode = "running" => c # active',
           alive' = [alive EXCEPT ![c] = FALSE],
           active' \in {active, None},
           active' = None /\ active # None => active = c,
           \/ task' = task
           \/ /\ task["restart"].step = "stopping" /\ task["restart"].child = c
              /\ task' = [task EXCEPT !["restart"] = Done],
           UNCHANGED <<signal, release, activeTarget, draining, drainers, mode, awaited,
                       remote>>
    PROVE  IInv'
<1>1. \A b \in Activities :
         \/ task'[b] = task[b]
         \/ b = "restart" /\ task'[b] = Done /\ task[b].child = c
  <2>1. "restart" \in Activities /\ task \in [Activities -> Task]
    BY DEF IInv, TypeOK, Activities
  <2>2. CASE task' = task
    BY <2>2
  <2>3. CASE task["restart"].child = c /\ task' = [task EXCEPT !["restart"] = Done]
    BY <2>1, <2>3
  <2> QED
    BY <2>2, <2>3
<1>2. TypeOK'
  BY DoneFacts DEF IInv, TypeOK
<1>3. TasksFit'
  BY <1>1, DoneFacts DEF IInv, TasksFit, Repairing, Activities
<1>4. RolesApart'
  <2>1. \A i \in DOMAIN draining : draining[i].child # None
    BY DrainingAreChildren DEF IInv, SupervisorAssumption
  <2> QED
    BY <1>1, <2>1, DoneFacts DEF IInv, RolesApart
<1>5. BootFirst'
  BY <1>1, DoneFacts DEF IInv, BootFirst, Activities
<1>6. \A d \in Children : alive'[d] => alive[d]
  BY DEF IInv, TypeOK
<1>7. NobodyToldToLeave' /\ ReleasesNoted'
  BY <1>1, <1>6, DoneFacts, DrainingAreChildren
  DEF IInv, NobodyToldToLeave, ReleasesNoted
<1>8. ActiveAnswers' /\ ActiveTargetIsRunning'
  BY DEF IInv, TypeOK, ActiveAnswers, ActiveTargetIsRunning, IsStopping
<1>9. NoChildLeaks'
  <2> SUFFICES ASSUME NEW d \in Children, alive'[d]
               PROVE  \/ d = active' \/ d \in DrainingChildren'
                      \/ signal'[d] # "none"
                      \/ \E a \in Activities : task'[a].child = d
    BY DEF NoChildLeaks
  <2>1. alive[d] /\ d # c
    BY DEF IInv, TypeOK
  <2> QED
    BY <1>1, <2>1 DEF IInv, NoChildLeaks, DrainingChildren
<1> QED
  BY <1>2, <1>3, <1>4, <1>5, <1>7, <1>8, <1>9 DEF IInv

LEMMA KeptByExitUnnoticed ==
    ASSUME SupervisorAssumption, IInv, NEW c \in Children, ExitUnnoticed(c)
    PROVE  IInv'
<1>1. mode = "running" => c # active
  BY DEF ExitUnnoticed, Exits, Noticed, IInv, ActiveAnswers, IsStopping,
         SupervisorAssumption
<1> QED
  BY <1>1, KeptByDeath DEF ExitUnnoticed, Exits, AfterExit, proxyVars

LEMMA KeptByExitWhileRestarting ==
    ASSUME SupervisorAssumption, IInv, NEW c \in Children, ExitWhileRestarting(c)
    PROVE  IInv'
BY KeptByDeath DEF ExitWhileRestarting, Exits, Noticed, SupervisorAssumption

\* stop() tells the children in use to leave, and no others.
LEMMA KeptByBeginStop ==
    ASSUME SupervisorAssumption, IInv, BeginStop
    PROVE  IInv'
<1>1. /\ mode' = "stopping" /\ draining' = <<>>
      /\ awaited' = {c \in DrainingChildren \cup ({active} \ {None}) : alive[c]}
      /\ signal' = [c \in Children |-> IF c \in awaited' THEN "stop" ELSE signal[c]]
      /\ UNCHANGED <<alive, release, active, activeTarget, drainers, task, remote>>
  BY DEF BeginStop
<1>2. DrainingChildren \subseteq Children
  BY DrainingAreChildren DEF IInv, DrainingChildren
<1>3. awaited' \subseteq Children
  BY <1>1, <1>2 DEF IInv, TypeOK
<1>4. draining' \in Seq(Record) /\ DOMAIN draining' = {} /\ ToSet(draining') = {}
  BY <1>1 DEF ToSet
<1>5. signal' \in [Children -> {"none", "term", "stop"}]
  BY <1>1 DEF IInv, TypeOK
<1>6. TypeOK'
  BY <1>1, <1>3, <1>4, <1>5 DEF IInv, TypeOK
<1>7. TasksFit' /\ RolesApart' /\ BootFirst'
  BY <1>1, <1>4 DEF IInv, TasksFit, Repairing, RolesApart, BootFirst
<1>8. NobodyToldToLeave' /\ ReleasesNoted'
  <2>1. \A a \in Activities : task[a].step \in {"spawned", "polling"} =>
           task[a].child \in Children /\ task[a].child \notin awaited'
    BY <1>1 DEF IInv, TypeOK, TasksFit, RolesApart, DrainingChildren, Task
  <2> QED
    BY <1>1, <1>4, <2>1 DEF IInv, NobodyToldToLeave, ReleasesNoted
<1>9. ActiveAnswers' /\ ActiveTargetIsRunning'
  BY <1>1 DEF IInv, ActiveAnswers, ActiveTargetIsRunning, IsStopping
<1>10. NoChildLeaks'
  BY <1>1 DEF IInv, NoChildLeaks
<1> QED
  BY <1>6, <1>7, <1>8, <1>9, <1>10 DEF IInv

\* A fresh child is spawned; the active one may be gone in the same step.
LEMMA KeptBySpawn ==
    ASSUME SupervisorAssumption, IInv, ProxyIsUp,
           NEW a \in {"update", "restart"}, task[a].child = None,
           NEW d \in Children, Fresh(d), NEW T \in Revisions,
           active' \in {active, None},
           alive' \in [Children -> BOOLEAN],
           \A e \in Children :
              alive'[e] <=> \/ e = d
                            \/ alive[e] /\ (active' = active \/ e # active),
           signal' = [signal EXCEPT ![d] = "none"],
           release' = [release EXCEPT ![d] = T],
           task' = [task EXCEPT ![a] = [step |-> "spawned", child |-> d, target |-> T]],
           UNCHANGED <<activeTarget, draining, drainers, mode, awaited, remote>>
    PROVE  IInv'
<1> DEFINE V == [step |-> "spawned", child |-> d, target |-> T]
<1>1. V \in Task /\ V.step = "spawned" /\ V.child = d /\ V.target = T /\ d # None
  BY DEF Task, Steps, SupervisorAssumption
<1>2. /\ d # active /\ \A b \in Activities : task[b].child # d
      /\ \A i \in DOMAIN draining : draining[i].child # d
  <2>1. \A i \in DOMAIN draining : draining[i] \in drainers
    BY DEF IInv, TypeOK, ToSet
  <2> QED
    BY <2>1 DEF Fresh
<1> HIDE DEF V
<1>3. /\ TypeOK'
      /\ task'[a] = V
      /\ a \in Activities
      /\ \A b \in Activities : b # a => task'[b] = task[b]
  BY <1>1 DEF V, IInv, TypeOK, Activities
<1>4. \A e \in Children : e # d => signal'[e] = signal[e] /\ release'[e] = release[e]
  BY DEF IInv, TypeOK
<1>5. signal'[d] = "none" /\ release'[d] = T
  BY DEF IInv, TypeOK
<1>6. TasksFit'
  BY <1>1, <1>3 DEF IInv, TasksFit, Repairing, Activities
<1>7. RolesApart'
  <2>1. \A i \in DOMAIN draining : draining[i].child # None
    BY DrainingAreChildren DEF IInv, SupervisorAssumption
  <2> QED
    BY <1>1, <1>2, <1>3, <2>1 DEF IInv, RolesApart
<1>8. \A b \in Activities : task[b].step \in {"spawned", "polling"} =>
         task[b].child \in Children
  BY DEF IInv, TypeOK, TasksFit, Task
<1>9. NobodyToldToLeave' /\ ReleasesNoted'
  BY <1>1, <1>2, <1>3, <1>4, <1>5, <1>8, DrainingAreChildren
  DEF IInv, NobodyToldToLeave, ReleasesNoted
<1>10. BootFirst'
  BY <1>3 DEF BootFirst, ProxyIsUp, Activities
<1>11. ActiveAnswers' /\ ActiveTargetIsRunning'
  BY <1>2, <1>4
  DEF IInv, TypeOK, ActiveAnswers, ActiveTargetIsRunning, IsStopping
<1>12. NoChildLeaks'
  <2> SUFFICES ASSUME NEW e \in Children, alive'[e]
               PROVE  \/ e = active' \/ e \in DrainingChildren'
                      \/ signal'[e] # "none"
                      \/ \E b \in Activities : task'[b].child = e
    BY DEF NoChildLeaks
  <2>1. CASE e = d
    BY <1>1, <1>3, <2>1
  <2>2. CASE e # d
    <3>1. alive[e] /\ (active' = active \/ e # active) /\ signal'[e] = signal[e]
      BY <1>4, <2>2
    <3>2. \/ e = active \/ e \in DrainingChildren \/ signal[e] # "none"
          \/ \E b \in Activities : task[b].child = e
      BY <3>1 DEF IInv, NoChildLeaks
    <3>3. \A b \in Activities : task[b].child = e => b # a
      BY DEF SupervisorAssumption
    <3> QED
      BY <1>3, <3>1, <3>2, <3>3 DEF DrainingChildren
  <2> QED
    BY <2>1, <2>2
<1> QED
  BY <1>3, <1>6, <1>7, <1>9, <1>10, <1>11, <1>12 DEF IInv

LEMMA KeptByStageRelease ==
    ASSUME SupervisorAssumption, IInv, StageRelease
    PROVE  IInv'
<1>1. PICK d \in Children :
         /\ Fresh(d)
         /\ alive' = [alive EXCEPT ![d] = TRUE]
         /\ signal' = [signal EXCEPT ![d] = "none"]
         /\ release' = [release EXCEPT ![d] = task["update"].target]
         /\ task' = [task EXCEPT !["update"] =
                       [step |-> "spawned", child |-> d, target |-> task["update"].target]]
  BY DEF StageRelease, Spawn
<1>2. task["update"].child = None /\ ProxyIsUp /\ task["update"].target \in Revisions
  BY DoneFacts, UpdateMeansUp DEF StageRelease, IInv, TypeOK, TasksFit, Task, Activities
<1>3. /\ alive' \in [Children -> BOOLEAN]
      /\ \A e \in Children : alive'[e] <=> e = d \/ alive[e]
  BY <1>1 DEF IInv, TypeOK
<1> QED
  BY <1>1, <1>2, <1>3, KeptBySpawn DEF StageRelease, proxyVars

LEMMA KeptByBackoffEnds ==
    ASSUME SupervisorAssumption, IInv, BackoffEnds
    PROVE  IInv'
<1>1. PICK d \in Children :
         /\ Fresh(d)
         /\ alive' = [alive EXCEPT ![d] = TRUE]
         /\ signal' = [signal EXCEPT ![d] = "none"]
         /\ release' = [release EXCEPT ![d] = task["restart"].target]
         /\ task' = [task EXCEPT !["restart"] =
                       [step |-> "spawned", child |-> d, target |-> task["restart"].target]]
  BY DEF BackoffEnds, Spawn
<1>2. task["restart"].child = None /\ ProxyIsUp /\ task["restart"].target \in Revisions
  BY DoneFacts, UpdateMeansUp DEF BackoffEnds, IInv, TypeOK, TasksFit, Task, Activities
<1>3. /\ alive' \in [Children -> BOOLEAN]
      /\ \A e \in Children : alive'[e] <=> e = d \/ alive[e]
  BY <1>1 DEF IInv, TypeOK
<1> QED
  BY <1>1, <1>2, <1>3, KeptBySpawn DEF BackoffEnds, proxyVars

LEMMA KeptByExitRestarts ==
    ASSUME SupervisorAssumption, IInv, NEW c \in Children, ExitRestarts(c)
    PROVE  IInv'
<1>1. c = active /\ alive[c] /\ task["restart"] = Done /\ active' = None /\ active # None
  BY DEF ExitRestarts, Exits, Noticed, IsRestarting, SupervisorAssumption
<1>2. PICK d \in Children :
         /\ Fresh(d)
         /\ alive' = [alive EXCEPT ![c] = FALSE, ![d] = TRUE]
         /\ signal' = [signal EXCEPT ![d] = "none"]
         /\ release' = [release EXCEPT ![d] = release[c]]
         /\ task' = [task EXCEPT !["restart"] =
                       [step |-> "spawned", child |-> d, target |-> release[c]]]
  BY DEF ExitRestarts
<1>3. ProxyIsUp /\ release[c] \in Revisions /\ task["restart"].child = None
  BY <1>1, DoneFacts DEF IInv, TypeOK, BootFirst, ProxyIsUp
<1>4. /\ alive' \in [Children -> BOOLEAN]
      /\ \A e \in Children : alive'[e] <=> e = d \/ (alive[e] /\ e # c)
  BY <1>1, <1>2 DEF Fresh, IInv, TypeOK
<1> QED
  BY <1>1, <1>2, <1>3, <1>4, KeptBySpawn DEF ExitRestarts

\* A drain is over.
LEMMA KeptByDrainEnds ==
    ASSUME SupervisorAssumption, IInv, NEW r \in drainers, DrainEnds(r)
    PROVE  IInv'
<1>1. /\ drainers' = drainers \ {r}
      /\ UNCHANGED <<alive, release, active, activeTarget, task, mode, awaited, remote>>
  BY DEF DrainEnds
<1>2. /\ draining \in Seq(Record) /\ r \in Record /\ r.child \in Children
      /\ \A k \in DOMAIN draining : draining[k] \in drainers
  BY DEF IInv, TypeOK, ToSet, Record
<1>3. CASE r \notin ToSet(draining)
  <2>1. UNCHANGED <<draining, signal>>
    BY <1>3 DEF DrainEnds
  <2>2. TypeOK'
    BY <1>1, <1>3, <2>1 DEF IInv, TypeOK
  <2>3. TasksFit' /\ RolesApart' /\ NobodyToldToLeave' /\ BootFirst' /\ ReleasesNoted'
    BY <1>1, <2>1
    DEF IInv, TasksFit, Repairing, RolesApart, NobodyToldToLeave, BootFirst, ReleasesNoted
  <2>4. ActiveAnswers' /\ NoChildLeaks' /\ ActiveTargetIsRunning'
    BY <1>1, <2>1 DEF IInv, ActiveAnswers, NoChildLeaks, ActiveTargetIsRunning,
                      IsStopping, DrainingChildren
  <2> QED
    BY <2>2, <2>3, <2>4 DEF IInv
<1>4. CASE r \in ToSet(draining)
  <2>1. PICK i \in DOMAIN draining : draining[i] = r /\ draining' = RemoveAt(draining, i)
    BY <1>4 DEF DrainEnds, DropRecord
  <2>2. signal' = [signal EXCEPT ![r.child] = IF alive[r.child] THEN "stop" ELSE @]
    BY <1>4 DEF DrainEnds, StopChild
  <2>3. /\ draining' \in Seq(Record)
        /\ \A k \in DOMAIN draining' :
              \E m \in DOMAIN draining : m # i /\ draining'[k] = draining[m]
        /\ \A m \in DOMAIN draining : m # i =>
              \E k \in DOMAIN draining' : draining'[k] = draining[m]
        /\ \A k, l \in DOMAIN draining' : k # l =>
              \E m, n \in DOMAIN draining :
                 /\ m # n /\ m # i /\ n # i
                 /\ draining'[k] = draining[m] /\ draining'[l] = draining[n]
    BY <1>2, <2>1, RemoveAtKeeps
  <2>4. \A m \in DOMAIN draining : m # i => draining[m].child # r.child
    BY <2>1 DEF IInv, RolesApart
  <2>5. /\ r.child # active
        /\ \A a \in Activities : task[a].child # None => task[a].child # r.child
    BY <2>1 DEF IInv, RolesApart
  <2>6. /\ \A d \in Children : d # r.child => signal'[d] = signal[d]
        /\ alive[r.child] => signal'[r.child] = "stop"
        /\ signal' \in [Children -> {"none", "term", "stop"}]
    BY <1>2, <2>2 DEF IInv, TypeOK
  <2>7. TypeOK'
    <3>1. ToSet(draining') \subseteq drainers'
      BY <1>1, <1>2, <2>3, <2>4 DEF ToSet
    <3> QED
      BY <1>1, <2>3, <2>6, <3>1 DEF IInv, TypeOK
  <2>8. TasksFit' /\ BootFirst'
    BY <1>1 DEF IInv, TasksFit, Repairing, BootFirst
  <2>9. RolesApart'
    <3>1. ASSUME NEW k \in DOMAIN draining', NEW l \in DOMAIN draining', k # l
          PROVE  draining'[k].child # draining'[l].child
      <4>1. PICK m, n \in DOMAIN draining :
               m # n /\ draining'[k] = draining[m] /\ draining'[l] = draining[n]
        BY <2>3, <3>1
      <4> QED
        BY <4>1 DEF IInv, RolesApart
    <3>2. \A k \in DOMAIN draining' : draining'[k].child # active'
      BY <1>1, <2>3 DEF IInv, RolesApart
    <3>3. \A a \in Activities : task'[a].child # None =>
             \A k \in DOMAIN draining' : draining'[k].child # task'[a].child
      BY <1>1, <2>3 DEF IInv, RolesApart
    <3> QED
      BY <1>1, <3>1, <3>2, <3>3 DEF IInv, RolesApart
  <2>10. ReleasesNoted'
    BY <1>1, <2>3 DEF IInv, ReleasesNoted
  <2>11. NobodyToldToLeave'
    <3>1. \A a \in Activities : task[a].step \in {"spawned", "polling"} =>
             task[a].child \in Children /\ task[a].child # r.child
      BY <2>5 DEF IInv, TypeOK, TasksFit, Task
    <3>2. \A k \in DOMAIN draining' : draining'[k].child \in Children
                                      /\ draining'[k].child # r.child
      BY <2>3, <2>4, DrainingAreChildren DEF IInv
    <3>3. \A a \in Activities : task'[a].step \in {"spawned", "polling"} =>
             signal'[task'[a].child] = "none"
      BY <1>1, <2>6, <3>1 DEF IInv, NobodyToldToLeave
    <3>4. ASSUME mode' = "running", NEW k \in DOMAIN draining', alive'[draining'[k].child]
          PROVE  signal'[draining'[k].child] = "none"
      <4>1. PICK m \in DOMAIN draining : draining'[k] = draining[m]
        BY <2>3
      <4>2. signal[draining[m].child] = "none"
        BY <1>1, <3>4, <4>1 DEF IInv, NobodyToldToLeave
      <4> QED
        BY <2>6, <3>2, <4>1, <4>2
    <3> QED
      BY <3>3, <3>4 DEF NobodyToldToLeave
  <2>12. ActiveAnswers' /\ ActiveTargetIsRunning'
    BY <1>1, <2>5, <2>6
    DEF IInv, TypeOK, ActiveAnswers, ActiveTargetIsRunning, IsStopping
  <2>13. NoChildLeaks'
    <3>1. \A d \in DrainingChildren : d = r.child \/ d \in DrainingChildren'
      BY <2>1, <2>3 DEF DrainingChildren
    <3> QED
      BY <1>1, <2>6, <3>1 DEF IInv, NoChildLeaks
  <2> QED
    BY <2>7, <2>8, <2>9, <2>10, <2>11, <2>12, <2>13 DEF IInv
<1> QED
  BY <1>3, <1>4

\* The active child exits and a draining one takes over.
LEMMA KeptByExitFallsBack ==
    ASSUME SupervisorAssumption, IInv, NEW c \in Children, ExitFallsBack(c)
    PROVE  IInv'
<1>1. /\ c = active /\ alive[c] /\ mode = "running"
      /\ alive' = [alive EXCEPT ![c] = FALSE]
      /\ UNCHANGED <<signal, release, drainers, task, mode, awaited, remote>>
  BY DEF ExitFallsBack, Exits, Noticed, IsStopping
<1>2. PICK i \in DOMAIN draining :
         /\ alive[draining[i].child]
         /\ active' = draining[i].child
         /\ activeTarget' = draining[i].target
         /\ draining' = RemoveAt(draining, i)
  BY DEF ExitFallsBack, Fallback
<1>3. /\ draining \in Seq(Record) /\ draining[i] \in Record
      /\ draining[i].child \in Children /\ draining[i].target \in Revisions
      /\ \A k \in DOMAIN draining : draining[k] \in drainers
  BY <1>2, DrainingAreChildren DEF IInv, TypeOK, ToSet, Record
<1>4. /\ draining' \in Seq(Record)
      /\ \A k \in DOMAIN draining' :
            \E m \in DOMAIN draining : m # i /\ draining'[k] = draining[m]
      /\ \A m \in DOMAIN draining : m # i =>
            \E k \in DOMAIN draining' : draining'[k] = draining[m]
      /\ \A k, l \in DOMAIN draining' : k # l =>
            \E m, n \in DOMAIN draining :
               /\ m # n /\ m # i /\ n # i
               /\ draining'[k] = draining[m] /\ draining'[l] = draining[n]
  BY <1>2, <1>3, RemoveAtKeeps
<1>5. /\ active' # c
      /\ \A m \in DOMAIN draining : m # i => draining[m].child # active'
      /\ \A a \in Activities : task[a].child # None => task[a].child # active'
  BY <1>1, <1>2 DEF IInv, RolesApart
<1>6. /\ \A d \in Children : d # c => alive'[d] = alive[d]
      /\ ~ alive'[c] /\ alive' \in [Children -> BOOLEAN]
  BY <1>1 DEF IInv, TypeOK
<1>7. TypeOK'
  <2>1. ToSet(draining') \subseteq drainers'
    BY <1>1, <1>3, <1>4 DEF ToSet
  <2> QED
    BY <1>1, <1>2, <1>3, <1>4, <1>6, <2>1 DEF IInv, TypeOK
<1>8. TasksFit' /\ BootFirst'
  BY <1>1 DEF IInv, TasksFit, Repairing, BootFirst, TypeOK, SupervisorAssumption
<1>9. RolesApart'
  <2>1. ASSUME NEW k \in DOMAIN draining', NEW l \in DOMAIN draining', k # l
        PROVE  draining'[k].child # draining'[l].child
    <3>1. PICK m, n \in DOMAIN draining :
             m # n /\ draining'[k] = draining[m] /\ draining'[l] = draining[n]
      BY <1>4, <2>1
    <3> QED
      BY <3>1 DEF IInv, RolesApart
  <2>2. \A k \in DOMAIN draining' : draining'[k].child # active'
    BY <1>4, <1>5
  <2>3. \A a \in Activities : task'[a].child # None =>
           \A k \in DOMAIN draining' : draining'[k].child # task'[a].child
    BY <1>1, <1>4 DEF IInv, RolesApart
  <2> QED
    BY <1>1, <1>5, <2>1, <2>2, <2>3 DEF IInv, RolesApart
<1>10. NobodyToldToLeave' /\ ReleasesNoted'
  <2>1. \A k \in DOMAIN draining' :
           draining'[k].child \in Children /\ draining'[k].child # c
    BY <1>1, <1>4, DrainingAreChildren DEF IInv, RolesApart
  <2> QED
    BY <1>1, <1>4, <1>6, <2>1 DEF IInv, NobodyToldToLeave, ReleasesNoted
<1>11. ActiveAnswers' /\ ActiveTargetIsRunning'
  BY <1>1, <1>2, <1>3, <1>5, <1>6
  DEF IInv, NobodyToldToLeave, ReleasesNoted, ActiveAnswers, ActiveTargetIsRunning,
      IsStopping
<1>12. NoChildLeaks'
  <2>1. \A d \in DrainingChildren : d = active' \/ d \in DrainingChildren'
    BY <1>2, <1>4 DEF DrainingChildren
  <2> QED
    BY <1>1, <1>6, <2>1 DEF IInv, NoChildLeaks
<1> QED
  BY <1>7, <1>8, <1>9, <1>10, <1>11, <1>12 DEF IInv

\* The record scheduleDrain makes.
LEMMA NewRecordFacts ==
    ASSUME NEW c \in Children, NEW T \in Revisions, FreeNumbers # {}
    PROVE  /\ NewRecord(c, T) \in Record
           /\ NewRecord(c, T).child = c /\ NewRecord(c, T).target = T
<1>1. (CHOOSE n \in FreeNumbers : TRUE) \in 1 .. MaxDrains
  BY DEF FreeNumbers
<1> QED
  BY <1>1 DEF NewRecord, Record

\* The proxy switches to the replacement of an update.
LEMMA KeptByPromoteChild ==
    ASSUME SupervisorAssumption, IInv, PromoteChild
    PROVE  IInv'
<1> DEFINE c == task["update"].child
           rec == NewRecord(active, activeTarget)
<1>1. /\ task["update"].step = "polling" /\ (alive[c] \/ Clustered)
      /\ active' = c /\ activeTarget' = task["update"].target
      /\ task' = [task EXCEPT !["update"] = Done]
      /\ UNCHANGED <<alive, signal, release, mode, awaited, remote>>
  BY DEF PromoteChild, Healthy, processVars
<1>2. /\ "update" \in Activities /\ c \in Children /\ c # active
      /\ task["update"].target \in Revisions
      /\ \A i \in DOMAIN draining : draining[i].child # c
      /\ \A b \in Activities : b # "update" => task[b].child # c
      /\ signal[c] = "none" /\ release[c] = task["update"].target
  BY <1>1 DEF IInv, TypeOK, TasksFit, RolesApart, NobodyToldToLeave, ReleasesNoted,
              Activities, Task, SupervisorAssumption
<1>3. /\ task' \in [Activities -> Task]
      /\ task'["update"] = Done
      /\ \A b \in Activities : b # "update" => task'[b] = task[b]
  BY <1>1, <1>2, DoneFacts DEF IInv, TypeOK
<1>4. /\ draining' \in Seq(Record) /\ ToSet(draining') \subseteq drainers'
      /\ drainers' \in SUBSET Record
      /\ \A k \in DOMAIN draining' :
            \/ k \in DOMAIN draining /\ draining'[k] = draining[k]
            \/ /\ draining'[k].child = active /\ draining'[k].target = activeTarget
               /\ k \notin DOMAIN draining
               /\ active \in Children /\ alive[active]
      /\ \A k, l \in DOMAIN draining' : k \in DOMAIN draining \/ l \in DOMAIN draining \/ k = l
      /\ DrainingChildren \subseteq DrainingChildren'
      /\ active # None /\ alive[active] => active \in DrainingChildren'
  <2>1. CASE active # None /\ alive[active]
    <3>1. /\ FreeNumbers # {} /\ active \in Children
          /\ draining' = Append(draining, rec) /\ drainers' = drainers \cup {rec}
      BY <2>1 DEF PromoteChild, IInv, TypeOK
    <3>2. rec \in Record /\ rec.child = active /\ rec.target = activeTarget
      BY <3>1, NewRecordFacts DEF IInv, TypeOK
    <3> HIDE DEF rec
    <3>3. draining \in Seq(Record) /\ drainers \in SUBSET Record
          /\ \A k \in DOMAIN draining : draining[k] \in drainers
      BY DEF IInv, TypeOK, ToSet
    <3>4. /\ draining' \in Seq(Record)
          /\ DOMAIN draining = 1 .. Len(draining) /\ Len(draining) \in Nat
          /\ DOMAIN draining' = 1 .. Len(draining) + 1
          /\ \A k \in 1 .. Len(draining) : draining'[k] = draining[k]
          /\ draining'[Len(draining) + 1] = rec
      BY <3>1, <3>2, <3>3
    <3>5. \A k \in DOMAIN draining' : k \in DOMAIN draining \/ k = Len(draining) + 1
      BY <3>4
    <3>6. Len(draining) + 1 \in DOMAIN draining' /\ Len(draining) + 1 \notin DOMAIN draining
      BY <3>4
    <3>7. \A k \in DOMAIN draining : k \in DOMAIN draining'
      BY <3>4
    <3>8. ToSet(draining') \subseteq drainers'
      BY <3>1, <3>3, <3>4, <3>5 DEF ToSet
    <3>9. /\ DrainingChildren \subseteq DrainingChildren'
          /\ active \in DrainingChildren'
      BY <3>2, <3>4, <3>6, <3>7 DEF DrainingChildren
    <3> QED
      BY <2>1, <3>1, <3>2, <3>3, <3>4, <3>5, <3>6, <3>8, <3>9
  <2>2. CASE ~ (active # None /\ alive[active])
    <3>1. UNCHANGED <<draining, drainers>>
      BY <2>2 DEF PromoteChild
    <3> QED
      BY <2>2, <3>1 DEF IInv, TypeOK, DrainingChildren
  <2> QED
    BY <2>1, <2>2
<1> HIDE DEF c, rec
<1>5. TypeOK'
  BY <1>1, <1>2, <1>3, <1>4 DEF IInv, TypeOK
<1>6. TasksFit'
  BY <1>1, <1>2, <1>3, DoneFacts DEF IInv, TasksFit, Repairing, Activities
<1>7. RolesApart'
  <2>1. \A k, l \in DOMAIN draining' :
           k # l => draining'[k].child # draining'[l].child
    BY <1>4 DEF IInv, RolesApart
  <2>2. \A k \in DOMAIN draining' : draining'[k].child # active'
    BY <1>1, <1>2, <1>4
  <2>3. \A a \in Activities : task'[a].child # None =>
           \A k \in DOMAIN draining' : draining'[k].child # task'[a].child
    BY <1>3, <1>4, DoneFacts DEF IInv, RolesApart
  <2>4. \A a \in Activities : task'[a].child # None =>
           /\ task'[a].child # active'
           /\ \A b \in Activities : a # b => task'[b].child # task'[a].child
    BY <1>1, <1>2, <1>3, DoneFacts DEF IInv, RolesApart
  <2> QED
    BY <2>1, <2>2, <2>3, <2>4 DEF RolesApart
<1>8. NobodyToldToLeave'
  <2>1. \A a \in Activities : task'[a].step \in {"spawned", "polling"} =>
           signal'[task'[a].child] = "none"
    BY <1>1, <1>3, DoneFacts DEF IInv, NobodyToldToLeave
  <2>2. mode = "running" => \A k \in DOMAIN draining' :
           alive[draining'[k].child] => signal[draining'[k].child] = "none"
    BY <1>4 DEF IInv, NobodyToldToLeave, ActiveAnswers, IsStopping,
                SupervisorAssumption
  <2> QED
    BY <1>1, <2>1, <2>2 DEF NobodyToldToLeave
<1>9. ReleasesNoted'
  <2>1. \A a \in Activities : task'[a].step \in {"spawned", "polling"} =>
           release'[task'[a].child] = task'[a].target
    BY <1>1, <1>3, DoneFacts DEF IInv, ReleasesNoted
  <2>2. \A k \in DOMAIN draining' : release[draining'[k].child] = draining'[k].target
    BY <1>4 DEF IInv, ReleasesNoted, ActiveTargetIsRunning, SupervisorAssumption
  <2> QED
    BY <1>1, <2>1, <2>2 DEF ReleasesNoted
<1>10. BootFirst'
  <2>1. task["boot"] = Done
    BY <1>1, DoneFacts DEF IInv, BootFirst
  <2> QED
    BY <1>3, <2>1 DEF BootFirst, Activities
<1>11. ActiveAnswers' /\ ActiveTargetIsRunning'
  BY <1>1, <1>2, c = task["update"].child
  DEF c, ActiveAnswers, ActiveTargetIsRunning
<1>12. NoChildLeaks'
  <2> SUFFICES ASSUME NEW d \in Children, alive'[d]
               PROVE  \/ d = active' \/ d \in DrainingChildren'
                      \/ signal'[d] # "none"
                      \/ \E a \in Activities : task'[a].child = d
    BY DEF NoChildLeaks
  <2>1. \/ d = active \/ d \in DrainingChildren \/ signal[d] # "none"
        \/ \E a \in Activities : task[a].child = d
    BY <1>1 DEF IInv, NoChildLeaks
  <2>2. CASE d = active
    BY <1>1, <1>4, <2>2 DEF SupervisorAssumption
  <2>3. CASE \E a \in Activities : task[a].child = d
    BY <1>1, <1>3, <2>3 DEF c
  <2> QED
    BY <1>1, <1>4, <2>1, <2>2, <2>3
<1> QED
  BY <1>5, <1>6, <1>7, <1>8, <1>9, <1>10, <1>11, <1>12 DEF IInv

-----------------------------------------------------------------------------
(* The theorems. *)

LEMMA StepInv ==
    ASSUME SupervisorAssumption, IInv, [Next]_vars
    PROVE  IInv'
<1>1. ASSUME NEW a \in Activities, PrintsUrl(a) \/ StartFails(a) PROVE IInv'
  BY <1>1, KeptByPrintsUrl, KeptByStartFails
<1>2. CASE BootCompletes \/ PromoteChild \/ RestartSucceeds \/ RestartSurplus
  BY <1>2, KeptByBootCompletes, KeptByPromoteChild, KeptByRestartSucceeds,
     KeptByRestartSurplus
<1>3. CASE Push
  BY <1>3, KeptByPush
<1>4. CASE Updating
  BY <1>4, KeptByUpdateSteps, KeptByStageRelease DEF Updating
<1>5. ASSUME NEW r \in drainers, DrainEnds(r) PROVE IInv'
  BY <1>5, KeptByDrainEnds
<1>6. ASSUME NEW c \in Children, Exit(c) PROVE IInv'
  BY <1>6, KeptByExitUnnoticed, KeptByExitFallsBack, KeptByExitRestarts,
     KeptByExitWhileRestarting DEF Exit
<1>7. CASE BackoffEnds \/ BeginStop \/ EndStop
  BY <1>7, KeptByBackoffEnds, KeptByBeginStop, KeptByEndStop
<1>8. CASE UNCHANGED vars
  BY <1>8 DEF vars, processVars, proxyVars, IInv, TypeOK, TasksFit, Repairing, RolesApart,
              NobodyToldToLeave, BootFirst, ReleasesNoted, ActiveAnswers, IsStopping,
              NoChildLeaks, DrainingChildren, ActiveTargetIsRunning
<1> QED
  BY <1>1, <1>2, <1>3, <1>4, <1>5, <1>6, <1>7, <1>8 DEF Next, Starting

LEMMA AlwaysInv == ASSUME SupervisorAssumption PROVE Spec => []IInv
<1>1. Init => IInv
  BY InitInv
<1>2. IInv /\ [Next]_vars => IInv'
  BY StepInv
<1> QED
  BY <1>1, <1>2, PTL DEF Spec

\* Every variable of the supervisor keeps its type, and who is in
\* drainingChildren has a drainChild that will stop it.
THEOREM SupervisorTypeCorrect == ASSUME SupervisorAssumption PROVE Spec => []TypeOK
<1>1. IInv => TypeOK
  BY DEF IInv
<1> QED
  BY <1>1, AlwaysInv, PTL

\* The proxy never points at a child that has exited or is being stopped, if the
\* children are single processes.
THEOREM ProxyServes ==
    ASSUME SupervisorAssumption, ~ Clustered PROVE Spec => []ActiveChildServes
<1>1. IInv => ActiveChildServes
  BY DEF IInv, ActiveAnswers, ActiveChildServes
<1> QED
  BY <1>1, AlwaysInv, PTL

\* No overlap of updates, drains, fallbacks, restarts and stop() leaks a process.
THEOREM NoneLeaks == ASSUME SupervisorAssumption PROVE Spec => []NoChildLeaks
<1>1. IInv => NoChildLeaks
  BY DEF IInv
<1> QED
  BY <1>1, AlwaysInv, PTL

\* activeTarget names the release that runs.
THEOREM TargetRuns == ASSUME SupervisorAssumption PROVE Spec => []ActiveTargetIsRunning
<1>1. IInv => ActiveTargetIsRunning
  BY DEF IInv
<1> QED
  BY <1>1, AlwaysInv, PTL

\* One step: an active child that is lost is being replaced, except behind the
\* stop of a surplus child.
LEMMA StepRepairs ==
    ASSUME SupervisorAssumption, IInv, [Next]_vars,
           ~ IsStopping', ProxyIsUp, active' = None
    PROVE  \/ Repairing'
           \/ active # None /\ task["restart"].step = "stopping"
           \/ active = None /\ ~ Repairing
<1> SUFFICES ASSUME active = None => Repairing,
                    active # None => task["restart"].step # "stopping"
             PROVE  Repairing'
  OBVIOUS
<1> USE DEF Activities
<1>1. mode = "running" /\ task \in [Activities -> Task] /\ task["boot"] = Done
  <2>1. mode' \in {mode, "stopping", "stopped"}
    BY DEF Next, Starting, Updating, Exit, vars, processVars, proxyVars, PrintsUrl,
           StartFails, BootCompletes, PromoteChild, RestartSucceeds, RestartSurplus, Push,
           BeginUpdateCheck, ReadRemoteRevision, StageRelease, UpdateFails, DrainEnds,
           ExitUnnoticed, ExitFallsBack, ExitRestarts, ExitWhileRestarting, BackoffEnds,
           BeginStop, EndStop
  <2> QED
    BY <2>1 DEF IsStopping, IInv, TypeOK, ProxyIsUp
<1>2. CASE task'["restart"] = task["restart"] /\ active = None
  BY <1>2 DEF Repairing
<1>3. ASSUME NEW c \in Children, ExitWhileRestarting(c) PROVE Repairing'
  BY <1>3 DEF ExitWhileRestarting, Exits, Noticed, IsRestarting, IInv, TasksFit, Repairing,
              SupervisorAssumption
<1>4. ASSUME NEW c \in Children, ExitRestarts(c) PROVE Repairing'
  BY <1>1, <1>4 DEF ExitRestarts, Repairing
<1>5. ASSUME NEW c \in Children, ExitFallsBack(c) PROVE FALSE
  BY <1>5, DrainingAreChildren
  DEF ExitFallsBack, Fallback, IInv, SupervisorAssumption
<1>6. ASSUME NEW c \in Children, ExitUnnoticed(c) PROVE Repairing'
  <2>1. active = None
    BY <1>6 DEF ExitUnnoticed, proxyVars
  <2>2. task' = task
    BY <1>6, <2>1 DEF ExitUnnoticed, AfterExit, Repairing
  <2> QED
    BY <1>2, <2>1, <2>2
<1>7. CASE BackoffEnds
  BY <1>1, <1>7 DEF BackoffEnds, Spawn, Repairing
<1>8. ASSUME NEW a \in Activities, PrintsUrl(a) PROVE Repairing'
  <2>1. active = None
    BY <1>8 DEF PrintsUrl, proxyVars
  <2> QED
    BY <1>1, <1>8, <2>1 DEF PrintsUrl, Repairing, Task
<1>9. ASSUME NEW a \in Activities, StartFails(a) PROVE Repairing'
  <2>1. active = None
    BY <1>9 DEF StartFails, proxyVars
  <2>2. CASE a = "restart"
    <3>1. task'["restart"] = [task["restart"] EXCEPT !.step = "backoff", !.child = None]
      BY <1>1, <1>9, <2>1, <2>2 DEF StartFails, AfterFailure, IsStopping
    <3> QED
      BY <1>1, <3>1 DEF Repairing, Task
  <2>3. CASE a # "restart"
    BY <1>1, <1>2, <1>9, <2>1, <2>3 DEF StartFails
  <2> QED
    BY <2>2, <2>3
<1>10. CASE BootCompletes \/ PromoteChild \/ RestartSucceeds
  <2>1. PICK a \in Activities : Healthy(a) /\ active' = task[a].child
    BY <1>10 DEF BootCompletes, PromoteChild, RestartSucceeds
  <2> QED
    BY <2>1 DEF Healthy, IInv, TasksFit
<1>11. CASE RestartSurplus
  BY <1>11 DEF RestartSurplus, proxyVars
<1>12. CASE Push \/ (\E r \in drainers : DrainEnds(r)) \/ BeginStop \/ EndStop
            \/ UNCHANGED vars
  <2>1. UNCHANGED <<task, active>>
    BY <1>12 DEF Push, DrainEnds, BeginStop, EndStop, vars, proxyVars
  <2> QED
    BY <1>2, <2>1
<1>13. CASE Updating
  <2>1. active' = active
    BY <1>13 DEF Updating, BeginUpdateCheck, ReadRemoteRevision, StageRelease, UpdateFails,
                 proxyVars
  <2>2. task'["restart"] = task["restart"]
    BY <1>1, <1>13 DEF Updating, BeginUpdateCheck, ReadRemoteRevision, StageRelease, Spawn,
                       UpdateFails
  <2> QED
    BY <1>2, <2>1, <2>2
<1> QED
  BY <1>3, <1>4, <1>5, <1>6, <1>7, <1>8, <1>9, <1>10, <1>11, <1>12, <1>13
  DEF Next, Starting, Exit

\* The supervisor repairs a crash it sees, unless the restart loop is stopping a
\* surplus child at that moment.
THEOREM CrashIsRepaired == ASSUME SupervisorAssumption PROVE Spec => CrashStartsRepair
<1>1. IInv /\ [Next]_vars =>
        [~ IsStopping' /\ ProxyIsUp /\ active' = None =>
            \/ Repairing'
            \/ active # None /\ task["restart"].step = "stopping"
            \/ active = None /\ ~ Repairing]_vars
  BY StepRepairs
<1> QED
  BY <1>1, AlwaysInv, PTL DEF Spec, CrashStartsRepair

=============================================================================
