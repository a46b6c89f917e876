---------------------- MODULE ClusterRefinementProofs ----------------------
(***************************************************************************)
(* ClusterReplication implements VersionedStore, for every set of workers, *)
(* keys and values: the proof maps each step to a commit, to one worker    *)
(* that starts serving, catches up or stops, or to a stutter.              *)
(***************************************************************************)
EXTENDS ClusterRefinement, ClusterReplicationProofs

\* What a worker shows is a committed state.
LEMMA ShownIsSound ==
    ASSUME IInv, NEW w \in Workers, View[w] # Hidden
    PROVE  /\ View[w] = replica[w] /\ replica[w] \in Snapshot
           /\ replica[w].version \in 0 .. version
           /\ View[w] = Store!Shown(replica[w].version)
<1>1. View[w] = replica[w] /\ based[w]
    BY DEF View
<1>2. replica[w] \in Snapshot /\ version \in Nat
    BY DEF IInv, TypeOK
<1>3. SoundSnapshot(replica[w])
    BY <1>1 DEF IInv, WorkerInv, ReplicaInv
<1>4. replica[w].version \in 0 .. version /\ replica[w].state = hist[replica[w].version]
    BY <1>2, <1>3 DEF SoundSnapshot, Snapshot
<1>5. replica[w] = [state |-> replica[w].state, version |-> replica[w].version]
    BY <1>2 DEF Snapshot
<1>. QED
    BY <1>1, <1>2, <1>4, <1>5 DEF Store!Shown

LEMMA ShownNextIsSound ==
    ASSUME IInv', NEW w \in Workers, View'[w] # Hidden, UNCHANGED <<version, hist>>
    PROVE  /\ View'[w] = replica'[w] /\ replica'[w] \in Snapshot
           /\ replica'[w].version \in 0 .. version
           /\ View'[w] = Store!Shown(replica'[w].version)
<1>1. View'[w] = replica'[w] /\ based'[w]
    BY DEF View
<1>2. replica'[w] \in Snapshot /\ version \in Nat
    BY DEF IInv, TypeOK
<1>3. replica'[w].version <= version /\ replica'[w].state = hist[replica'[w].version]
    BY <1>1 DEF IInv, WorkerInv, ReplicaInv, SoundSnapshot
<1>4. replica'[w].version \in 0 .. version
    BY <1>2, <1>3 DEF Snapshot
<1>5. replica'[w] = [state |-> replica'[w].state, version |-> replica'[w].version]
    BY <1>2 DEF Snapshot
<1>. QED
    BY <1>1, <1>2, <1>3, <1>4, <1>5 DEF Store!Shown

\* A step of one worker is a step of its view or a stutter.
LEMMA WorkerMaps ==
    ASSUME IInv, IInv', [Next]_vars, NEW w \in Workers, UNCHANGED <<version, hist>>,
           \A u \in Workers : u # w => View'[u] = View[u]
    PROVE  [Store!Next]_(Store!vars)
<1>0. View = [u \in Workers |-> View[u]] /\ View' = [u \in Workers |-> View'[u]]
    BY DEF View
<1>1. View' = [View EXCEPT ![w] = View'[w]]
    BY <1>0
<1>2. CASE View[w] = Hidden /\ View'[w] # Hidden
    <2>1. \E v \in 0 .. version : View' = [View EXCEPT ![w] = Store!Shown(v)]
        BY <1>1, <1>2, ShownNextIsSound
    <2>2. Store!Serve(w)
        BY <1>2, <2>1 DEF Store!Serve
    <2>. QED
        BY <2>2 DEF Store!Next
<1>3. CASE View[w] # Hidden /\ View'[w] = Hidden
    <2>1. Store!Stop(w)
        BY <1>1, <1>3 DEF Store!Stop
    <2>. QED
        BY <2>1 DEF Store!Next
<1>4. CASE View[w] # Hidden /\ View'[w] # Hidden
    <2>1. phase[w] = "listening" /\ phase'[w] = "listening"
        BY <1>4 DEF View
    <2>2. replica[w].version <= replica'[w].version
        BY <2>1, ForwardStep
    <2>3. /\ replica[w].version \in 0 .. version /\ replica'[w].version \in 0 .. version
          /\ View[w] = Store!Shown(replica[w].version)
          /\ View'[w] = Store!Shown(replica'[w].version)
          /\ View[w].version = replica[w].version
        BY <1>4, ShownIsSound, ShownNextIsSound
    <2>4. CASE replica'[w].version = replica[w].version
        <3>1. View' = View
            BY <1>0, <1>1, <2>3, <2>4
        <3>. QED
            BY <3>1 DEF Store!vars
    <2>5. CASE replica'[w].version # replica[w].version
        <3>0. version \in Nat
            BY DEF IInv, TypeOK
        <3>1. replica'[w].version \in View[w].version + 1 .. version
            BY <3>0, <2>2, <2>3, <2>5
        <3>2. Store!CatchUp(w)
            BY <1>1, <1>4, <2>3, <3>1 DEF Store!CatchUp
        <3>. QED
            BY <3>2 DEF Store!Next
    <2>. QED
        BY <2>4, <2>5
<1>5. CASE View[w] = Hidden /\ View'[w] = Hidden
    <2>1. View' = View
        BY <1>0, <1>1, <1>5
    <2>. QED
        BY <2>1 DEF Store!vars
<1>. QED
    BY <1>2, <1>3, <1>4, <1>5

\* A step of the primary is a commit or a stutter, and no view moves.
LEMMA PrimaryMaps ==
    ASSUME IInv, UNCHANGED <<phase, replica, based>>,
           UNCHANGED primaryVars \/ \E s \in State : Commit(s)
    PROVE  [Store!Next]_(Store!vars)
<1>0. View' = View
    BY DEF View
<1>1. CASE UNCHANGED primaryVars
    BY <1>0, <1>1 DEF primaryVars, Store!vars
<1>2. ASSUME NEW s \in State, Commit(s)
      PROVE  Store!Next
    <2>1. hist[version] = entries
        BY DEF IInv, LogInv
    <2>2. s \in State \ {hist[version]}
        BY <1>2, <2>1 DEF Commit
    <2>3. Store!Commit
        BY <1>0, <1>2, <2>2 DEF Commit, Store!Commit
    <2>. QED
        BY <2>3 DEF Store!Next
<1>. QED
    BY <1>1, <1>2

LEMMA StepMaps ==
    ASSUME IInv, IInv', [Next]_vars
    PROVE  [Store!Next]_(Store!vars)
<1>1. CASE PrimaryCommit \/ ReloadConfig
    BY <1>1, PrimaryStep, PrimaryMaps DEF PrimaryCommit, ReloadConfig, workerVars
<1>2. ASSUME NEW w \in Workers, PrimaryHandles(w)
      PROVE  [Store!Next]_(Store!vars)
    <2>1. UNCHANGED workerVars
        BY <1>2 DEF PrimaryHandles, HandleReady, HandleGetDeltaSince, HandleGetSnapshot,
            HandleCommitProjectPaths
    <2>. QED
        BY <2>1, PrimaryStep, PrimaryMaps DEF workerVars
<1>3. ASSUME NEW w \in Workers,
             WorkerReceives(w) \/ WorkerBoots(w) \/ BrowserAsks(w) \/ Crash(w) \/ Fork(w)
      PROVE  [Store!Next]_(Store!vars)
    <2>0. TypeOK
        BY DEF IInv
    <2>1. UNCHANGED <<version, hist>>
        BY <1>3 DEF WorkerReceives, ReceiveBootSnapshot, IgnoreMessage, ReceiveDelta,
            ReceiveSnapshot, ReceiveDeltaResponse, ReceiveNoDelta, ReceiveSnapshotResponse,
            ReceiveCommitResponse, ReceiveEmptyCommitResponse, WorkerBoots, CreateWatchdog,
            BeginStart, FinishStart, BrowserAsks, BeginFencedRequest, BeginMutation, Crash,
            Fork, primaryVars
    <2>2. \A u \in Workers : u # w =>
              phase'[u] = phase[u] /\ replica'[u] = replica[u] /\ based'[u] = based[u]
        <3>. USE <2>0 DEF TypeOK, workerVars
        <3>1. CASE WorkerReceives(w)
            BY <3>1 DEF WorkerReceives, ReceiveBootSnapshot, IgnoreMessage, ReceiveDelta,
                ReceiveSnapshot, ReceiveDeltaResponse, ReceiveNoDelta, ReceiveSnapshotResponse,
                ReceiveCommitResponse, ReceiveEmptyCommitResponse, InstallSnapshot, SyncDone
        <3>2. CASE WorkerBoots(w) \/ BrowserAsks(w)
            BY <3>2 DEF WorkerBoots, CreateWatchdog, BeginStart, FinishStart, BrowserAsks,
                BeginFencedRequest, BeginMutation
        <3>3. CASE Crash(w) \/ Fork(w)
            BY <3>3 DEF Crash, Fork
        <3>. QED
            BY <1>3, <3>1, <3>2, <3>3
    <2>3. \A u \in Workers : u # w => View'[u] = View[u]
        BY <2>2 DEF View
    <2>. QED
        BY <2>1, <2>3, WorkerMaps
<1>4. CASE UNCHANGED vars
    BY <1>4, PrimaryMaps DEF vars, workerVars
<1>. QED
    BY <1>1, <1>2, <1>3, <1>4 DEF Next

\* The clustered runtime with its deltas, snapshots, channels, pulls and exits
\* implements the abstract store: browsers are shown whole committed states
\* under their version, and a serving worker never goes back.
THEOREM ClusterImplementsStore == Spec => ImplementsVersionedStore
<1>1. Init => IInv
    BY InvInit
<1>2. IInv /\ [Next]_vars => IInv'
    BY InvStep
<1>3. Init => Store!Init
    <2>. SUFFICES ASSUME Init PROVE Store!Init
        OBVIOUS
    <2>1. version = 0 /\ hist \in [{0} -> State]
        BY DEF Init
    <2>2. View = [w \in Workers |-> Hidden]
        BY DEF Init, View
    <2>. QED
        BY <2>1, <2>2 DEF Store!Init
<1>4. IInv /\ IInv' /\ [Next]_vars => [Store!Next]_(Store!vars)
    BY StepMaps
<1>. QED
    BY <1>1, <1>2, <1>3, <1>4, PTL DEF Spec, ImplementsVersionedStore, Store!Spec
=============================================================================
