---------------------- MODULE ClusterReplicationProofs ----------------------
(***************************************************************************)
(* Theorems about ClusterReplication, for every set of workers, keys and   *)
(* values, every retention and every bound.                                *)
(*                                                                         *)
(* IInv strengthens the invariants into one that steps preserve:           *)
(*   LogInv      what the retained deltas are and where a replay leads,    *)
(*   ChannelInv  whatever is in transit speaks of committed states,        *)
(*   BootInv     before the watchdog exists nothing was asked for, and     *)
(*               after that the boot snapshot is a committed state,        *)
(*   ReplicaInv  no replica is ahead, and a based one is coherent.         *)
(* RetainInv says how many deltas the log holds, which IInv need not know. *)
(***************************************************************************)
EXTENDS ClusterReplication, FiniteSetTheorems, FunctionTheorems, TLAPS

-----------------------------------------------------------------------------
(* Change sets. *)

\* Applying a change set to a state gives a state.
LEMMA OverrideType ==
    ASSUME NEW s \in State, NEW c \in ChangeSet
    PROVE  Override(s, c) \in State
BY DEF Override, State, ChangeSet

\* What commitEntries publishes for a batch is a change set, and it leads from
\* the old state to the new one.
LEMMA ReplicatedChangesLead ==
    ASSUME NEW old \in State, NEW new \in State
    PROVE  /\ ReplicatedChanges(old, new) \in ChangeSet
           /\ Override(old, ReplicatedChanges(old, new)) = new
<1>1. ReplicatedChanges(old, new) \in ChangeSet
    BY DEF ReplicatedChanges, State, ChangeSet
<1>2. \A k \in Keys : new[k] # NoChange
    BY SentinelAssumption DEF State
<1>3. Override(old, ReplicatedChanges(old, new)) = [k \in Keys |-> new[k]]
    BY <1>2 DEF Override, ReplicatedChanges
<1>. QED
    BY <1>1, <1>3 DEF State

\* An empty delta changes nothing.
LEMMA OverrideEmpty ==
    /\ EmptyChanges \in ChangeSet
    /\ \A s \in State : Override(s, EmptyChanges) = s
BY DEF Override, EmptyChanges, ChangeSet, State

\* The newest delta of a set, when the set has one.
LEMMA NewestMember ==
    ASSUME NEW D, \E d \in D : \A e \in D : e.toVersion <= d.toVersion
    PROVE  /\ Newest(D) \in D
           /\ \A e \in D : e.toVersion <= Newest(D).toVersion
BY DEF Newest

\* Concatenated change lists are a change set.
LEMMA MergedChangesType ==
    ASSUME NEW D \in SUBSET Delta,
           \A k \in Keys : Touching(D, k) # {} =>
               \E d \in Touching(D, k) : \A e \in Touching(D, k) : e.toVersion <= d.toVersion
    PROVE  MergedChanges(D) \in ChangeSet
<1>1. ASSUME NEW k \in Keys, Touching(D, k) # {}
      PROVE  Newest(Touching(D, k)).changes[k] \in Values \cup {Absent, NoChange}
    <2>1. Newest(Touching(D, k)) \in Touching(D, k)
        BY <1>1, NewestMember
    <2>2. Newest(Touching(D, k)) \in Delta
        BY <2>1 DEF Touching
    <2>. QED
        BY <2>2 DEF Delta, ChangeSet
<1>. QED
    BY <1>1 DEF MergedChanges, ChangeSet

\* One more delta, newer than all the others: where it touches an entry it
\* decides, elsewhere the concatenation is as before.
LEMMA MergeWithNewer ==
    ASSUME NEW D \in SUBSET Delta, NEW new \in Delta,
           \A e \in D : e.toVersion < new.toVersion,
           NEW k \in Keys
    PROVE  MergedChanges(D \cup {new})[k] =
               IF new.changes[k] = NoChange THEN MergedChanges(D)[k] ELSE new.changes[k]
<1>. DEFINE T == Touching(D \cup {new}, k)
<1>1. CASE new.changes[k] = NoChange
    <2>1. T = Touching(D, k)
        BY <1>1 DEF Touching
    <2>. QED
        BY <1>1, <2>1 DEF MergedChanges
<1>2. CASE new.changes[k] # NoChange
    <2>1. new \in T
        BY <1>2 DEF Touching
    <2>2. \A e \in T : e.toVersion <= new.toVersion
        BY DEF Touching, Delta
    <2>3. Newest(T) \in T /\ new.toVersion <= Newest(T).toVersion
        BY <2>1, <2>2, NewestMember
    <2>4. Newest(T) = new
        BY <2>3 DEF Touching, Delta
    <2>. QED
        BY <1>2, <2>1, <2>4 DEF MergedChanges
<1>. QED
    BY <1>1, <1>2

\* Replaying the longer list is replaying the shorter one and then the new
\* delta.
LEMMA ReplayOneMore ==
    ASSUME NEW D \in SUBSET Delta, NEW new \in Delta, NEW s \in State,
           \A e \in D : e.toVersion < new.toVersion
    PROVE  Override(s, MergedChanges(D \cup {new})) =
               Override(Override(s, MergedChanges(D)), new.changes)
<1>1. ASSUME NEW k \in Keys
      PROVE  Override(s, MergedChanges(D \cup {new}))[k] =
                 Override(Override(s, MergedChanges(D)), new.changes)[k]
    BY <1>1, MergeWithNewer DEF Override
<1>. QED
    BY <1>1 DEF Override

\* With nothing to concatenate there is nothing to change.
LEMMA MergeNothing == MergedChanges({}) = EmptyChanges
BY DEF MergedChanges, EmptyChanges, Touching

-----------------------------------------------------------------------------
(* The delta log. *)

\* Trimming keeps the newest delta and, with every delta, all newer ones.
LEMMA TrimKeepsNewest ==
    ASSUME NEW log \in SUBSET Delta, IsFiniteSet(log),
           NEW new \in log, \A e \in log : e.toVersion <= new.toVersion
    PROVE  /\ TrimDeltaLog(log) \subseteq log
           /\ IsFiniteSet(TrimDeltaLog(log))
           /\ new \in TrimDeltaLog(log)
           /\ \A d \in TrimDeltaLog(log), e \in log :
                 d.toVersion <= e.toVersion => e \in TrimDeltaLog(log)
<1>. DEFINE Newer(d) == {e \in log : e.toVersion > d.toVersion}
<1>1. TrimDeltaLog(log) \subseteq log
    BY DEF TrimDeltaLog
<1>2. IsFiniteSet(TrimDeltaLog(log))
    BY <1>1, FS_Subset
<1>3. new \in TrimDeltaLog(log)
    <2>1. Newer(new) = {}
        BY DEF Delta
    <2>2. Cardinality(Newer(new)) = 0
        BY <2>1, FS_EmptySet
    <2>. QED
        BY <2>2, RetentionAssumption DEF TrimDeltaLog
<1>4. ASSUME NEW d \in TrimDeltaLog(log), NEW e \in log, d.toVersion <= e.toVersion
      PROVE  e \in TrimDeltaLog(log)
    <2>1. Newer(e) \subseteq Newer(d)
        BY <1>1, <1>4 DEF Delta
    <2>2. IsFiniteSet(Newer(d)) /\ IsFiniteSet(Newer(e))
        BY FS_Subset
    <2>3. Cardinality(Newer(e)) <= Cardinality(Newer(d))
        BY <2>1, <2>2, FS_Subset
    <2>4. Cardinality(Newer(e)) \in Nat /\ Cardinality(Newer(d)) \in Nat
        BY <2>2, FS_CardinalityType
    <2>5. Cardinality(Newer(d)) < DeltaRetention
        BY DEF TrimDeltaLog
    <2>. QED
        BY <2>3, <2>4, <2>5, RetentionAssumption DEF TrimDeltaLog
<1>. QED
    BY <1>1, <1>2, <1>3, <1>4

\* Deltas that end at consecutive versions are counted by them.
LEMMA ConsecutiveCount ==
    ASSUME NEW E, IsFiniteSet(E), NEW a \in Nat, NEW b \in Nat, a <= b,
           \A e \in E : e.toVersion \in a + 1 .. b,
           \A d, e \in E : d.toVersion = e.toVersion => d = e,
           \A n \in a + 1 .. b : \E e \in E : e.toVersion = n
    PROVE  Cardinality(E) = b - a
<1>. DEFINE end == [e \in E |-> e.toVersion]
            T == a + 1 .. b
<1>1. end \in Bijection(E, T)
    <2>1. end \in [E -> T] /\ \A d, e \in E : end[d] = end[e] => d = e
        OBVIOUS
    <2>2. \A n \in T : \E e \in E : end[e] = n
        OBVIOUS
    <2>. HIDE DEF end, T
    <2>. QED
        BY <2>1, <2>2, Fun_IsBij
<1>2. Cardinality(T) = Cardinality(E)
    <2>. HIDE DEF end, T
    <2>. QED
        BY <1>1, FS_Bijection DEF ExistsBijection
<1>3. Cardinality(T) = b - a
    <2>1. a + 1 \in Int /\ b \in Int
        OBVIOUS
    <2>2. Cardinality(a + 1 .. b) = IF a + 1 > b THEN 0 ELSE b - (a + 1) + 1
        BY ONLY <2>1, FS_Interval
    <2>. QED
        BY <2>2
<1>. QED
    BY <1>2, <1>3

-----------------------------------------------------------------------------
(* Replicas. *)

\* A delta leaves a replica a replica.
LEMMA ApplyDeltaType ==
    ASSUME NEW r \in Snapshot, NEW d \in Delta
    PROVE  ApplyDelta(r, d) \in Snapshot
<1>1. Override(r.state, d.changes) \in State
    BY OverrideType DEF Snapshot, Delta
<1>. QED
    BY <1>1 DEF ApplyDelta, Snapshot, Delta

-----------------------------------------------------------------------------
(* The inductive invariant. *)

InTransit(channel) == {channel[i] : i \in DOMAIN channel}

NewestExists(D) == \E d \in D : \A e \in D : e.toVersion <= d.toVersion

LogInv ==
    /\ IsFiniteSet(deltaLog)
    /\ hist[version] = entries
    /\ \A d \in deltaLog :
          /\ d.toVersion <= version
          /\ d.toVersion = d.fromVersion + 1
          /\ \A v \in d.toVersion .. version : \E e \in deltaLog : e.toVersion = v
    /\ \A v \in 0 .. version, k \in Keys :
          LET T == Touching(DeltasAfter(deltaLog, v), k)
          IN  T # {} => NewestExists(T)
    /\ \A d \in deltaLog :
          LET D == DeltasAfter(deltaLog, d.fromVersion)
          IN  Override(hist[d.fromVersion], MergedChanges(D)) = hist[version]

SoundMessage(m) ==
    /\ m.kind \in {"STATE_DELTA", "delta", "commit"} => SoundDelta(m.delta)
    /\ m.kind \in {"STATE_SNAPSHOT", "snapshot"} => SoundSnapshot(m.snapshot)

ChannelInv(w) ==
    /\ \A m \in InTransit(toWorker[w]) : SoundMessage(m)
    /\ \A m \in InTransit(toPrimary[w]) :
          m.kind = "getDeltaSince" => m.fromVersion <= version

BootInv(w) ==
    /\ ~ HasWatchdog(w) =>
          /\ ~ based[w] /\ replica[w] = EmptyReplica
          /\ \A m \in InTransit(toWorker[w]) : m.kind \in {"STATE_SNAPSHOT", "STATE_DELTA"}
          /\ \A m \in InTransit(toPrimary[w]) : m.kind = "WORKER_READY"
    /\ phase[w] \notin {"down", "forked"} => SoundSnapshot(bootSnapshot[w])

ReplicaInv(w) ==
    /\ replica[w].version <= version
    /\ based[w] => SoundSnapshot(replica[w])

WorkerInv(w) == ChannelInv(w) /\ BootInv(w) /\ ReplicaInv(w)

IInv == TypeOK /\ LogInv /\ \A w \in Workers : WorkerInv(w)

-----------------------------------------------------------------------------
(* Channels. *)

\* Appending a message puts one more message in transit.
LEMMA AppendInTransit ==
    ASSUME NEW S, NEW c \in Seq(S), NEW m \in S
    PROVE  /\ Append(c, m) \in Seq(S)
           /\ InTransit(Append(c, m)) = InTransit(c) \cup {m}
<1>1. Append(c, m) \in Seq(S) /\ Len(Append(c, m)) = Len(c) + 1
    OBVIOUS
<1>2. /\ DOMAIN c = 1 .. Len(c)
      /\ DOMAIN Append(c, m) = 1 .. Len(c) + 1
      /\ Len(c) \in Nat
    BY <1>1
<1>3. \A i \in 1 .. Len(c) : Append(c, m)[i] = c[i]
    BY <1>2
<1>4. Append(c, m)[Len(c) + 1] = m
    BY <1>2
<1>5. ASSUME NEW x
      PROVE  x \in InTransit(Append(c, m)) <=> x \in InTransit(c) \cup {m}
    BY <1>2, <1>3, <1>4 DEF InTransit
<1>. QED
    BY <1>1, <1>5

\* Receiving takes the first message and leaves the others.
LEMMA HeadInTransit ==
    ASSUME NEW S, NEW c \in Seq(S), c # <<>>
    PROVE  /\ Tail(c) \in Seq(S)
           /\ Head(c) \in S
           /\ Head(c) \in InTransit(c)
           /\ InTransit(Tail(c)) \subseteq InTransit(c)
<1>1. /\ DOMAIN c = 1 .. Len(c)
      /\ Len(c) \in Nat \ {0}
      /\ Head(c) = c[1]
    OBVIOUS
<1>2. /\ Tail(c) \in Seq(S)
      /\ DOMAIN Tail(c) = 1 .. Len(c) - 1
      /\ \A i \in 1 .. Len(c) - 1 : Tail(c)[i] = c[i + 1]
    BY <1>1
<1>3. \A i \in 1 .. Len(c) - 1 : i + 1 \in 1 .. Len(c)
    BY <1>1
<1>4. Head(c) \in S /\ Head(c) \in InTransit(c)
    BY <1>1 DEF InTransit
<1>5. InTransit(Tail(c)) \subseteq InTransit(c)
    BY <1>1, <1>2, <1>3 DEF InTransit
<1>. QED
    BY <1>2, <1>4, <1>5

\* An empty channel.
LEMMA NothingInTransit == InTransit(<<>>) = {}
BY DEF InTransit

\* What a message of each kind carries.
LEMMA WorkerMessageFields ==
    ASSUME NEW m \in WorkerMessage
    PROVE  /\ m.kind \in {"STATE_DELTA", "delta", "commit"} => m.delta \in Delta
           /\ m.kind \in {"STATE_SNAPSHOT", "snapshot"} => m.snapshot \in Snapshot
           /\ m.kind \in {"delta", "noDelta", "snapshot"} => m.tag \in Tags
           /\ m.kind \in {"commit", "emptyCommit"} => m.version \in Nat
BY DEF WorkerMessage

LEMMA PrimaryMessageFields ==
    ASSUME NEW m \in PrimaryMessage
    PROVE  /\ m.kind \in {"getDeltaSince", "getSnapshot"} => m.tag \in Tags
           /\ m.kind = "getDeltaSince" => m.fromVersion \in Nat
BY DEF PrimaryMessage

-----------------------------------------------------------------------------
(* The log. *)

\* Two deltas with the same end, or a shorter log, change nothing for the
\* entries a new delta leaves alone.
LEMMA NewestAfterTrim ==
    ASSUME NEW log \in SUBSET Delta, NEW kept \in SUBSET log, NEW v \in Nat, NEW k \in Keys,
           \A d \in kept, e \in log : d.toVersion <= e.toVersion => e \in kept,
           Touching(DeltasAfter(kept, v), k) # {},
           NewestExists(Touching(DeltasAfter(log, v), k))
    PROVE  NewestExists(Touching(DeltasAfter(kept, v), k))
<1>1. PICK d \in Touching(DeltasAfter(log, v), k) :
          \A e \in Touching(DeltasAfter(log, v), k) : e.toVersion <= d.toVersion
    BY DEF NewestExists
<1>2. PICK e \in Touching(DeltasAfter(kept, v), k) : TRUE
    OBVIOUS
<1>3. e \in Touching(DeltasAfter(log, v), k) /\ e \in kept
    BY <1>2 DEF Touching, DeltasAfter
<1>4. d \in kept
    BY <1>1, <1>3 DEF Touching, DeltasAfter
<1>. QED
    BY <1>1, <1>4 DEF Touching, DeltasAfter, NewestExists

\* A commit keeps the log invariant: the new delta extends every replay, and
\* what trimming drops is older than everything it keeps.
LEMMA CommitKeepsLog ==
    ASSUME TypeOK, LogInv, NEW s \in State, Commit(s)
    PROVE  LogInv'
<1>. DEFINE new == CommitDelta(s)
            all == deltaLog \cup {new}
<1>0. /\ version \in Nat /\ entries \in State /\ deltaLog \in SUBSET Delta
      /\ hist \in [0 .. version -> State]
    BY DEF TypeOK
<1>1. /\ new \in Delta
      /\ new.fromVersion = version /\ new.toVersion = version + 1
      /\ new.changes \in ChangeSet
      /\ Override(entries, new.changes) = s
    BY <1>0, ReplicatedChangesLead DEF CommitDelta, Delta
<1>2. /\ deltaLog' = TrimDeltaLog(all) /\ version' = version + 1 /\ entries' = s
      /\ hist'[version + 1] = s
      /\ \A v \in 0 .. version : hist'[v] = hist[v]
    BY <1>0 DEF Commit
<1>V. version' = version + 1
    BY <1>2
<1>3. all \in SUBSET Delta /\ IsFiniteSet(all)
    BY <1>0, <1>1, FS_AddElement DEF LogInv
<1>4. \A e \in deltaLog : e.toVersion < new.toVersion /\ e.toVersion <= version
    BY <1>0, <1>1 DEF LogInv, Delta
<1>5. /\ deltaLog' \subseteq all
      /\ IsFiniteSet(deltaLog')
      /\ new \in deltaLog'
      /\ \A d \in deltaLog', e \in all : d.toVersion <= e.toVersion => e \in deltaLog'
    <2>1. \A e \in all : e.toVersion <= new.toVersion
        BY <1>1, <1>4, <1>0 DEF Delta
    <2>2. new \in all
        OBVIOUS
    <2>. HIDE DEF new, all
    <2>. QED
        BY <1>2, <1>3, <2>1, <2>2, TrimKeepsNewest
<1>. HIDE DEF new
<1>6. ASSUME NEW d \in deltaLog'
      PROVE  /\ d.toVersion <= version'
             /\ d.toVersion = d.fromVersion + 1
             /\ \A v \in d.toVersion .. version' : \E e \in deltaLog' : e.toVersion = v
    <2>1. CASE d = new
        BY <2>1, <1>1, <1>2, <1>5, <1>0
    <2>2. CASE d \in deltaLog
        <3>1. d.toVersion <= version /\ d.toVersion = d.fromVersion + 1 /\ d \in Delta
            BY <2>2, <1>0 DEF LogInv, Delta
        <3>2. ASSUME NEW v \in d.toVersion .. version + 1
              PROVE  \E e \in deltaLog' : e.toVersion = v
            <4>1. CASE v = version + 1
                BY <4>1, <1>1, <1>5
            <4>2. CASE v # version + 1
                <5>1. v \in d.toVersion .. version
                    BY <4>2, <3>1, <1>0 DEF Delta
                <5>2. PICK e \in deltaLog : e.toVersion = v
                    BY <5>1, <2>2 DEF LogInv
                <5>3. d.toVersion <= e.toVersion
                    BY <5>1, <5>2
                <5>. QED
                    BY <5>2, <5>3, <1>5
            <4>. QED
                BY <4>1, <4>2
        <3>3. \A v \in d.toVersion .. version + 1 : \E e \in deltaLog' : e.toVersion = v
            BY <3>2
        <3>4. \A v \in d.toVersion .. version' : \E e \in deltaLog' : e.toVersion = v
            BY <3>3, <1>V
        <3>5. d.toVersion <= version'
            BY <3>1, <1>V, <1>0 DEF Delta
        <3>. QED
            BY <3>1, <3>4, <3>5
    <2>. QED
        BY <2>1, <2>2, <1>5
<1>7. ASSUME NEW v \in 0 .. version', NEW k \in Keys,
             Touching(DeltasAfter(deltaLog', v), k) # {}
      PROVE  NewestExists(Touching(DeltasAfter(deltaLog', v), k))
    <2>0. v \in Nat /\ v <= version + 1
        BY <1>2, <1>0
    <2>1. NewestExists(Touching(DeltasAfter(all, v), k))
        <3>1. CASE new \in Touching(DeltasAfter(all, v), k)
            <4>1. \A e \in all : e.toVersion <= new.toVersion
                BY <1>1, <1>4, <1>0 DEF Delta
            <4>. QED
                BY <3>1, <4>1 DEF Touching, DeltasAfter, NewestExists
        <3>2. CASE new \notin Touching(DeltasAfter(all, v), k)
            <4>1. Touching(DeltasAfter(all, v), k) = Touching(DeltasAfter(deltaLog, v), k)
                BY <3>2 DEF Touching, DeltasAfter
            <4>2. Touching(DeltasAfter(deltaLog, v), k) # {}
                BY <4>1, <1>5, <1>7 DEF Touching, DeltasAfter
            <4>3. v \in 0 .. version
                BY <4>2, <1>4, <2>0, <1>0 DEF Touching, DeltasAfter, Delta
            <4>. QED
                BY <4>1, <4>2, <4>3 DEF LogInv
        <3>. QED
            BY <3>1, <3>2
    <2>. HIDE DEF all
    <2>. QED
        BY <1>3, <1>5, <1>7, <2>0, <2>1, NewestAfterTrim
<1>8. ASSUME NEW d \in deltaLog'
      PROVE  Override(hist'[d.fromVersion], MergedChanges(DeltasAfter(deltaLog', d.fromVersion)))
                 = hist'[version']
    <2>. DEFINE before == DeltasAfter(deltaLog, d.fromVersion)
    <2>0. d \in Delta /\ d.toVersion = d.fromVersion + 1 /\ d.fromVersion <= version
        <3>1. d \in Delta /\ d.toVersion <= version + 1 /\ d.toVersion = d.fromVersion + 1
            BY <1>3, <1>5, <1>6, <1>V
        <3>. QED
            BY <3>1, <1>0 DEF Delta
    <2>1. DeltasAfter(deltaLog', d.fromVersion) = before \cup {new}
        <3>1. \A e \in all : e.toVersion > d.fromVersion => e \in deltaLog'
            <4>1. \A e \in all : e.toVersion \in Nat
                BY <1>3 DEF Delta
            <4>2. \A e \in all : e.toVersion > d.fromVersion => d.toVersion <= e.toVersion
                BY <2>0, <4>1 DEF Delta
            <4>. QED
                BY <4>2, <1>5
        <3>2. new.toVersion > d.fromVersion
            BY <2>0, <1>0, <1>1 DEF Delta
        <3>. QED
            BY <3>1, <3>2, <1>5 DEF DeltasAfter
    <2>2. before \in SUBSET Delta /\ \A e \in before : e.toVersion < new.toVersion
        BY <1>0, <1>4 DEF DeltasAfter
    <2>3. d.fromVersion \in 0 .. version
        BY <2>0, <1>0 DEF Delta
    <2>4. Override(hist[d.fromVersion], MergedChanges(before)) = entries
        <3>1. CASE d = new
            <4>1. before = {}
                BY <3>1, <1>1, <1>4, <1>0 DEF DeltasAfter, Delta
            <4>. QED
                BY <4>1, <3>1, <1>1, <1>0, MergeNothing, OverrideEmpty DEF LogInv
        <3>2. CASE d \in deltaLog
            BY <3>2 DEF LogInv
        <3>. QED
            BY <3>1, <3>2, <1>5
    <2>5. hist[d.fromVersion] \in State
        BY <2>3, <1>0
    <2>. HIDE DEF before
    <2>6. Override(hist[d.fromVersion], MergedChanges(before \cup {new}))
              = Override(entries, new.changes)
        BY <2>2, <2>4, <2>5, <1>1, ReplayOneMore
    <2>. QED
        BY <2>1, <2>3, <2>6, <1>1, <1>2
<1>9. hist'[version'] = entries'
    BY <1>2
<1>. QED
    BY <1>5, <1>6, <1>7, <1>8, <1>9 DEF LogInv

\* What getDeltaSince returns is a delta ...
LEMMA ReplayType ==
    ASSUME TypeOK, LogInv, NEW v \in Nat, CanReplay(deltaLog, version, v)
    PROVE  /\ DeltaSince(deltaLog, version, v) \in Delta
           /\ v < version => DeltaSince(deltaLog, version, v).toVersion = version
<1>. DEFINE D == DeltasAfter(deltaLog, v)
<1>0. version \in Nat /\ D \in SUBSET Delta
    BY DEF TypeOK, DeltasAfter
<1>1. CASE v >= version
    BY <1>0, <1>1, OverrideEmpty DEF DeltaSince, Delta
<1>2. CASE v < version
    <2>1. MergedChanges(D) \in ChangeSet
        <3>1. \A k \in Keys : Touching(D, k) # {} => NewestExists(Touching(D, k))
            BY <1>0, <1>2 DEF LogInv
        <3>. HIDE DEF D
        <3>. QED
            BY <1>0, <3>1, MergedChangesType DEF NewestExists
    <2>2. PICK d \in D : d.fromVersion = v
        BY <1>0, <1>2 DEF CanReplay
    <2>3. d.toVersion <= version /\ d \in deltaLog
        BY <2>2 DEF LogInv, DeltasAfter
    <2>4. PICK e \in deltaLog : e.toVersion = version
        BY <1>0, <2>2, <2>3 DEF LogInv, Delta
    <2>5. e \in D
        BY <1>2, <2>4 DEF DeltasAfter
    <2>6. \A f \in D : f.toVersion <= version
        BY DEF LogInv, DeltasAfter
    <2>7. Newest(D) \in D /\ version <= Newest(D).toVersion
        <3>. HIDE DEF D
        <3>. QED
            BY <2>4, <2>5, <2>6, NewestMember
    <2>8. Newest(D).toVersion = version
        BY <1>0, <2>6, <2>7 DEF Delta
    <2>9. DeltaSince(deltaLog, version, v) =
              [changes |-> MergedChanges(D), fromVersion |-> v, toVersion |-> version]
        BY <1>0, <1>2, <2>8 DEF DeltaSince
    <2>. QED
        BY <1>0, <2>1, <2>9 DEF Delta
<1>. QED
    BY <1>0, <1>1, <1>2

\* ... that leads from the state of the version asked for to the current one.
LEMMA ReplaySound ==
    ASSUME TypeOK, LogInv, NEW v \in 0 .. version, CanReplay(deltaLog, version, v)
    PROVE  SoundDelta(DeltaSince(deltaLog, version, v))
<1>. DEFINE D == DeltasAfter(deltaLog, v)
            d == DeltaSince(deltaLog, version, v)
<1>0. version \in Nat /\ hist \in [0 .. version -> State] /\ v \in Nat /\ v <= version
    BY DEF TypeOK
<1>1. CASE v = version
    <2>1. d.changes = EmptyChanges /\ d.fromVersion = v /\ d.toVersion = v
        BY <1>0, <1>1 DEF DeltaSince
    <2>2. Override(hist[v], EmptyChanges) = hist[v]
        BY <1>0, OverrideEmpty
    <2>. QED
        BY <1>0, <2>1, <2>2 DEF SoundDelta
<1>2. CASE v < version
    <2>1. d.changes = MergedChanges(D) /\ d.fromVersion = v
        BY <1>0, <1>2 DEF DeltaSince
    <2>2. d.toVersion = version
        BY <1>0, <1>2, ReplayType
    <2>3. PICK e \in D : e.fromVersion = v
        BY <1>0, <1>2 DEF CanReplay
    <2>4. e \in deltaLog
        BY <2>3 DEF DeltasAfter
    <2>5. Override(hist[v], MergedChanges(D)) = hist[version]
        BY <2>3, <2>4 DEF LogInv
    <2>. QED
        BY <1>0, <1>2, <2>1, <2>2, <2>5 DEF SoundDelta
<1>. QED
    BY <1>0, <1>1, <1>2

-----------------------------------------------------------------------------
(* History only grows, so what was sound stays sound. *)

Grows ==
    /\ version' \in Nat
    /\ version <= version'
    /\ \A v \in 0 .. version : hist'[v] = hist[v]

PrimaryTypeOK ==
    /\ entries \in State
    /\ version \in Nat
    /\ deltaLog \in SUBSET Delta
    /\ hist \in [0 .. version -> State]

\* What a commit publishes.
LEMMA CommitDeltaType ==
    ASSUME TypeOK, NEW s \in State
    PROVE  CommitDelta(s) \in Delta
BY ReplicatedChangesLead DEF TypeOK, CommitDelta, Delta

\* A commit extends the history by one state, and its delta is sound.
LEMMA CommitGrows ==
    ASSUME TypeOK, LogInv, NEW s \in State, Commit(s)
    PROVE  /\ PrimaryTypeOK' /\ Grows
           /\ \A d : d = CommitDelta(s) => SoundDelta(d)'
           /\ version' = version + 1
<1>0. /\ version \in Nat /\ entries \in State /\ deltaLog \in SUBSET Delta
      /\ hist \in [0 .. version -> State]
    BY DEF TypeOK
<1>1. CommitDelta(s) \in Delta
    BY CommitDeltaType
<1>2. deltaLog' \in SUBSET Delta
    BY <1>0, <1>1 DEF Commit, TrimDeltaLog
<1>3. version' = version + 1 /\ entries' = s
    BY DEF Commit
<1>4. hist' = [v \in 0 .. version + 1 |-> IF v = version + 1 THEN s ELSE hist[v]]
    BY DEF Commit
<1>5. hist' \in [0 .. version + 1 -> State]
    BY <1>0, <1>4
<1>6. Grows
    BY <1>0, <1>3, <1>4 DEF Grows
<1>7. PrimaryTypeOK'
    BY <1>0, <1>2, <1>3, <1>5 DEF PrimaryTypeOK
<1>8. ASSUME NEW d, d = CommitDelta(s)
      PROVE  SoundDelta(d)'
    <2>1. Override(entries, ReplicatedChanges(entries, s)) = s
        BY <1>0, ReplicatedChangesLead
    <2>2. hist'[version + 1] = s /\ hist'[version] = entries
        BY <1>0, <1>4 DEF LogInv
    <2>. QED
        BY <1>0, <1>3, <1>8, <2>1, <2>2 DEF SoundDelta, CommitDelta
<1>. QED
    BY <1>3, <1>6, <1>7, <1>8

\* Nothing that was sound of the primary's history becomes unsound.
LEMMA SoundStays ==
    ASSUME TypeOK, Grows
    PROVE  /\ \A d \in Delta : SoundDelta(d) => SoundDelta(d)'
           /\ \A s \in Snapshot : SoundSnapshot(s) => SoundSnapshot(s)'
           /\ \A m \in WorkerMessage : SoundMessage(m) => SoundMessage(m)'
<1>0. version \in Nat /\ version' \in Nat /\ version <= version'
    BY DEF TypeOK, Grows
<1>1. \A d \in Delta : SoundDelta(d) => SoundDelta(d)'
    <2>. SUFFICES ASSUME NEW d \in Delta, SoundDelta(d)
                  PROVE  SoundDelta(d)'
        OBVIOUS
    <2>1. d.fromVersion \in 0 .. version /\ d.toVersion \in 0 .. version
        BY <1>0 DEF SoundDelta, Delta
    <2>. QED
        BY <1>0, <2>1 DEF SoundDelta, Grows
<1>2. \A s \in Snapshot : SoundSnapshot(s) => SoundSnapshot(s)'
    <2>. SUFFICES ASSUME NEW s \in Snapshot, SoundSnapshot(s)
                  PROVE  SoundSnapshot(s)'
        OBVIOUS
    <2>1. s.version \in 0 .. version
        BY <1>0 DEF SoundSnapshot, Snapshot
    <2>. QED
        BY <1>0, <2>1 DEF SoundSnapshot, Grows
<1>3. \A m \in WorkerMessage : SoundMessage(m) => SoundMessage(m)'
    BY <1>1, <1>2, WorkerMessageFields DEF SoundMessage
<1>. QED
    BY <1>1, <1>2, <1>3

\* Applying a sound delta to a sound replica gives a sound replica; the version
\* of a replica never exceeds the primary's.
LEMMA ApplyDeltaSound ==
    ASSUME TypeOK, NEW r \in Snapshot, NEW d \in Delta,
           SoundDelta(d), r.version <= version
    PROVE  /\ ApplyDelta(r, d).version <= version
           /\ SoundSnapshot(r) => SoundSnapshot(ApplyDelta(r, d))
<1>0. version \in Nat /\ d.fromVersion \in Nat /\ d.toVersion \in Nat /\ r.version \in Nat
    BY DEF TypeOK, Delta, Snapshot
<1>1. CASE Stale(r, d) \/ Gap(r, d)
    BY <1>1 DEF ApplyDelta
<1>2. CASE ~ (Stale(r, d) \/ Gap(r, d))
    BY <1>0, <1>2 DEF ApplyDelta, Stale, Gap, SoundDelta, SoundSnapshot
<1>. QED
    BY <1>1, <1>2

-----------------------------------------------------------------------------
(* Type correctness.  The answer of getDeltaSince is a delta because of what *)
(* LogInv says of the log, so the two are carried together.                  *)

\* The messages of the protocol are messages.
LEMMA MessageTypes ==
    /\ \A s \in Snapshot : SnapshotMsg(s) \in WorkerMessage
    /\ \A d \in Delta : DeltaMsg(d) \in WorkerMessage
    /\ \A t \in Tags, d \in Delta : DeltaResponse(t, d) \in WorkerMessage
    /\ \A t \in Tags : NoDeltaResponse(t) \in WorkerMessage
    /\ \A t \in Tags, s \in Snapshot : SnapshotResponse(t, s) \in WorkerMessage
    /\ \A d \in Delta, v \in Nat : CommitResponse(d, v) \in WorkerMessage
    /\ \A v \in Nat : EmptyCommitResponse(v) \in WorkerMessage
    /\ ReadyMsg \in PrimaryMessage /\ CommitProjectPaths \in PrimaryMessage
    /\ \A t \in Tags, v \in Nat : GetDeltaSince(t, v) \in PrimaryMessage
    /\ \A t \in Tags : GetSnapshot(t) \in PrimaryMessage
BY DEF SnapshotMsg, DeltaMsg, DeltaResponse, NoDeltaResponse, SnapshotResponse,
       CommitResponse, EmptyCommitResponse, ReadyMsg, CommitProjectPaths,
       GetDeltaSince, GetSnapshot, WorkerMessage, PrimaryMessage

\* A message sent is typed, and so are the channels after it.
LEMMA ChannelTypes ==
    ASSUME TypeOK
    PROVE  /\ \A m \in WorkerMessage : Broadcast(m) \in [Workers -> Seq(WorkerMessage)]
           /\ \A w \in Workers, m \in WorkerMessage :
                 [toWorker EXCEPT ![w] = Append(@, m)] \in [Workers -> Seq(WorkerMessage)]
           /\ \A w \in Workers, m \in PrimaryMessage :
                 Send(w, m) \in [Workers -> Seq(PrimaryMessage)]
           /\ \A w \in Workers : toWorker[w] # <<>> =>
                 /\ Consumed(w) \in [Workers -> Seq(WorkerMessage)]
                 /\ Head(toWorker[w]) \in WorkerMessage
           /\ \A w \in Workers : toPrimary[w] # <<>> =>
                 /\ [toPrimary EXCEPT ![w] = Tail(@)] \in [Workers -> Seq(PrimaryMessage)]
                 /\ Head(toPrimary[w]) \in PrimaryMessage
<1>1. /\ toWorker \in [Workers -> Seq(WorkerMessage)]
      /\ toPrimary \in [Workers -> Seq(PrimaryMessage)]
    BY DEF TypeOK
<1>2. \A w \in Workers, m \in WorkerMessage : Append(toWorker[w], m) \in Seq(WorkerMessage)
    BY <1>1, AppendInTransit
<1>3. \A w \in Workers, m \in PrimaryMessage : Append(toPrimary[w], m) \in Seq(PrimaryMessage)
    BY <1>1, AppendInTransit
<1>4. \A w \in Workers : toWorker[w] # <<>> =>
          Tail(toWorker[w]) \in Seq(WorkerMessage) /\ Head(toWorker[w]) \in WorkerMessage
    BY <1>1, HeadInTransit
<1>5. \A w \in Workers : toPrimary[w] # <<>> =>
          Tail(toPrimary[w]) \in Seq(PrimaryMessage) /\ Head(toPrimary[w]) \in PrimaryMessage
    BY <1>1, HeadInTransit
<1>. QED
    BY <1>1, <1>2, <1>3, <1>4, <1>5 DEF Broadcast, Send, Consumed

\* The types are an invariant of every step.
LEMMA TypeStep ==
    ASSUME TypeOK, LogInv, [Next]_vars
    PROVE  TypeOK'
<1>0. CurrentSnapshot \in Snapshot
    BY DEF TypeOK, CurrentSnapshot, Snapshot
<1>1. CASE PrimaryCommit
    <2>1. PICK s \in State : Commit(s) /\ toWorker' = Broadcast(DeltaMsg(CommitDelta(s)))
        BY <1>1 DEF PrimaryCommit
    <2>2. PrimaryTypeOK'
        BY <2>1, CommitGrows
    <2>3. toWorker' \in [Workers -> Seq(WorkerMessage)]
        BY <2>1, CommitDeltaType, MessageTypes, ChannelTypes
    <2>. QED
        BY <1>1, <2>2, <2>3 DEF PrimaryCommit, TypeOK, PrimaryTypeOK, workerVars, boundVars
<1>2. CASE ReloadConfig
    <2>1. PrimaryTypeOK'
        <3>1. CASE UNCHANGED primaryVars
            BY <3>1 DEF primaryVars, TypeOK, PrimaryTypeOK
        <3>2. CASE \E s \in State : Commit(s)
            BY <3>2, CommitGrows
        <3>. QED
            BY <1>2, <3>1, <3>2 DEF ReloadConfig
    <2>2. [state |-> entries', version |-> version'] \in Snapshot
        BY <2>1 DEF PrimaryTypeOK, Snapshot
    <2>3. toWorker' \in [Workers -> Seq(WorkerMessage)]
        BY <1>2, <2>2, MessageTypes, ChannelTypes DEF ReloadConfig
    <2>. QED
        BY <1>2, <2>1, <2>3 DEF ReloadConfig, TypeOK, PrimaryTypeOK, workerVars
<1>3. ASSUME NEW w \in Workers, PrimaryHandles(w)
      PROVE  TypeOK'
    <2>0. /\ toPrimary' \in [Workers -> Seq(PrimaryMessage)]
          /\ toPrimary[w] # <<>>
          /\ Head(toPrimary[w]) \in PrimaryMessage
        BY <1>3, ChannelTypes DEF PrimaryHandles, HandleReady, HandleGetDeltaSince,
            HandleGetSnapshot, HandleCommitProjectPaths, Asks
    <2>1. CASE HandleReady(w)
        <3>1. toWorker' \in [Workers -> Seq(WorkerMessage)]
            BY <1>0, <2>1, MessageTypes, ChannelTypes DEF HandleReady
        <3>. QED
            BY <2>0, <2>1, <3>1 DEF HandleReady, TypeOK, primaryVars, workerVars, boundVars
    <2>2. CASE HandleGetDeltaSince(w)
        <3>. DEFINE ask == Head(toPrimary[w])
        <3>1. ask.kind = "getDeltaSince"
            BY <2>2 DEF HandleGetDeltaSince, Asks
        <3>2. ask.fromVersion \in Nat /\ ask.tag \in Tags
            BY <2>0, <3>1, PrimaryMessageFields
        <3>3. CanReplay(deltaLog, version, ask.fromVersion) =>
                  DeltaSince(deltaLog, version, ask.fromVersion) \in Delta
            BY <3>2, ReplayType
        <3>4. PICK m \in WorkerMessage : toWorker' = [toWorker EXCEPT ![w] = Append(@, m)]
            BY <2>2, <3>2, <3>3, MessageTypes DEF HandleGetDeltaSince
        <3>5. toWorker' \in [Workers -> Seq(WorkerMessage)]
            BY <3>4, ChannelTypes
        <3>. QED
            BY <2>0, <2>2, <3>5 DEF HandleGetDeltaSince, TypeOK, primaryVars, workerVars, boundVars
    <2>3. CASE HandleGetSnapshot(w)
        <3>1. Head(toPrimary[w]).tag \in Tags
            BY <2>0, <2>3, PrimaryMessageFields DEF HandleGetSnapshot, Asks
        <3>2. toWorker' \in [Workers -> Seq(WorkerMessage)]
            BY <1>0, <2>3, <3>1, MessageTypes, ChannelTypes DEF HandleGetSnapshot
        <3>. QED
            BY <2>0, <2>3, <3>2 DEF HandleGetSnapshot, TypeOK, primaryVars, workerVars, boundVars
    <2>4. CASE HandleCommitProjectPaths(w)
        <3>0. version \in Nat /\ version + 1 \in Nat
            BY DEF TypeOK
        <3>1. CASE /\ UNCHANGED primaryVars
                   /\ toWorker' = [toWorker EXCEPT ![w] = Append(@, EmptyCommitResponse(version))]
            <4>1. toWorker' \in [Workers -> Seq(WorkerMessage)]
                BY <3>0, <3>1, MessageTypes, ChannelTypes
            <4>. QED
                BY <2>0, <2>4, <3>1, <4>1
                   DEF HandleCommitProjectPaths, TypeOK, primaryVars, workerVars, boundVars
        <3>2. ASSUME NEW s \in State, Commit(s),
                     toWorker' = [Broadcast(DeltaMsg(CommitDelta(s))) EXCEPT
                         ![w] = Append(@, CommitResponse(CommitDelta(s), version + 1))]
              PROVE  TypeOK'
            <4>1. DeltaMsg(CommitDelta(s)) \in WorkerMessage
                BY CommitDeltaType, MessageTypes
            <4>2. CommitResponse(CommitDelta(s), version + 1) \in WorkerMessage
                BY <3>0, CommitDeltaType, MessageTypes
            <4>3. Broadcast(DeltaMsg(CommitDelta(s))) \in [Workers -> Seq(WorkerMessage)]
                BY <4>1, ChannelTypes
            <4>4. Append(Broadcast(DeltaMsg(CommitDelta(s)))[w],
                         CommitResponse(CommitDelta(s), version + 1)) \in Seq(WorkerMessage)
                BY <4>2, <4>3, AppendInTransit
            <4>5. toWorker' \in [Workers -> Seq(WorkerMessage)]
                BY <3>2, <4>3, <4>4
            <4>6. PrimaryTypeOK'
                BY <3>2, CommitGrows
            <4>. QED
                BY <2>0, <2>4, <4>5, <4>6
                   DEF HandleCommitProjectPaths, TypeOK, PrimaryTypeOK, workerVars, boundVars
        <3>. QED
            BY <2>4, <3>1, <3>2 DEF HandleCommitProjectPaths
    <2>. QED
        BY <1>3, <2>1, <2>2, <2>3, <2>4 DEF PrimaryHandles
<1>4. ASSUME NEW w \in Workers, WorkerReceives(w)
      PROVE  TypeOK'
    <2>0. /\ toWorker[w] # <<>>
          /\ toWorker' = Consumed(w)
          /\ UNCHANGED primaryVars /\ UNCHANGED boundVars
        BY <1>4 DEF WorkerReceives, ReceiveBootSnapshot, IgnoreMessage, ReceiveDelta,
            ReceiveSnapshot, ReceiveDeltaResponse, ReceiveNoDelta, ReceiveSnapshotResponse,
            ReceiveCommitResponse, ReceiveEmptyCommitResponse, Receives
    <2>. DEFINE msg == Head(toWorker[w])
    <2>1. msg \in WorkerMessage /\ toWorker' \in [Workers -> Seq(WorkerMessage)]
        BY <2>0, ChannelTypes
    <2>2. PrimaryTypeOK' /\ crashes' \in Nat /\ reloads' \in Nat
        BY <2>0 DEF TypeOK, PrimaryTypeOK, primaryVars, boundVars
    <2>3. replica[w] \in Snapshot /\ replica[w].version \in Nat
        BY DEF TypeOK, Snapshot
    <2>4. \A d \in Delta : ApplyDelta(replica[w], d) \in Snapshot
        BY <2>3, ApplyDeltaType
    <2>5. \A t \in Tags : /\ Send(w, GetDeltaSince(t, replica[w].version))
                                 \in [Workers -> Seq(PrimaryMessage)]
                          /\ Send(w, GetSnapshot(t)) \in [Workers -> Seq(PrimaryMessage)]
        BY <2>3, MessageTypes, ChannelTypes
    <2>6. \A s \in Snapshot : ApplySnapshot(s) \in Snapshot
        BY DEF ApplySnapshot, Snapshot
    <2>a. CASE ReceiveBootSnapshot(w)
        <3>1. msg.snapshot \in Snapshot
            BY <2>1, <2>a, WorkerMessageFields DEF ReceiveBootSnapshot, Receives
        <3>. QED
            BY <2>1, <2>2, <2>a, <3>1 DEF ReceiveBootSnapshot, TypeOK, PrimaryTypeOK, Phases
    <2>b. CASE IgnoreMessage(w)
        BY <2>1, <2>2, <2>b DEF IgnoreMessage, TypeOK, PrimaryTypeOK, workerVars
    <2>c. CASE ReceiveDelta(w)
        <3>1. msg.delta \in Delta
            BY <2>1, <2>c, WorkerMessageFields DEF ReceiveDelta, Receives
        <3>2. replica' \in [Workers -> Snapshot]
            BY <2>4, <2>c, <3>1 DEF ReceiveDelta, TypeOK
        <3>3. toPrimary' \in [Workers -> Seq(PrimaryMessage)]
            BY <2>5, <2>c DEF ReceiveDelta, TypeOK, Tags
        <3>. QED
            BY <2>1, <2>2, <2>c, <3>2, <3>3 DEF ReceiveDelta, TypeOK, PrimaryTypeOK
    <2>d. CASE ReceiveSnapshot(w)
        <3>1. msg.snapshot \in Snapshot
            BY <2>1, <2>d, WorkerMessageFields DEF ReceiveSnapshot, Receives
        <3>2. replica' \in [Workers -> Snapshot] /\ based' \in [Workers -> BOOLEAN]
            BY <2>6, <2>d, <3>1 DEF ReceiveSnapshot, InstallSnapshot, TypeOK
        <3>. QED
            BY <2>1, <2>2, <2>d, <3>2 DEF ReceiveSnapshot, TypeOK, PrimaryTypeOK
    <2>7. ASSUME NEW t \in Tags, SyncDone(w, t)
          PROVE  /\ phase' \in [Workers -> Phases]
                 /\ request' \in [Workers -> Request]
                 /\ acked' \in [Workers -> Nat]
        <3>1. phase' \in [Workers -> Phases]
            BY <2>7 DEF SyncDone, TypeOK, Phases
        <3>2. Idle \in Request /\ request[w].floor \in Nat
            BY DEF TypeOK, Request, Idle
        <3>3. request' \in [Workers -> Request] /\ acked' \in [Workers -> Nat]
            BY <2>7, <3>2 DEF SyncDone, Answer, TypeOK
        <3>. QED
            BY <3>1, <3>3
    <2>e. CASE ReceiveDeltaResponse(w)
        <3>1. msg.delta \in Delta /\ msg.tag \in Tags
            BY <2>1, <2>e, WorkerMessageFields DEF ReceiveDeltaResponse, Receives
        <3>2. replica' \in [Workers -> Snapshot]
            BY <2>4, <2>e, <3>1 DEF ReceiveDeltaResponse, TypeOK
        <3>3. SyncDone(w, msg.tag)
            BY <2>e DEF ReceiveDeltaResponse
        <3>. QED
            BY <2>1, <2>2, <2>7, <2>e, <3>1, <3>2, <3>3
               DEF ReceiveDeltaResponse, TypeOK, PrimaryTypeOK
    <2>f. CASE ReceiveNoDelta(w)
        <3>1. msg.tag \in Tags
            BY <2>1, <2>f, WorkerMessageFields DEF ReceiveNoDelta, Receives
        <3>2. toPrimary' \in [Workers -> Seq(PrimaryMessage)]
            BY <2>5, <2>f, <3>1 DEF ReceiveNoDelta
        <3>. QED
            BY <2>1, <2>2, <2>f, <3>2 DEF ReceiveNoDelta, TypeOK, PrimaryTypeOK, workerVars
    <2>g. CASE ReceiveSnapshotResponse(w)
        <3>1. msg.snapshot \in Snapshot /\ msg.tag \in Tags
            BY <2>1, <2>g, WorkerMessageFields DEF ReceiveSnapshotResponse, Receives
        <3>2. replica' \in [Workers -> Snapshot] /\ based' \in [Workers -> BOOLEAN]
            BY <2>6, <2>g, <3>1 DEF ReceiveSnapshotResponse, InstallSnapshot, TypeOK
        <3>3. SyncDone(w, msg.tag)
            BY <2>g DEF ReceiveSnapshotResponse
        <3>. QED
            BY <2>1, <2>2, <2>7, <2>g, <3>1, <3>2, <3>3
               DEF ReceiveSnapshotResponse, TypeOK, PrimaryTypeOK
    <2>h. CASE ReceiveCommitResponse(w)
        <3>1. msg.delta \in Delta /\ msg.version \in Nat
            BY <2>1, <2>h, WorkerMessageFields DEF ReceiveCommitResponse, Receives
        <3>2. replica' \in [Workers -> Snapshot]
            BY <2>4, <2>h, <3>1 DEF ReceiveCommitResponse, TypeOK
        <3>3. toPrimary' \in [Workers -> Seq(PrimaryMessage)]
            BY <2>5, <2>h DEF ReceiveCommitResponse, TypeOK, Tags
        <3>4. request' \in [Workers -> Request] /\ acked' \in [Workers -> Nat]
            <4>1. Idle \in Request
                BY DEF Request, Idle
            <4>2. [request EXCEPT ![w].floor = msg.version] \in [Workers -> Request]
                BY <3>1 DEF TypeOK, Request
            <4>. QED
                BY <2>h, <3>1, <4>1, <4>2 DEF ReceiveCommitResponse, Answer, TypeOK
        <3>. QED
            BY <2>1, <2>2, <2>h, <3>2, <3>3, <3>4
               DEF ReceiveCommitResponse, TypeOK, PrimaryTypeOK
    <2>i. CASE ReceiveEmptyCommitResponse(w)
        <3>1. msg.version \in Nat
            BY <2>1, <2>i, WorkerMessageFields DEF ReceiveEmptyCommitResponse, Receives
        <3>2. request' \in [Workers -> Request] /\ acked' \in [Workers -> Nat]
            BY <2>i, <3>1 DEF ReceiveEmptyCommitResponse, Answer, TypeOK, Request, Idle
        <3>. QED
            BY <2>1, <2>2, <2>i, <3>2 DEF ReceiveEmptyCommitResponse, TypeOK, PrimaryTypeOK
    <2>. QED
        BY <1>4, <2>a, <2>b, <2>c, <2>d, <2>e, <2>f, <2>g, <2>h, <2>i DEF WorkerReceives
<1>5. ASSUME NEW w \in Workers, WorkerBoots(w)
      PROVE  TypeOK'
    <2>1. CASE CreateWatchdog(w)
        <3>1. bootSnapshot[w].version \in Nat /\ EmptyState \in State
            BY DEF TypeOK, Snapshot, State, EmptyState
        <3>2. toPrimary' \in [Workers -> Seq(PrimaryMessage)]
            BY <2>1, <3>1, MessageTypes, ChannelTypes DEF CreateWatchdog, Tags
        <3>3. replica' \in [Workers -> Snapshot]
            BY <2>1, <3>1 DEF CreateWatchdog, TypeOK, Snapshot
        <3>. QED
            BY <2>1, <3>2, <3>3 DEF CreateWatchdog, TypeOK, Phases, primaryVars, boundVars
    <2>2. CASE BeginStart(w)
        BY <2>2 DEF BeginStart, TypeOK, Phases, primaryVars, channelVars, boundVars
    <2>3. CASE FinishStart(w)
        <3>1. ApplySnapshot(bootSnapshot[w]) \in Snapshot
            BY DEF TypeOK, Snapshot, ApplySnapshot
        <3>. QED
            BY <2>3, <3>1 DEF FinishStart, TypeOK, Phases, primaryVars, channelVars, boundVars
    <2>. QED
        BY <1>5, <2>1, <2>2, <2>3 DEF WorkerBoots
<1>6. ASSUME NEW w \in Workers, BrowserAsks(w)
      PROVE  TypeOK'
    <2>0. version \in Nat /\ replica[w].version \in Nat
        BY DEF TypeOK, Snapshot
    <2>1. ASSUME NEW floor \in 1 .. version, BeginFencedRequest(w, floor)
          PROVE  TypeOK'
        <3>1. toPrimary' \in [Workers -> Seq(PrimaryMessage)]
            BY <2>0, <2>1, MessageTypes, ChannelTypes DEF BeginFencedRequest, Tags
        <3>2. [kind |-> "fenced", floor |-> floor] \in Request
            BY <2>0 DEF Request
        <3>3. request' \in [Workers -> Request]
            BY <2>1, <3>2 DEF BeginFencedRequest, TypeOK
        <3>. QED
            BY <2>1, <3>1, <3>3 DEF BeginFencedRequest, TypeOK, primaryVars, boundVars
    <2>2. CASE BeginMutation(w)
        <3>1. toPrimary' \in [Workers -> Seq(PrimaryMessage)]
            BY <2>2, MessageTypes, ChannelTypes DEF BeginMutation
        <3>2. request' \in [Workers -> Request]
            BY <2>2 DEF BeginMutation, TypeOK, Request
        <3>. QED
            BY <2>2, <3>1, <3>2 DEF BeginMutation, TypeOK, primaryVars, boundVars
    <2>. QED
        BY <1>6, <2>1, <2>2 DEF BrowserAsks
<1>7. ASSUME NEW w \in Workers, Crash(w) \/ Fork(w)
      PROVE  TypeOK'
    <2>1. /\ EmptyReplica \in Snapshot /\ Idle \in Request /\ ReadyMsg \in PrimaryMessage
          /\ <<>> \in Seq(WorkerMessage) /\ <<>> \in Seq(PrimaryMessage)
          /\ <<ReadyMsg>> \in Seq(PrimaryMessage)
        BY MessageTypes DEF EmptyReplica, EmptyState, Snapshot, State, Idle, Request
    <2>2. CASE Crash(w)
        BY <2>1, <2>2 DEF Crash, TypeOK, Phases, primaryVars
    <2>3. CASE Fork(w)
        BY <2>1, <2>3 DEF Fork, TypeOK, Phases, primaryVars, boundVars
    <2>. QED
        BY <1>7, <2>2, <2>3
<1>8. CASE UNCHANGED vars
    BY <1>8 DEF TypeOK, vars, primaryVars, channelVars, workerVars, boundVars
<1>. QED
    BY <1>1, <1>2, <1>3, <1>4, <1>5, <1>6, <1>7, <1>8 DEF Next

\* A step commits one new state or leaves the primary's state alone.
LEMMA PrimaryStep ==
    ASSUME [Next]_vars
    PROVE  UNCHANGED primaryVars \/ \E s \in State : Commit(s)
<1>1. CASE PrimaryCommit \/ ReloadConfig
    BY <1>1 DEF PrimaryCommit, ReloadConfig
<1>2. ASSUME NEW w \in Workers, PrimaryHandles(w)
      PROVE  UNCHANGED primaryVars \/ \E s \in State : Commit(s)
    BY <1>2 DEF PrimaryHandles, HandleReady, HandleGetDeltaSince, HandleGetSnapshot,
        HandleCommitProjectPaths
<1>3. ASSUME NEW w \in Workers,
             WorkerReceives(w) \/ WorkerBoots(w) \/ BrowserAsks(w) \/ Crash(w) \/ Fork(w)
      PROVE  UNCHANGED primaryVars
    BY <1>3 DEF WorkerReceives, ReceiveBootSnapshot, IgnoreMessage, ReceiveDelta,
        ReceiveSnapshot, ReceiveDeltaResponse, ReceiveNoDelta, ReceiveSnapshotResponse,
        ReceiveCommitResponse, ReceiveEmptyCommitResponse, WorkerBoots, CreateWatchdog,
        BeginStart, FinishStart, BrowserAsks, BeginFencedRequest, BeginMutation, Crash, Fork
<1>4. CASE UNCHANGED vars
    BY <1>4 DEF vars
<1>. QED
    BY <1>1, <1>2, <1>3, <1>4 DEF Next

\* The log invariant holds initially and every step preserves it.
LEMMA LogInit == ASSUME Init PROVE LogInv
<1>1. DeltasAfter(deltaLog, 0) = {} /\ deltaLog = {}
    BY DEF Init, DeltasAfter
<1>2. IsFiniteSet(deltaLog)
    BY <1>1, FS_EmptySet
<1>3. hist[version] = entries
    BY DEF Init
<1>4. \A v, k : Touching(DeltasAfter(deltaLog, v), k) = {}
    BY <1>1 DEF DeltasAfter, Touching
<1>. QED
    BY <1>1, <1>2, <1>3, <1>4 DEF LogInv

LEMMA LogStep ==
    ASSUME TypeOK, LogInv, [Next]_vars
    PROVE  LogInv' /\ Grows
<1>1. CASE UNCHANGED primaryVars
    BY <1>1 DEF LogInv, primaryVars, Grows, TypeOK
<1>2. CASE \E s \in State : Commit(s)
    BY <1>2, CommitKeepsLog, CommitGrows
<1>. QED
    BY <1>1, <1>2, PrimaryStep

LEMMA TypeInit == ASSUME Init PROVE TypeOK
<1>1. /\ EmptyReplica \in Snapshot /\ Idle \in Request
      /\ <<>> \in Seq(WorkerMessage) /\ <<ReadyMsg>> \in Seq(PrimaryMessage)
    BY MessageTypes DEF EmptyReplica, EmptyState, Snapshot, State, Idle, Request
<1>2. hist \in [0 .. version -> State]
    <2>1. version = 0 /\ hist = [v \in {0} |-> entries] /\ entries \in State
        BY DEF Init
    <2>2. 0 .. version = {0}
        BY <2>1
    <2>. QED
        BY <2>1, <2>2
<1>. QED
    BY <1>1, <1>2 DEF Init, TypeOK, Phases

\* Every state of the clustered runtime is of the type the code gives it:
\* replicas and snapshots are states with a version, and whatever crosses the
\* IPC channels is a message of the protocol (cluster.js, state_system.js).
THEOREM TypeCorrect == Spec => []TypeOK
<1>1. Init => TypeOK /\ LogInv
    BY TypeInit, LogInit
<1>2. TypeOK /\ LogInv /\ [Next]_vars => TypeOK' /\ LogInv'
    BY TypeStep, LogStep
<1>. QED
    BY <1>1, <1>2, PTL DEF Spec

\* For every retention and any number of commits: whatever range of versions
\* getDeltaSince agrees to replay, the replay leads from the state of the
\* first version to the current one (state_system.js getDeltaSince,
\* commitEntries, trimDeltaLog).
THEOREM ReplayCorrect == Spec => []ReplayMatchesHistory
<1>1. Init => TypeOK /\ LogInv
    BY TypeInit, LogInit
<1>2. TypeOK /\ LogInv /\ [Next]_vars => TypeOK' /\ LogInv'
    BY TypeStep, LogStep
<1>3. TypeOK /\ LogInv => ReplayMatchesHistory
    BY ReplaySound DEF ReplayMatchesHistory
<1>. QED
    BY <1>1, <1>2, <1>3, PTL DEF Spec

-----------------------------------------------------------------------------
(* What the log retains. *)

\* The log holds one delta for each of the last DeltaRetention versions.
RetainInv ==
    /\ \A d, e \in deltaLog : d.toVersion = e.toVersion => d = e
    /\ \A n \in Nat :
          (\E d \in deltaLog : d.toVersion = n)
              <=> 1 <= n /\ n <= version /\ version - n < DeltaRetention

LEMMA CommitKeepsRetained ==
    ASSUME TypeOK, LogInv, RetainInv, NEW s \in State, Commit(s)
    PROVE  RetainInv'
<1>. DEFINE new == CommitDelta(s)
            all == deltaLog \cup {new}
            Newer(d) == {e \in all : e.toVersion > d.toVersion}
<1>0. /\ version \in Nat /\ deltaLog \in SUBSET Delta /\ DeltaRetention \in Nat \ {0}
      /\ IsFiniteSet(deltaLog)
    BY RetentionAssumption DEF TypeOK, LogInv
<1>1. new \in Delta /\ new.toVersion = version + 1
    BY CommitDeltaType DEF CommitDelta
<1>2. deltaLog' = TrimDeltaLog(all) /\ version' = version + 1
    BY DEF Commit
<1>. HIDE DEF new
<1>3. all \in SUBSET Delta /\ IsFiniteSet(all) /\ \A e \in all : e.toVersion \in Nat
    BY <1>0, <1>1, FS_AddElement DEF Delta
<1>4. \A e \in deltaLog : 1 <= e.toVersion /\ e.toVersion <= version
                          /\ version - e.toVersion < DeltaRetention
    BY <1>3 DEF RetainInv
<1>5. \A d, e \in all : d.toVersion = e.toVersion => d = e
    BY <1>0, <1>1, <1>3, <1>4 DEF RetainInv
<1>6. \A n \in Nat : (\E d \in all : d.toVersion = n) <=>
          n = version + 1 \/ (1 <= n /\ n <= version /\ version - n < DeltaRetention)
    BY <1>1 DEF RetainInv
<1>7. ASSUME NEW d \in all
      PROVE  Cardinality(Newer(d)) = version + 1 - d.toVersion
    <2>1. d.toVersion \in Nat /\ d.toVersion <= version + 1
        BY <1>0, <1>1, <1>3, <1>4
    <2>2. IsFiniteSet(Newer(d))
        BY <1>3, FS_Subset
    <2>3. \A e \in Newer(d) : e.toVersion \in d.toVersion + 1 .. version + 1
        BY <1>0, <1>1, <1>3, <1>4, <2>1
    <2>4. \A n \in d.toVersion + 1 .. version + 1 : \E e \in Newer(d) : e.toVersion = n
        <3>. SUFFICES ASSUME NEW n \in d.toVersion + 1 .. version + 1
                      PROVE  \E e \in all : e.toVersion = n
            BY <2>1
        <3>1. CASE n = version + 1
            BY <1>1, <3>1
        <3>2. CASE n # version + 1
            <4>1. d \in deltaLog
                BY <1>0, <1>1, <2>1, <3>2
            <4>2. 1 <= n /\ n <= version /\ version - n < DeltaRetention /\ n \in Nat
                BY <1>0, <1>4, <2>1, <3>2, <4>1
            <4>. QED
                BY <1>6, <4>2
        <3>. QED
            BY <3>1, <3>2
    <2>5. \A e, f \in Newer(d) : e.toVersion = f.toVersion => e = f
        BY <1>5
    <2>. HIDE DEF Newer
    <2>. QED
        BY <1>0, <2>1, <2>2, <2>3, <2>4, <2>5, ConsecutiveCount
<1>8. \A d : d \in deltaLog' <=> d \in all /\ version + 1 - d.toVersion < DeltaRetention
    BY <1>2, <1>7 DEF TrimDeltaLog
<1>9. \A d, e \in deltaLog' : d.toVersion = e.toVersion => d = e
    BY <1>5, <1>8
<1>10. ASSUME NEW n \in Nat
       PROVE  (\E d \in deltaLog' : d.toVersion = n)
                  <=> 1 <= n /\ n <= version' /\ version' - n < DeltaRetention
    <2>1. (\E d \in deltaLog' : d.toVersion = n) <=>
              (\E d \in all : d.toVersion = n) /\ version + 1 - n < DeltaRetention
        BY <1>8
    <2>2. (\E d \in deltaLog' : d.toVersion = n)
              <=> 1 <= n /\ n <= version + 1 /\ version + 1 - n < DeltaRetention
        BY <1>0, <1>6, <2>1
    <2>3. version' = version + 1 /\ version \in Nat
        BY <1>0, <1>2
    <2>. QED
        BY <2>2, <2>3
<1>. QED
    BY <1>9, <1>10 DEF RetainInv

LEMMA RetainInit == ASSUME Init PROVE RetainInv
BY DEF Init, RetainInv

LEMMA RetainStep ==
    ASSUME TypeOK, LogInv, RetainInv, [Next]_vars
    PROVE  RetainInv'
<1>1. CASE UNCHANGED primaryVars
    BY <1>1 DEF primaryVars, RetainInv
<1>2. CASE \E s \in State : Commit(s)
    BY <1>2, CommitKeepsRetained
<1>. QED
    BY <1>1, <1>2, PrimaryStep

LEMMA RetainedReplay ==
    ASSUME TypeOK, LogInv, RetainInv, NEW v \in 0 .. version
    PROVE  CanReplay(deltaLog, version, v) <=> version - v <= DeltaRetention
<1>0. /\ version \in Nat /\ v \in Nat /\ v <= version /\ DeltaRetention \in Nat \ {0}
      /\ \A d \in deltaLog : d.toVersion \in Nat /\ d.fromVersion \in Nat
                             /\ d.toVersion = d.fromVersion + 1
    BY RetentionAssumption DEF TypeOK, LogInv, Delta
<1>1. CASE v = version
    BY <1>0, <1>1 DEF CanReplay
<1>2. CASE v < version
    <2>1. CanReplay(deltaLog, version, v) <=> \E d \in deltaLog : d.toVersion = v + 1
        BY <1>0, <1>2 DEF CanReplay, DeltasAfter
    <2>2. v + 1 \in Nat /\ 1 <= v + 1 /\ v + 1 <= version
        BY <1>0, <1>2
    <2>3. (\E d \in deltaLog : d.toVersion = v + 1) <=> version - (v + 1) < DeltaRetention
        BY <2>2 DEF RetainInv
    <2>. QED
        BY <1>0, <2>1, <2>3
<1>. QED
    BY <1>0, <1>1, <1>2

\* Which worker getDeltaSince answers with deltas and which it sends to a
\* snapshot depends on nothing but how many versions the worker is behind: the
\* log holds exactly one delta for each of the last DeltaRetention versions,
\* however commits and trims follow each other (state_system.js trimDeltaLog,
\* commitEntries, getDeltaSince).
THEOREM RetentionDecides == Spec => []RetentionDecidesReplay
<1>1. Init => TypeOK /\ LogInv /\ RetainInv
    BY TypeInit, LogInit, RetainInit
<1>2. TypeOK /\ LogInv /\ RetainInv /\ [Next]_vars => TypeOK' /\ LogInv' /\ RetainInv'
    BY TypeStep, LogStep, RetainStep
<1>3. TypeOK /\ LogInv /\ RetainInv => RetentionDecidesReplay
    BY RetainedReplay DEF RetentionDecidesReplay
<1>. QED
    BY <1>1, <1>2, <1>3, PTL DEF Spec

-----------------------------------------------------------------------------
(* Coherence of the replicas. *)

\* A worker that does nothing keeps its invariant when the primary commits and
\* sends sound messages, responses only to a worker that asked.
LEMMA WorkerWaits ==
    ASSUME TypeOK, Grows, NEW u \in Workers, WorkerInv(u),
           phase'[u] = phase[u], bootSnapshot'[u] = bootSnapshot[u],
           replica'[u] = replica[u], based'[u] = based[u],
           InTransit(toPrimary'[u]) \subseteq InTransit(toPrimary[u]),
           \A m \in InTransit(toWorker'[u]) :
               \/ m \in InTransit(toWorker[u])
               \/ /\ SoundMessage(m)'
                  /\ HasWatchdog(u) \/ m.kind \in {"STATE_SNAPSHOT", "STATE_DELTA"}
    PROVE  WorkerInv(u)'
<1>0. /\ toWorker[u] \in Seq(WorkerMessage) /\ toPrimary[u] \in Seq(PrimaryMessage)
      /\ bootSnapshot[u] \in Snapshot /\ replica[u] \in Snapshot
      /\ version \in Nat /\ version' \in Nat /\ version <= version'
    BY DEF TypeOK, Grows
<1>1. /\ \A m \in InTransit(toWorker[u]) : m \in WorkerMessage
      /\ \A m \in InTransit(toPrimary[u]) : m \in PrimaryMessage
    BY <1>0 DEF InTransit
<1>2. ChannelInv(u)'
    <2>1. \A m \in InTransit(toWorker'[u]) : SoundMessage(m)'
        BY <1>1, SoundStays DEF WorkerInv, ChannelInv
    <2>2. \A m \in InTransit(toPrimary'[u]) : m.kind = "getDeltaSince" => m.fromVersion <= version'
        BY <1>0, <1>1, PrimaryMessageFields DEF WorkerInv, ChannelInv
    <2>. QED
        BY <2>1, <2>2 DEF ChannelInv
<1>3. BootInv(u)'
    <2>1. SoundSnapshot(bootSnapshot[u]) => SoundSnapshot(bootSnapshot[u])'
        <3>1. \A s \in Snapshot : s = bootSnapshot[u] /\ SoundSnapshot(s) => SoundSnapshot(s)'
            BY SoundStays
        <3>. QED
            BY <1>0, <3>1 DEF SoundSnapshot
    <2>. QED
        BY <2>1 DEF WorkerInv, BootInv, HasWatchdog
<1>4. ReplicaInv(u)'
    <2>1. SoundSnapshot(replica[u]) => SoundSnapshot(replica[u])'
        <3>1. \A s \in Snapshot : s = replica[u] /\ SoundSnapshot(s) => SoundSnapshot(s)'
            BY SoundStays
        <3>. QED
            BY <1>0, <3>1 DEF SoundSnapshot
    <2>2. replica[u].version \in Nat
        BY <1>0 DEF Snapshot
    <2>. QED
        BY <1>0, <2>1, <2>2 DEF WorkerInv, ReplicaInv
<1>. QED
    BY <1>2, <1>3, <1>4 DEF WorkerInv

\* A broadcast adds one message to the channels of the live workers.
LEMMA BroadcastInTransit ==
    ASSUME TypeOK, NEW m \in WorkerMessage, NEW u \in Workers
    PROVE  \A x \in InTransit(Broadcast(m)[u]) : x \in InTransit(toWorker[u]) \/ x = m
<1>1. toWorker[u] \in Seq(WorkerMessage)
    BY DEF TypeOK
<1>2. Broadcast(m)[u] = toWorker[u] \/ Broadcast(m)[u] = Append(toWorker[u], m)
    BY DEF Broadcast
<1>3. InTransit(Append(toWorker[u], m)) = InTransit(toWorker[u]) \cup {m}
    BY <1>1, AppendInTransit
<1>. QED
    BY <1>2, <1>3

\* The state the primary is in is the snapshot it sends.
LEMMA CurrentSnapshotSound ==
    ASSUME TypeOK, LogInv
    PROVE  SoundSnapshot([state |-> entries, version |-> version])
BY DEF TypeOK, LogInv, SoundSnapshot

\* The primary's own commits and reloads.
LEMMA PrimaryKeepsWorkers ==
    ASSUME TypeOK, LogInv, LogInv', TypeOK', Grows, PrimaryCommit \/ ReloadConfig,
           NEW u \in Workers, WorkerInv(u)
    PROVE  WorkerInv(u)'
<1>1. UNCHANGED <<toPrimary, workerVars>>
    BY DEF PrimaryCommit, ReloadConfig
<1>2. ASSUME NEW m \in WorkerMessage, SoundMessage(m)', toWorker' = Broadcast(m),
             m.kind \in {"STATE_SNAPSHOT", "STATE_DELTA"}
      PROVE  WorkerInv(u)'
    BY <1>1, <1>2, BroadcastInTransit, WorkerWaits DEF workerVars
<1>3. CASE PrimaryCommit
    <2>1. PICK s \in State : Commit(s) /\ toWorker' = Broadcast(DeltaMsg(CommitDelta(s)))
        BY <1>3 DEF PrimaryCommit
    <2>2. PICK d \in Delta : d = CommitDelta(s)
        BY CommitDeltaType
    <2>3. DeltaMsg(d) \in WorkerMessage
        BY MessageTypes
    <2>4. SoundDelta(d)'
        BY <2>1, <2>2, CommitGrows
    <2>5. SoundMessage(DeltaMsg(d))' /\ DeltaMsg(d).kind = "STATE_DELTA"
        BY <2>4 DEF SoundMessage, DeltaMsg
    <2>. QED
        BY <1>2, <2>1, <2>2, <2>3, <2>5
<1>4. CASE ReloadConfig
    <2>1. PICK c \in Snapshot : c = [state |-> entries', version |-> version']
        BY DEF TypeOK, Snapshot
    <2>2. SoundSnapshot(c)'
        BY <2>1 DEF TypeOK, LogInv, SoundSnapshot
    <2>3. SnapshotMsg(c) \in WorkerMessage
        BY MessageTypes
    <2>4. SoundMessage(SnapshotMsg(c))' /\ SnapshotMsg(c).kind = "STATE_SNAPSHOT"
        BY <2>2 DEF SoundMessage, SnapshotMsg
    <2>. QED
        BY <1>2, <1>4, <2>1, <2>3, <2>4 DEF ReloadConfig
<1>. QED
    BY <1>3, <1>4

\* The primary's answers.
LEMMA AnswersKeepWorkers ==
    ASSUME TypeOK, LogInv, Grows, NEW w \in Workers, PrimaryHandles(w), WorkerInv(w),
           NEW u \in Workers, WorkerInv(u)
    PROVE  WorkerInv(u)'
<1>. DEFINE ask == Head(toPrimary[w])
<1>0. /\ toPrimary[w] # <<>> /\ toPrimary' = [toPrimary EXCEPT ![w] = Tail(@)]
      /\ UNCHANGED workerVars
    BY DEF PrimaryHandles, HandleReady, HandleGetDeltaSince, HandleGetSnapshot,
        HandleCommitProjectPaths, Asks
<1>1. /\ toPrimary[w] \in Seq(PrimaryMessage) /\ toWorker[w] \in Seq(WorkerMessage)
      /\ toPrimary \in [Workers -> Seq(PrimaryMessage)]
      /\ toWorker \in [Workers -> Seq(WorkerMessage)]
      /\ version \in Nat
    BY DEF TypeOK
<1>2. /\ ask \in PrimaryMessage /\ ask \in InTransit(toPrimary[w])
      /\ InTransit(toPrimary'[w]) \subseteq InTransit(toPrimary[w])
    BY <1>0, <1>1, HeadInTransit
<1>3. InTransit(toPrimary'[u]) \subseteq InTransit(toPrimary[u])
    BY <1>0, <1>1, <1>2
<1>4. ask.kind # "WORKER_READY" => HasWatchdog(w)
    BY <1>2 DEF WorkerInv, BootInv
<1>5. ASSUME \A m \in InTransit(toWorker'[u]) :
                \/ m \in InTransit(toWorker[u])
                \/ /\ SoundMessage(m)'
                   /\ HasWatchdog(u) \/ m.kind \in {"STATE_SNAPSHOT", "STATE_DELTA"}
      PROVE  WorkerInv(u)'
    BY <1>0, <1>3, <1>5, WorkerWaits DEF workerVars
<1>6. ASSUME NEW m \in WorkerMessage, toWorker' = [toWorker EXCEPT ![w] = Append(@, m)],
             SoundMessage(m)',
             HasWatchdog(w) \/ m.kind \in {"STATE_SNAPSHOT", "STATE_DELTA"}
      PROVE  WorkerInv(u)'
    <2>1. InTransit(toWorker'[w]) = InTransit(toWorker[w]) \cup {m}
        BY <1>1, <1>6, AppendInTransit
    <2>. QED
        BY <1>1, <1>5, <1>6, <2>1
<1>7. CASE HandleReady(w) \/ HandleGetSnapshot(w)
    <2>1. PICK c \in Snapshot : c = CurrentSnapshot
        BY DEF TypeOK, CurrentSnapshot, Snapshot
    <2>2. SoundSnapshot(c)'
        BY <1>7, <2>1, CurrentSnapshotSound, SoundStays DEF CurrentSnapshot
    <2>3. CASE HandleReady(w)
        <3>1. SoundMessage(SnapshotMsg(c))' /\ SnapshotMsg(c).kind = "STATE_SNAPSHOT"
            BY <2>2 DEF SoundMessage, SnapshotMsg
        <3>. QED
            BY <1>6, <2>1, <2>3, <3>1, MessageTypes DEF HandleReady
    <2>4. CASE HandleGetSnapshot(w)
        <3>1. ask.tag \in Tags /\ HasWatchdog(w)
            BY <1>2, <1>4, <2>4, PrimaryMessageFields DEF HandleGetSnapshot, Asks
        <3>2. PICK m \in WorkerMessage : m = SnapshotResponse(ask.tag, c)
            BY <3>1, MessageTypes
        <3>3. SoundMessage(m)'
            BY <2>2, <3>2 DEF SoundMessage, SnapshotResponse
        <3>4. toWorker' = [toWorker EXCEPT ![w] = Append(@, m)]
            BY <2>1, <2>4, <3>2 DEF HandleGetSnapshot
        <3>. QED
            BY <1>6, <3>1, <3>3, <3>4
    <2>. QED
        BY <1>7, <2>3, <2>4
<1>8. CASE HandleGetDeltaSince(w)
    <2>1. /\ ask.tag \in Tags /\ HasWatchdog(w)
          /\ ask.fromVersion \in 0 .. version
        BY <1>1, <1>2, <1>4, <1>8, PrimaryMessageFields
           DEF HandleGetDeltaSince, Asks, WorkerInv, ChannelInv
    <2>2. CASE CanReplay(deltaLog, version, ask.fromVersion)
        <3>1. PICK d \in Delta : d = DeltaSince(deltaLog, version, ask.fromVersion)
            BY <2>1, <2>2, ReplayType
        <3>2. SoundDelta(d)'
            BY <2>1, <2>2, <3>1, ReplaySound, SoundStays
        <3>3. PICK m \in WorkerMessage : m = DeltaResponse(ask.tag, d)
            BY <2>1, MessageTypes
        <3>4. SoundMessage(m)'
            BY <3>2, <3>3 DEF SoundMessage, DeltaResponse
        <3>5. toWorker' = [toWorker EXCEPT ![w] = Append(@, m)]
            BY <1>8, <2>2, <3>1, <3>3 DEF HandleGetDeltaSince
        <3>. QED
            BY <1>6, <2>1, <3>4, <3>5
    <2>3. CASE ~ CanReplay(deltaLog, version, ask.fromVersion)
        <3>1. PICK m \in WorkerMessage : m = NoDeltaResponse(ask.tag)
            BY <2>1, MessageTypes
        <3>2. SoundMessage(m)'
            BY <3>1 DEF SoundMessage, NoDeltaResponse
        <3>3. toWorker' = [toWorker EXCEPT ![w] = Append(@, m)]
            BY <1>8, <2>3, <3>1 DEF HandleGetDeltaSince
        <3>. QED
            BY <1>6, <2>1, <3>2, <3>3
    <2>. QED
        BY <2>2, <2>3
<1>9. CASE HandleCommitProjectPaths(w)
    <2>1. HasWatchdog(w)
        BY <1>4, <1>9 DEF HandleCommitProjectPaths, Asks
    <2>2. CASE toWorker' = [toWorker EXCEPT ![w] = Append(@, EmptyCommitResponse(version))]
        <3>1. PICK m \in WorkerMessage : m = EmptyCommitResponse(version)
            BY <1>1, MessageTypes
        <3>2. SoundMessage(m)'
            BY <3>1 DEF SoundMessage, EmptyCommitResponse
        <3>. QED
            BY <1>6, <2>1, <2>2, <3>1, <3>2
    <2>3. ASSUME NEW s \in State, Commit(s),
                 toWorker' = [Broadcast(DeltaMsg(CommitDelta(s))) EXCEPT
                     ![w] = Append(@, CommitResponse(CommitDelta(s), version + 1))]
          PROVE  WorkerInv(u)'
        <3>1. PICK d \in Delta : d = CommitDelta(s)
            BY CommitDeltaType
        <3>2. SoundDelta(d)'
            BY <2>3, <3>1, CommitGrows
        <3>3. PICK a \in WorkerMessage : a = DeltaMsg(d)
            BY MessageTypes
        <3>4. PICK b \in WorkerMessage : b = CommitResponse(d, version + 1)
            BY <1>1, MessageTypes
        <3>5. /\ SoundMessage(a)' /\ a.kind = "STATE_DELTA"
              /\ SoundMessage(b)'
            BY <3>2, <3>3, <3>4 DEF SoundMessage, DeltaMsg, CommitResponse
        <3>6. Broadcast(a) \in [Workers -> Seq(WorkerMessage)]
            BY ChannelTypes
        <3>7. toWorker' = [Broadcast(a) EXCEPT ![w] = Append(@, b)]
            BY <2>3, <3>1, <3>3, <3>4
        <3>8. InTransit(Append(Broadcast(a)[w], b)) = InTransit(Broadcast(a)[w]) \cup {b}
            BY <3>6, AppendInTransit
        <3>9. \A m \in InTransit(toWorker'[u]) :
                  m \in InTransit(Broadcast(a)[u]) \/ (u = w /\ m = b)
            BY <3>6, <3>7, <3>8
        <3>. QED
            BY <1>5, <2>1, <3>5, <3>9, BroadcastInTransit
    <2>. QED
        BY <1>9, <2>2, <2>3 DEF HandleCommitProjectPaths
<1>. QED
    BY <1>7, <1>8, <1>9 DEF PrimaryHandles

\* A step of one worker does not touch the others.
LEMMA OtherWorkersKeep ==
    ASSUME TypeOK, Grows, NEW w \in Workers,
           \/ WorkerReceives(w) \/ WorkerBoots(w) \/ BrowserAsks(w) \/ Crash(w) \/ Fork(w),
           NEW u \in Workers, u # w, WorkerInv(u)
    PROVE  WorkerInv(u)'
<1>1. /\ phase'[u] = phase[u] /\ bootSnapshot'[u] = bootSnapshot[u]
      /\ replica'[u] = replica[u] /\ based'[u] = based[u]
      /\ toPrimary'[u] = toPrimary[u] /\ toWorker'[u] = toWorker[u]
    <2>. USE DEF TypeOK, workerVars, channelVars
    <2>1. CASE WorkerReceives(w)
        BY <2>1 DEF WorkerReceives, ReceiveBootSnapshot, IgnoreMessage, ReceiveDelta,
            ReceiveSnapshot, ReceiveDeltaResponse, ReceiveNoDelta, ReceiveSnapshotResponse,
            ReceiveCommitResponse, ReceiveEmptyCommitResponse, InstallSnapshot, SyncDone,
            Send, Consumed
    <2>2. CASE WorkerBoots(w) \/ BrowserAsks(w)
        BY <2>2 DEF WorkerBoots, CreateWatchdog, BeginStart, FinishStart, BrowserAsks,
            BeginFencedRequest, BeginMutation, Send
    <2>3. CASE Crash(w) \/ Fork(w)
        BY <2>3 DEF Crash, Fork
    <2>. QED
        BY <2>1, <2>2, <2>3
<1>. QED
    BY <1>1, WorkerWaits

\* A message a worker receives is sound and is its to receive.
LEMMA ReceivedMessage ==
    ASSUME TypeOK, NEW w \in Workers, WorkerInv(w), toWorker[w] # <<>>
    PROVE  LET msg == Head(toWorker[w])
           IN  /\ msg \in WorkerMessage
               /\ SoundMessage(msg)
               /\ HasWatchdog(w) \/ msg.kind \in {"STATE_SNAPSHOT", "STATE_DELTA"}
               /\ InTransit(Consumed(w)[w]) \subseteq InTransit(toWorker[w])
<1>1. toWorker[w] \in Seq(WorkerMessage) /\ toWorker \in [Workers -> Seq(WorkerMessage)]
    BY DEF TypeOK
<1>2. /\ Head(toWorker[w]) \in WorkerMessage
      /\ Head(toWorker[w]) \in InTransit(toWorker[w])
      /\ InTransit(Tail(toWorker[w])) \subseteq InTransit(toWorker[w])
    BY <1>1, HeadInTransit
<1>3. Consumed(w)[w] = Tail(toWorker[w])
    BY <1>1 DEF Consumed
<1>. QED
    BY <1>2, <1>3 DEF WorkerInv, ChannelInv, BootInv

\* What a worker sends asks for nothing newer than the primary has.
LEMMA SentRequest ==
    ASSUME TypeOK, NEW w \in Workers, WorkerInv(w), NEW m \in PrimaryMessage,
           m.kind = "getDeltaSince" => m.fromVersion <= version,
           toPrimary' = Send(w, m)
    PROVE  \A x \in InTransit(toPrimary'[w]) :
               x.kind = "getDeltaSince" => x.fromVersion <= version
<1>1. toPrimary[w] \in Seq(PrimaryMessage) /\ toPrimary \in [Workers -> Seq(PrimaryMessage)]
    BY DEF TypeOK
<1>2. InTransit(toPrimary'[w]) = InTransit(toPrimary[w]) \cup {m}
    BY <1>1, AppendInTransit DEF Send
<1>. QED
    BY <1>2 DEF WorkerInv, ChannelInv

\* Installing a sound snapshot leaves a sound replica.
LEMMA InstallSound ==
    ASSUME TypeOK, NEW w \in Workers, WorkerInv(w), NEW s \in Snapshot, SoundSnapshot(s),
           InstallSnapshot(w, s), UNCHANGED <<version, hist>>
    PROVE  ReplicaInv(w)'
<1>1. CASE s.version < replica[w].version
    BY <1>1 DEF InstallSnapshot, WorkerInv, ReplicaInv, SoundSnapshot
<1>2. CASE ~ (s.version < replica[w].version)
    <2>1. replica'[w] = ApplySnapshot(s)
        BY <1>2 DEF InstallSnapshot, TypeOK
    <2>. QED
        BY <2>1 DEF ReplicaInv, SoundSnapshot, ApplySnapshot
<1>. QED
    BY <1>1, <1>2

\* Applying a sound delta leaves the replica as sound as it was.
LEMMA ApplySound ==
    ASSUME TypeOK, NEW w \in Workers, WorkerInv(w), NEW d \in Delta, SoundDelta(d),
           replica' = [replica EXCEPT ![w] = ApplyDelta(@, d)],
           UNCHANGED <<version, hist, based>>
    PROVE  ReplicaInv(w)'
<1>1. replica[w] \in Snapshot /\ replica'[w] = ApplyDelta(replica[w], d)
    BY DEF TypeOK
<1>2. replica[w].version <= version
    BY DEF WorkerInv, ReplicaInv
<1>3. /\ ApplyDelta(replica[w], d).version <= version
      /\ SoundSnapshot(replica[w]) => SoundSnapshot(ApplyDelta(replica[w], d))
    BY <1>1, <1>2, ApplyDeltaSound
<1>. QED
    BY <1>1, <1>3 DEF WorkerInv, ReplicaInv, SoundSnapshot

\* A worker that receives a message keeps its own invariant.
LEMMA ReceiveKeeps ==
    ASSUME TypeOK, NEW w \in Workers, WorkerInv(w), WorkerReceives(w)
    PROVE  WorkerInv(w)'
<1>. DEFINE msg == Head(toWorker[w])
<1>0. /\ toWorker[w] # <<>> /\ toWorker' = Consumed(w)
      /\ UNCHANGED primaryVars
    BY DEF WorkerReceives, ReceiveBootSnapshot, IgnoreMessage, ReceiveDelta,
        ReceiveSnapshot, ReceiveDeltaResponse, ReceiveNoDelta, ReceiveSnapshotResponse,
        ReceiveCommitResponse, ReceiveEmptyCommitResponse, Receives
<1>1. /\ msg \in WorkerMessage /\ SoundMessage(msg)
      /\ HasWatchdog(w) \/ msg.kind \in {"STATE_SNAPSHOT", "STATE_DELTA"}
      /\ InTransit(toWorker'[w]) \subseteq InTransit(toWorker[w])
    BY <1>0, ReceivedMessage
<1>2. version' = version /\ hist' = hist /\ UNCHANGED <<version, hist>>
    BY <1>0 DEF primaryVars
<1>3. /\ \A m : SoundMessage(m) => SoundMessage(m)'
      /\ \A m \in InTransit(toWorker'[w]) : SoundMessage(m)'
    BY <1>1, <1>2 DEF SoundMessage, SoundDelta, SoundSnapshot, WorkerInv, ChannelInv
<1>4. replica[w].version \in Nat /\ replica[w].version <= version
    BY DEF TypeOK, Snapshot, WorkerInv, ReplicaInv
<1>5. \/ toPrimary' = toPrimary
      \/ \E t \in Tags : \/ toPrimary' = Send(w, GetDeltaSince(t, replica[w].version))
                         \/ toPrimary' = Send(w, GetSnapshot(t))
    <2>1. msg.kind = "noDelta" => msg.tag \in Tags
        BY <1>1, WorkerMessageFields
    <2>. QED
        BY <2>1 DEF WorkerReceives, ReceiveBootSnapshot, IgnoreMessage, ReceiveDelta,
            ReceiveSnapshot, ReceiveDeltaResponse, ReceiveNoDelta, ReceiveSnapshotResponse,
            ReceiveCommitResponse, ReceiveEmptyCommitResponse, Receives, Tags
<1>6. ChannelInv(w)'
    <2>. DEFINE Asked == \A m \in InTransit(toPrimary'[w]) :
                             m.kind = "getDeltaSince" => m.fromVersion <= version
    <2>1. Asked
        <3>1. CASE toPrimary' = toPrimary
            BY <3>1 DEF WorkerInv, ChannelInv
        <3>2. ASSUME NEW t \in Tags, toPrimary' = Send(w, GetDeltaSince(t, replica[w].version))
              PROVE  Asked
            <4>1. PICK m \in PrimaryMessage : m = GetDeltaSince(t, replica[w].version)
                BY <1>4, MessageTypes
            <4>2. m.fromVersion <= version
                BY <1>4, <4>1 DEF GetDeltaSince
            <4>. QED
                BY <3>2, <4>1, <4>2, SentRequest
        <3>3. ASSUME NEW t \in Tags, toPrimary' = Send(w, GetSnapshot(t))
              PROVE  Asked
            <4>1. PICK m \in PrimaryMessage : m = GetSnapshot(t)
                BY MessageTypes
            <4>2. m.kind # "getDeltaSince"
                BY <4>1 DEF GetSnapshot
            <4>. QED
                BY <3>3, <4>1, <4>2, SentRequest
        <3>. QED
            BY <1>5, <3>1, <3>2, <3>3
    <2>. QED
        BY <1>2, <1>3, <2>1 DEF ChannelInv
<1>7. CASE ReceiveBootSnapshot(w) \/ IgnoreMessage(w)
    <2>1. UNCHANGED <<toPrimary, replica, based>>
        BY <1>7 DEF ReceiveBootSnapshot, IgnoreMessage, workerVars
    <2>2. ReplicaInv(w)'
        BY <1>2, <2>1 DEF WorkerInv, ReplicaInv, SoundSnapshot
    <2>3. BootInv(w)'
        <3>0. ~ HasWatchdog(w)
            BY <1>7 DEF ReceiveBootSnapshot, IgnoreMessage, HasWatchdog
        <3>1. phase'[w] \notin {"down", "forked"} => SoundSnapshot(bootSnapshot[w])'
            <4>1. CASE ReceiveBootSnapshot(w)
                <5>1. bootSnapshot'[w] = msg.snapshot /\ SoundSnapshot(msg.snapshot)
                    BY <1>1, <4>1 DEF ReceiveBootSnapshot, Receives, SoundMessage, TypeOK
                <5>. QED
                    BY <1>2, <5>1 DEF SoundSnapshot
            <4>2. CASE IgnoreMessage(w)
                BY <1>2, <4>2 DEF IgnoreMessage, workerVars, WorkerInv, BootInv, SoundSnapshot
            <4>. QED
                BY <1>7, <4>1, <4>2
        <3>. QED
            BY <1>1, <2>1, <3>0, <3>1 DEF WorkerInv, BootInv
    <2>. QED
        BY <1>6, <2>2, <2>3 DEF WorkerInv
<1>8. CASE ~ (ReceiveBootSnapshot(w) \/ IgnoreMessage(w))
    <2>0. HasWatchdog(w)
        BY <1>1, <1>8 DEF WorkerReceives, ReceiveDelta, ReceiveSnapshot, ReceiveDeltaResponse,
            ReceiveNoDelta, ReceiveSnapshotResponse, ReceiveCommitResponse,
            ReceiveEmptyCommitResponse, Receives
    <2>1. bootSnapshot' = bootSnapshot /\ (phase' = phase \/ phase'[w] = "loading")
        BY <1>8 DEF WorkerReceives, ReceiveDelta, ReceiveSnapshot, ReceiveDeltaResponse,
            ReceiveNoDelta, ReceiveSnapshotResponse, ReceiveCommitResponse,
            ReceiveEmptyCommitResponse, SyncDone, TypeOK, workerVars
    <2>2. BootInv(w)'
        BY <1>2, <2>0, <2>1 DEF WorkerInv, BootInv, HasWatchdog, SoundSnapshot
    <2>3. ReplicaInv(w)'
        <3>1. CASE ReceiveDelta(w) \/ ReceiveDeltaResponse(w) \/ ReceiveCommitResponse(w)
            <4>1. /\ msg.kind \in {"STATE_DELTA", "delta", "commit"}
                  /\ replica' = [replica EXCEPT ![w] = ApplyDelta(@, msg.delta)]
                  /\ based' = based
                BY <3>1 DEF ReceiveDelta, ReceiveDeltaResponse, ReceiveCommitResponse, Receives
            <4>2. msg.delta \in Delta /\ SoundDelta(msg.delta)
                BY <1>1, <4>1, WorkerMessageFields DEF SoundMessage
            <4>. QED
                BY <1>2, <4>1, <4>2, ApplySound
        <3>2. CASE ReceiveSnapshot(w) \/ ReceiveSnapshotResponse(w)
            <4>1. /\ msg.kind \in {"STATE_SNAPSHOT", "snapshot"}
                  /\ InstallSnapshot(w, msg.snapshot)
                BY <3>2 DEF ReceiveSnapshot, ReceiveSnapshotResponse, Receives
            <4>2. msg.snapshot \in Snapshot /\ SoundSnapshot(msg.snapshot)
                BY <1>1, <4>1, WorkerMessageFields DEF SoundMessage
            <4>. QED
                BY <1>2, <4>1, <4>2, InstallSound
        <3>3. CASE ReceiveNoDelta(w) \/ ReceiveEmptyCommitResponse(w)
            BY <1>2, <3>3 DEF ReceiveNoDelta, ReceiveEmptyCommitResponse, workerVars,
                WorkerInv, ReplicaInv, SoundSnapshot
        <3>. QED
            BY <1>8, <3>1, <3>2, <3>3 DEF WorkerReceives
    <2>. QED
        BY <1>6, <2>2, <2>3 DEF WorkerInv
<1>. QED
    BY <1>7, <1>8

\* Booting, taking up a browser request, exiting and being forked.
LEMMA LocalStepKeeps ==
    ASSUME TypeOK, NEW w \in Workers, WorkerInv(w),
           WorkerBoots(w) \/ BrowserAsks(w) \/ Crash(w) \/ Fork(w)
    PROVE  WorkerInv(w)'
<1>0. UNCHANGED <<version, hist>> /\ version' = version /\ hist' = hist
    BY DEF WorkerBoots, CreateWatchdog, BeginStart, FinishStart, BrowserAsks,
        BeginFencedRequest, BeginMutation, Crash, Fork, primaryVars
<1>1. /\ bootSnapshot[w].version \in Nat /\ replica[w].version \in Nat /\ version \in Nat
      /\ replica[w].version <= version
    BY DEF TypeOK, Snapshot, WorkerInv, ReplicaInv
<1>2. ASSUME NEW v \in Nat, v <= version, NEW t \in Tags,
             toPrimary' = Send(w, GetDeltaSince(t, v)), toWorker' = toWorker
      PROVE  ChannelInv(w)'
    <2>1. PICK m \in PrimaryMessage : m = GetDeltaSince(t, v)
        BY MessageTypes
    <2>2. m.fromVersion <= version
        BY <1>2, <2>1 DEF GetDeltaSince
    <2>3. \A x \in InTransit(toPrimary'[w]) : x.kind = "getDeltaSince" => x.fromVersion <= version
        BY <1>2, <2>1, <2>2, SentRequest
    <2>. QED
        BY <1>0, <1>2, <2>3 DEF WorkerInv, ChannelInv, SoundMessage, SoundDelta, SoundSnapshot
<1>3. CASE CreateWatchdog(w)
    <2>1. bootSnapshot[w].version <= version
        BY <1>3 DEF CreateWatchdog, WorkerInv, BootInv, SoundSnapshot
    <2>2. ChannelInv(w)'
        BY <1>1, <1>2, <1>3, <2>1 DEF CreateWatchdog, Tags
    <2>3. ~ based[w] /\ based' = based /\ replica'[w].version = bootSnapshot[w].version
        BY <1>3 DEF CreateWatchdog, WorkerInv, BootInv, HasWatchdog, TypeOK
    <2>4. phase'[w] = "syncing" /\ bootSnapshot' = bootSnapshot
        BY <1>3 DEF CreateWatchdog, TypeOK
    <2>5. BootInv(w)'
        BY <1>0, <1>3, <2>4 DEF CreateWatchdog, WorkerInv, BootInv, HasWatchdog, SoundSnapshot
    <2>. QED
        BY <1>0, <2>1, <2>2, <2>3, <2>5 DEF WorkerInv, ReplicaInv
<1>4. CASE BeginStart(w)
    <2>1. phase[w] = "loading" /\ phase'[w] \in {"listening", "starting"}
        BY <1>4 DEF BeginStart, TypeOK
    <2>. QED
        BY <1>0, <1>4, <2>1 DEF BeginStart, WorkerInv, ChannelInv, BootInv, ReplicaInv,
            HasWatchdog, SoundMessage, SoundDelta, SoundSnapshot, channelVars
<1>5. CASE FinishStart(w)
    <2>1. /\ phase[w] = "starting" /\ phase'[w] = "listening"
          /\ replica'[w] = ApplySnapshot(bootSnapshot[w])
        BY <1>5 DEF FinishStart, TypeOK
    <2>2. ReplicaInv(w)'
        BY <1>0, <2>1 DEF WorkerInv, BootInv, ReplicaInv, ApplySnapshot, SoundSnapshot
    <2>. QED
        BY <1>0, <1>5, <2>1, <2>2 DEF FinishStart, WorkerInv, ChannelInv, BootInv,
            HasWatchdog, SoundMessage, SoundDelta, SoundSnapshot, channelVars
<1>6. CASE BrowserAsks(w)
    <2>1. UNCHANGED <<toWorker, phase, bootSnapshot, replica, based>> /\ HasWatchdog(w)
        BY <1>6 DEF BrowserAsks, BeginFencedRequest, BeginMutation, HasWatchdog
    <2>2. ChannelInv(w)'
        <3>1. CASE BeginMutation(w)
            <4>1. PICK m \in PrimaryMessage : m = CommitProjectPaths
                BY MessageTypes
            <4>2. m.kind # "getDeltaSince"
                BY <4>1 DEF CommitProjectPaths
            <4>3. \A x \in InTransit(toPrimary'[w]) :
                      x.kind = "getDeltaSince" => x.fromVersion <= version
                BY <3>1, <4>1, <4>2, SentRequest DEF BeginMutation
            <4>. QED
                BY <1>0, <2>1, <4>3 DEF WorkerInv, ChannelInv, SoundMessage, SoundDelta,
                    SoundSnapshot
        <3>2. CASE \E floor \in 1 .. version : BeginFencedRequest(w, floor)
            BY <1>1, <1>2, <3>2 DEF BeginFencedRequest, Tags
        <3>. QED
            BY <1>6, <3>1, <3>2 DEF BrowserAsks
    <2>. QED
        BY <1>0, <2>1, <2>2 DEF WorkerInv, BootInv, ReplicaInv, HasWatchdog, SoundSnapshot
<1>7. CASE Crash(w)
    <2>1. /\ phase'[w] = "down" /\ ~ based'[w] /\ replica'[w] = EmptyReplica
          /\ InTransit(toWorker'[w]) = {} /\ InTransit(toPrimary'[w]) = {}
        BY <1>7, NothingInTransit DEF Crash, TypeOK
    <2>2. EmptyReplica.version <= version
        BY <1>1 DEF EmptyReplica
    <2>. QED
        BY <1>0, <2>1, <2>2 DEF WorkerInv, ChannelInv, BootInv, ReplicaInv, EmptyReplica
<1>8. CASE Fork(w)
    <2>1. /\ phase[w] = "down" /\ phase'[w] = "forked"
          /\ toPrimary'[w] = <<ReadyMsg>>
          /\ UNCHANGED <<toWorker, bootSnapshot, replica, based>>
        BY <1>8 DEF Fork, TypeOK
    <2>2. \A m \in InTransit(toPrimary'[w]) : m.kind = "WORKER_READY"
        BY <2>1 DEF InTransit, ReadyMsg
    <2>. QED
        BY <1>0, <2>1, <2>2 DEF WorkerInv, ChannelInv, BootInv, ReplicaInv, HasWatchdog,
            SoundMessage, SoundDelta, SoundSnapshot
<1>. QED
    BY <1>3, <1>4, <1>5, <1>6, <1>7, <1>8 DEF WorkerBoots

\* The inductive invariant.
LEMMA InvInit == ASSUME Init PROVE IInv
<1>1. ASSUME NEW w \in Workers
      PROVE  WorkerInv(w)
    <2>1. /\ toWorker[w] = <<>> /\ toPrimary[w] = <<ReadyMsg>>
          /\ replica[w] = EmptyReplica /\ ~ based[w] /\ phase[w] = "forked" /\ version = 0
        BY DEF Init
    <2>2. InTransit(toWorker[w]) = {} /\ \A m \in InTransit(toPrimary[w]) : m.kind = "WORKER_READY"
        BY <2>1, NothingInTransit DEF InTransit, ReadyMsg
    <2>. QED
        BY <2>1, <2>2 DEF WorkerInv, ChannelInv, BootInv, ReplicaInv, EmptyReplica
<1>. QED
    BY <1>1, TypeInit, LogInit DEF IInv

LEMMA InvStep ==
    ASSUME IInv, [Next]_vars
    PROVE  IInv'
<1>0. TypeOK /\ LogInv /\ TypeOK' /\ LogInv' /\ Grows
    BY TypeStep, LogStep DEF IInv
<1>1. ASSUME NEW u \in Workers
      PROVE  WorkerInv(u)'
    <2>0. WorkerInv(u)
        BY DEF IInv
    <2>1. CASE PrimaryCommit \/ ReloadConfig
        BY <1>0, <2>0, <2>1, PrimaryKeepsWorkers
    <2>2. ASSUME NEW w \in Workers, PrimaryHandles(w)
          PROVE  WorkerInv(u)'
        BY <1>0, <2>0, <2>2, AnswersKeepWorkers DEF IInv
    <2>3. ASSUME NEW w \in Workers,
                 WorkerReceives(w) \/ WorkerBoots(w) \/ BrowserAsks(w) \/ Crash(w) \/ Fork(w)
          PROVE  WorkerInv(u)'
        <3>1. CASE u = w
            BY <1>0, <2>0, <2>3, <3>1, ReceiveKeeps, LocalStepKeeps
        <3>2. CASE u # w
            BY <1>0, <2>0, <2>3, <3>2, OtherWorkersKeep
        <3>. QED
            BY <3>1, <3>2
    <2>4. CASE UNCHANGED vars
        BY <1>0, <2>0, <2>4, WorkerWaits
           DEF vars, channelVars, workerVars
    <2>. QED
        BY <2>1, <2>2, <2>3, <2>4 DEF Next
<1>. QED
    BY <1>0, <1>1 DEF IInv

\* Whatever the interleaving of commits, broadcasts, pulls, boots and exits, a
\* replica that has taken a full snapshot holds exactly the committed state of
\* the version it reports (watchdog.js applySnapshotInternal, applyDeltaInternal
\* and start; state_system.js applyDelta and applySnapshot).
THEOREM ReplicasCoherent == Spec => []BasedReplicaCoherent
<1>1. Init => IInv
    BY InvInit
<1>2. IInv /\ [Next]_vars => IInv'
    BY InvStep
<1>3. IInv => BasedReplicaCoherent
    BY DEF IInv, WorkerInv, ReplicaInv, BasedReplicaCoherent
<1>. QED
    BY <1>1, <1>2, <1>3, PTL DEF Spec

\* Applying a delta never takes a replica back.
LEMMA ApplyDeltaForward ==
    ASSUME NEW r \in Snapshot, NEW d \in Delta
    PROVE  r.version <= ApplyDelta(r, d).version
BY DEF ApplyDelta, Stale, Gap, Snapshot, Delta

\* One step: a replica's version decreases only in FinishStart and in Crash.
LEMMA ForwardStep ==
    ASSUME IInv, [Next]_vars, NEW u \in Workers
    PROVE  \/ replica[u].version <= replica'[u].version
           \/ phase[u] = "starting" /\ FinishStart(u)
           \/ phase'[u] = "down"
<1>0. /\ TypeOK /\ WorkerInv(u)
      /\ replica[u] \in Snapshot /\ replica[u].version \in Nat
      /\ replica \in [Workers -> Snapshot]
    BY DEF IInv, TypeOK, Snapshot
<1>1. CASE replica'[u] = replica[u]
    BY <1>0, <1>1
<1>2. ASSUME NEW w \in Workers, WorkerReceives(w)
      PROVE  replica[u].version <= replica'[u].version
    <2>. DEFINE msg == Head(toWorker[w])
    <2>1. WorkerInv(w) /\ toWorker[w] # <<>>
        BY <1>2 DEF IInv, WorkerReceives, ReceiveBootSnapshot, IgnoreMessage, ReceiveDelta,
            ReceiveSnapshot, ReceiveDeltaResponse, ReceiveNoDelta, ReceiveSnapshotResponse,
            ReceiveCommitResponse, ReceiveEmptyCommitResponse, Receives
    <2>2. msg \in WorkerMessage
        BY <1>0, <2>1, ReceivedMessage
    <2>3. CASE ReceiveDelta(w) \/ ReceiveDeltaResponse(w) \/ ReceiveCommitResponse(w)
        <3>1. /\ msg.kind \in {"STATE_DELTA", "delta", "commit"}
              /\ replica' = [replica EXCEPT ![w] = ApplyDelta(@, msg.delta)]
            BY <2>3 DEF ReceiveDelta, ReceiveDeltaResponse, ReceiveCommitResponse, Receives
        <3>2. msg.delta \in Delta
            BY <2>2, <3>1, WorkerMessageFields
        <3>3. replica[w].version <= ApplyDelta(replica[w], msg.delta).version
            BY <1>0, <3>2, ApplyDeltaForward
        <3>. QED
            BY <1>0, <3>1, <3>3
    <2>4. CASE ReceiveSnapshot(w) \/ ReceiveSnapshotResponse(w)
        <3>1. /\ msg.kind \in {"STATE_SNAPSHOT", "snapshot"}
              /\ InstallSnapshot(w, msg.snapshot)
            BY <2>4 DEF ReceiveSnapshot, ReceiveSnapshotResponse, Receives
        <3>2. msg.snapshot \in Snapshot /\ msg.snapshot.version \in Nat
            BY <2>2, <3>1, WorkerMessageFields DEF Snapshot
        <3>. QED
            BY <1>0, <3>1, <3>2 DEF InstallSnapshot, ApplySnapshot, Snapshot
    <2>5. CASE ReceiveBootSnapshot(w) \/ IgnoreMessage(w) \/ ReceiveNoDelta(w)
               \/ ReceiveEmptyCommitResponse(w)
        BY <1>0, <2>5 DEF ReceiveBootSnapshot, IgnoreMessage, ReceiveNoDelta,
            ReceiveEmptyCommitResponse, workerVars
    <2>. QED
        BY <1>2, <2>3, <2>4, <2>5 DEF WorkerReceives
<1>3. ASSUME NEW w \in Workers, WorkerBoots(w) \/ Crash(w)
      PROVE  \/ replica[u].version <= replica'[u].version
             \/ phase[u] = "starting" /\ FinishStart(u)
             \/ phase'[u] = "down"
    <2>1. CASE u # w
        BY <1>0, <1>3, <2>1 DEF WorkerBoots, CreateWatchdog, BeginStart, FinishStart, Crash
    <2>2. CASE u = w /\ CreateWatchdog(w)
        <3>1. replica[u].version = 0
            BY <1>0, <2>2 DEF CreateWatchdog, WorkerInv, BootInv, HasWatchdog, EmptyReplica
        <3>2. replica'[u].version = bootSnapshot[u].version /\ bootSnapshot[u].version \in Nat
            BY <1>0, <2>2 DEF CreateWatchdog, TypeOK, Snapshot
        <3>. QED
            BY <3>1, <3>2
    <2>3. CASE u = w /\ BeginStart(w)
        BY <1>0, <2>3 DEF BeginStart
    <2>4. CASE u = w /\ FinishStart(w)
        BY <2>4 DEF FinishStart
    <2>5. CASE u = w /\ Crash(w)
        BY <1>0, <2>5 DEF Crash, TypeOK
    <2>. QED
        BY <1>3, <2>1, <2>2, <2>3, <2>4, <2>5 DEF WorkerBoots
<1>4. ASSUME NEW w \in Workers, PrimaryHandles(w) \/ BrowserAsks(w) \/ Fork(w)
      PROVE  replica' = replica
    BY <1>4 DEF PrimaryHandles, HandleReady, HandleGetDeltaSince, HandleGetSnapshot,
        HandleCommitProjectPaths, BrowserAsks, BeginFencedRequest, BeginMutation, Fork,
        workerVars
<1>5. CASE PrimaryCommit \/ ReloadConfig \/ UNCHANGED vars
    BY <1>1, <1>5 DEF PrimaryCommit, ReloadConfig, vars, workerVars
<1>. QED
    BY <1>1, <1>2, <1>3, <1>4, <1>5 DEF Next

\* While a worker serves, the version it reports never goes back; the only
\* step that takes a live replica back is the one in which watchdog.start()
\* installs the boot snapshot (watchdog.js start, applySnapshotInternal).
THEOREM NeverBackWhileServing == Spec => VersionGoesBackOnlyAtStart
<1>1. Init => IInv
    BY InvInit
<1>2. IInv /\ [Next]_vars => IInv'
    BY InvStep
<1>3. IInv /\ IInv' /\ [Next]_vars =>
          [\A w \in Workers :
              replica'[w].version < replica[w].version
                  => phase[w] = "starting" \/ phase'[w] = "down"]_vars
    <2>. SUFFICES ASSUME IInv, IInv', [Next]_vars, NEW w \in Workers,
                         replica'[w].version < replica[w].version
                  PROVE  phase[w] = "starting" \/ phase'[w] = "down"
        OBVIOUS
    <2>1. replica[w].version \in Nat /\ replica'[w].version \in Nat
        BY DEF IInv, TypeOK, Snapshot
    <2>. QED
        BY <2>1, ForwardStep
<1>. QED
    BY <1>1, <1>2, <1>3, PTL DEF Spec, VersionGoesBackOnlyAtStart
=============================================================================
