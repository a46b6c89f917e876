---------------------------- MODULE StateSystem ----------------------------
(***************************************************************************)
(* The replicated half of server/runtime/state_system.js: what a commit    *)
(* puts in the delta log, which range of the log can be replayed, and what *)
(* a replica does with a delta or a snapshot.  The operators are pure; the *)
(* modules that own the variables are ClusterReplication and its users.    *)
(*                                                                         *)
(* A key stands for one (area, id) pair of entriesByArea and a value for   *)
(* the cloned payload.  Only replicated entries appear here: entries that  *)
(* are set with replicate:false never enter a delta or a snapshot.         *)
(***************************************************************************)
EXTENDS Naturals, FiniteSets

CONSTANTS
    Keys,           \* the (area, id) pairs of the replicated areas
    Values,         \* the payloads an entry may hold
    Absent,         \* the entry does not exist
    NoChange,       \* a change set leaves the entry alone
    DeltaRetention  \* how many deltas the log keeps

ASSUME RetentionAssumption == DeltaRetention \in Nat \ {0}

ASSUME SentinelAssumption ==
    /\ Absent \notin Values
    /\ NoChange \notin Values
    /\ Absent # NoChange

State     == [Keys -> Values \cup {Absent}]
ChangeSet == [Keys -> Values \cup {Absent, NoChange}]
Delta     == [changes : ChangeSet, fromVersion : Nat, toVersion : Nat]
Snapshot  == [state : State, version : Nat]

EmptyState == [k \in Keys |-> Absent]
EmptyChanges == [k \in Keys |-> NoChange]

-----------------------------------------------------------------------------
(* Change sets. *)

\* A mutant of Override that forgets the entries a change list deletes.
OverrideKeepingDeleted(state, changes) ==
    [k \in Keys |->
        IF changes[k] \in {NoChange, Absent} THEN state[k] ELSE changes[k]]

\* applyNormalizedReplicatedChange for every change of a list: a deleted entry
\* becomes Absent, a set entry takes the new value, the others stay.
Override(state, changes) ==
    [k \in Keys |-> IF changes[k] = NoChange THEN state[k] ELSE changes[k]]

\* The changes commitEntries keeps of a batch: setting an entry to the value it
\* has and deleting an absent entry are dropped.
ReplicatedChanges(old, new) ==
    [k \in Keys |-> IF new[k] = old[k] THEN NoChange ELSE new[k]]

\* The change lists of the deltas D one after the other, as getDeltaSince
\* concatenates them: the newest delta that touches an entry decides its value.
Newest(D) == CHOOSE d \in D : \A e \in D : e.toVersion <= d.toVersion

Touching(D, k) == {d \in D : d.changes[k] # NoChange}

\* A mutant of MergedChanges that replays the change lists newest first.
MergedNewestFirst(D) ==
    [k \in Keys |->
        IF Touching(D, k) = {}
        THEN NoChange
        ELSE (CHOOSE d \in Touching(D, k) :
                 \A e \in Touching(D, k) : d.toVersion <= e.toVersion).changes[k]]

MergedChanges(D) ==
    [k \in Keys |->
        IF Touching(D, k) = {} THEN NoChange
                               ELSE Newest(Touching(D, k)).changes[k]]

-----------------------------------------------------------------------------
(* The primary's delta log: the set of the deltas it still holds.  JavaScript *)
(* keeps them in an array; their order there is the order of toVersion.       *)

\* A mutant of TrimDeltaLog that keeps one delta too many.
TrimOneLess(log) ==
    {d \in log :
        Cardinality({e \in log : e.toVersion > d.toVersion}) <= DeltaRetention}

\* trimDeltaLog: the newest DeltaRetention deltas stay.
TrimDeltaLog(log) ==
    {d \in log :
        Cardinality({e \in log : e.toVersion > d.toVersion}) < DeltaRetention}

DeltasAfter(log, fromVersion) == {d \in log : d.toVersion > fromVersion}

\* getDeltaSince returns a delta, not null: nothing is missing, or the oldest
\* retained delta after fromVersion starts exactly there.
CanReplay(log, version, fromVersion) ==
    \/ fromVersion >= version
    \/ \E d \in DeltasAfter(log, fromVersion) :
          /\ d.fromVersion = fromVersion
          /\ \A e \in DeltasAfter(log, fromVersion) : d.toVersion <= e.toVersion

\* The delta getDeltaSince returns when CanReplay holds.
DeltaSince(log, version, fromVersion) ==
    [changes     |-> IF fromVersion >= version
                     THEN EmptyChanges
                     ELSE MergedChanges(DeltasAfter(log, fromVersion)),
     fromVersion |-> fromVersion,
     toVersion   |-> IF fromVersion >= version
                     THEN version
                     ELSE Newest(DeltasAfter(log, fromVersion)).toVersion]

-----------------------------------------------------------------------------
(* A replica is a state with the version it claims to be. *)

\* A mutant of Stale that lets a delta through that ends where the replica is.
StaleUnlessEqual(replica, delta) == delta.toVersion < replica.version

\* applyDelta ignores a delta that ends at or before the replica's version...
Stale(replica, delta) == delta.toVersion <= replica.version

\* ... and throws STATE_VERSION_GAP for one that starts anywhere else.
Gap(replica, delta) ==
    /\ ~ Stale(replica, delta)
    /\ delta.fromVersion # replica.version

\* A mutant of ApplyDelta without the gap check.
ApplyAcrossGap(replica, delta) ==
    IF Stale(replica, delta)
    THEN replica
    ELSE [state   |-> Override(replica.state, delta.changes),
          version |-> delta.toVersion]

ApplyDelta(replica, delta) ==
    IF Stale(replica, delta) \/ Gap(replica, delta)
    THEN replica
    ELSE [state   |-> Override(replica.state, delta.changes),
          version |-> delta.toVersion]

\* applySnapshot replaces every replicated entry and the version, and does not
\* compare the new version with the old one.
ApplySnapshot(snapshot) == [state |-> snapshot.state, version |-> snapshot.version]
=============================================================================
