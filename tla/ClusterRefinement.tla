------------------------- MODULE ClusterRefinement -------------------------
(***************************************************************************)
(* ClusterReplication implements VersionedStore.  A worker shows its       *)
(* replica while it listens, provided the replica was built on a full      *)
(* snapshot.                                                               *)
(***************************************************************************)
EXTENDS ClusterReplication

CONSTANT Hidden

ASSUME HiddenAssumption == Hidden \notin Snapshot

View == [w \in Workers |->
            IF phase[w] = "listening" /\ based[w] THEN replica[w] ELSE Hidden]

Store == INSTANCE VersionedStore WITH States <- State, view <- View

\* Workers show whole committed states and never go back while they serve
\* (state_system.js applyDelta and applySnapshot, watchdog.js
\* applySnapshotInternal, the IPC protocol of cluster.js).
ImplementsVersionedStore == Store!Spec
=============================================================================
