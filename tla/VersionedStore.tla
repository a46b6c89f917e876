-------------------------- MODULE VersionedStore --------------------------
(***************************************************************************)
(* What the clustered runtime promises the browsers: a single sequence of  *)
(* committed states, and workers that show each browser one of them.  A    *)
(* worker may be behind, but it shows a state whole, with the version that *)
(* state was committed as, and while it serves it never goes back.         *)
(* ClusterReplication implements this with deltas, snapshots and channels. *)
(***************************************************************************)
EXTENDS Naturals

CONSTANTS
    Workers,
    States,   \* what a committed state may be
    Hidden    \* the view of a worker that serves nobody

VARIABLES
    version,  \* the version of the newest committed state
    hist,     \* the state of every version
    view      \* what each worker shows: a version and its state, or Hidden

vars == <<version, hist, view>>

Shown(v) == [state |-> hist[v], version |-> v]

Init ==
    /\ version = 0
    /\ hist \in [{0} -> States]
    /\ view = [w \in Workers |-> Hidden]

Commit ==
    /\ \E s \in States \ {hist[version]} :
          hist' = [v \in 0 .. version + 1 |-> IF v = version + 1 THEN s ELSE hist[v]]
    /\ version' = version + 1
    /\ UNCHANGED view

\* A worker starts serving, possibly from an old version.
Serve(w) ==
    /\ view[w] = Hidden
    /\ \E v \in 0 .. version : view' = [view EXCEPT ![w] = Shown(v)]
    /\ UNCHANGED <<version, hist>>

CatchUp(w) ==
    /\ view[w] # Hidden
    /\ \E v \in view[w].version + 1 .. version : view' = [view EXCEPT ![w] = Shown(v)]
    /\ UNCHANGED <<version, hist>>

Stop(w) ==
    /\ view[w] # Hidden
    /\ view' = [view EXCEPT ![w] = Hidden]
    /\ UNCHANGED <<version, hist>>

Next ==
    \/ Commit
    \/ \E w \in Workers : Serve(w) \/ CatchUp(w) \/ Stop(w)

Spec == Init /\ [][Next]_vars
=============================================================================
