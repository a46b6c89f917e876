--------------------------- MODULE MCWatchdogIndex ---------------------------
(* Finite instances of WatchdogIndex for TLC. *)
EXTENDS WatchdogIndex

CONSTANTS top, sub, file

\* A file in a directory in a directory: the shortest path with two ancestors.
MCParent == (top :> Root) @@ (sub :> top) @@ (file :> sub)

\* All belong to one owner, so to one shard.
MCShard == [p \in {top, sub, file} |-> "L2/alice"]

\* The behaviours in which the debounce time of the watch events outlasts
\* everything that happens.
SlowEventsSpec == Init /\ [][Next /\ UNCHANGED pending]_vars
=============================================================================
