----------------------- MODULE MCClusterRefinement -----------------------
(* Finite instances of ClusterRefinement for TLC. *)
EXTENDS ClusterRefinement, TLC

\* Workers are interchangeable and so are keys.
Symmetry == Permutations(Workers) \cup Permutations(Keys)
=============================================================================
