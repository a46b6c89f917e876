---------------------------- MODULE MCJobRunner ----------------------------
(* Finite instances of JobRunner for TLC. *)
EXTENDS JobRunner

MCNames  == Servers \X Jobs
MCAskers == Clients \cup (MCNames \X (1 .. MaxStarts))
=============================================================================
