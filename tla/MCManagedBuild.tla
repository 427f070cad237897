--------------------------- MODULE MCManagedBuild ---------------------------
(* Small instances of ManagedBuild: two processes and two versions of the  *)
(* base configuration.  Processes are interchangeable.                     *)
EXTENDS ManagedBuild, TLC

Interchangeable == Permutations(Processes)

=============================================================================
