-------------------------- MODULE MCCleanRebuild --------------------------
(***************************************************************************)
(* Instances of CleanRebuild for TLC.                                      *)
(***************************************************************************)
EXTENDS CleanRebuild, TLC

\* Processes and rows are interchangeable; inodes are chosen.
Symmetry == Permutations(Rebuilders) \cup Permutations(Writers) \cup Permutations(Files)

=============================================================================
