-------------------------- MODULE MCParallelIndex --------------------------
(***************************************************************************)
(* Instances of ParallelIndex for TLC.                                     *)
(***************************************************************************)
EXTENDS ParallelIndex, TLC

\* h1 is shared by every unit and not yet in the database; h2 is current.
CONSTANTS h1, h2

MCKeys == {h1, h2}
MCCurrent == {h2}
MCIncludes == [r \in Ranks |-> IF r = 1 THEN {h1, h2} ELSE {h1}]
MCDigests == 0 .. MaxEdits
MCBytes == [r \in Ranks |-> IF r = 2 THEN 2 ELSE 1]

\* One header that every unit shares.
OneKey == {h1}
NoneCurrent == {}
AllInclude == [r \in Ranks |-> {h1}]

WorkerSymmetry == Permutations(Workers)

=============================================================================
