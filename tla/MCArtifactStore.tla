--------------------------- MODULE MCArtifactStore ---------------------------
(* Instances of ArtifactStore for TLC. *)
EXTENDS ArtifactStore, TLC

CONSTANTS p1, p2, d1, d2, a, b, x, y, t1

OneDatabase == [p \in Procs |-> d1]
OwnDatabase == (p1 :> d1) @@ (p2 :> d2)
Symmetry == Permutations({p1, p2}) \cup Permutations({a, b}) \cup Permutations({x, y})
\* Every artifact under an attachment name of its own, as producers choose them.
OwnName == [id \in Ids |-> id]
=============================================================================
