---------------------------- MODULE SerialIndex ----------------------------
(***************************************************************************)
(* What indexing one unit after another promises, as the serial loop of    *)
(* run_index_pass gives it (src/src/application/services.cpp): units are    *)
(* settled in rank order, each published or failed, and a header is        *)
(* indexed with the first published unit that includes it, unless the      *)
(* database already held it.  Every later unit reads that row.             *)
(*                                                                         *)
(* A step settles one or more consecutive units, because the parallel      *)
(* writer may commit several of them in one transaction.                   *)
(***************************************************************************)
EXTENDS Naturals

CONSTANTS Count, Keys, Includes, Current, NoOwner

VARIABLES
    settled,     \* units below this rank have been settled
    published,   \* the ones that were published
    owner        \* key -> the unit that indexed it in this run, or NoOwner

serialVars == <<settled, published, owner>>

Init ==
    /\ settled = 0
    /\ published = {}
    /\ owner = [k \in Keys |-> NoOwner]

\* Units of rs that would index k: they include it and no row is current.
Indexers(k, rs) == {r \in rs : k \in Includes[r] /\ k \notin Current}

SettleUnits(upto, pub) ==
    /\ settled' = upto
    /\ published' = published \cup pub
    /\ owner' = [k \in Keys |->
          IF owner[k] # NoOwner \/ Indexers(k, pub) = {}
          THEN owner[k]
          ELSE CHOOSE r \in Indexers(k, pub) : \A s \in Indexers(k, pub) : r <= s]

Next ==
    \E upto \in (settled + 1) .. Count :
        \E pub \in SUBSET (settled .. (upto - 1)) : SettleUnits(upto, pub)

Spec == Init /\ [][Next]_serialVars

=============================================================================
