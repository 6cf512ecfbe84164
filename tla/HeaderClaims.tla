---------------------------- MODULE HeaderClaims ----------------------------
(***************************************************************************)
(* The scheduler-owned header-claim oracle of parallel extraction:         *)
(* SequencedHeaderClaimOracle in src/src/index/header_claims.cpp.          *)
(*                                                                         *)
(* Translation units are numbered 0..Count-1 in the legacy apply order     *)
(* (their ranks).  A claim key stands for a pair (header path, normalized  *)
(* configuration hash): two units compiled under different configurations  *)
(* have different keys for one header.  The oracle grants each key to one  *)
(* rank, and the ordered gate (nextRank, released) lets a rank claim only  *)
(* once every lower rank has claimed or has been released.                 *)
(*                                                                         *)
(* Every method body runs under the oracle's mutex, so each is one step.   *)
(* The composing module waits for GateOpen and wakes the waiters.          *)
(***************************************************************************)
EXTENDS Naturals

CONSTANTS
    Count,      \* number of translation units of the run (targets.size())
    Keys,       \* claim keys: (header path, configuration hash)
    Digests,    \* md5 digests of header contents
    NoGrant     \* absence of an entry of granted_

ASSUME CountAssumption == Count \in Nat \ {0}

VARIABLES
    granted,          \* granted_: key -> [md5, owner], or NoGrant
    released,         \* released_: ranks released out of order
    nextRank,         \* next_rank_: every rank below it is through the gate
    oracleCancelled   \* cancelled_

claimVars == <<granted, released, nextRank, oracleCancelled>>

Ranks == 0 .. (Count - 1)

Grant == [md5 : Digests, owner : Ranks]

ASSUME NoGrantAssumption == NoGrant \notin Grant /\ NoGrant \notin Ranks

ClaimsTypeOK ==
    /\ granted \in [Keys -> Grant \cup {NoGrant}]
    /\ released \in SUBSET Ranks
    /\ nextRank \in 0 .. Count
    /\ oracleCancelled \in BOOLEAN

ClaimsInit ==
    /\ granted = [k \in Keys |-> NoGrant]
    /\ released = {}
    /\ nextRank = 0
    /\ oracleCancelled = FALSE

-----------------------------------------------------------------------------

\* Mutant of GateOpen: off by one, the rank behind the gate's may pass too.
GateOpenEarly(rank) == oracleCancelled \/ nextRank + 1 >= rank

\* The wait predicate of claim().
GateOpen(rank) == oracleCancelled \/ nextRank >= rank

\* Mutant of OwnedElsewhere: the owner test is inverted.
OwnedHere(rank, k, md5) ==
    /\ granted[k] # NoGrant
    /\ granted[k].md5 = md5
    /\ granted[k].owner = rank

\* A key another rank was granted for the very bytes this rank parsed.
OwnedElsewhere(rank, k, md5) ==
    /\ granted[k] # NoGrant
    /\ granted[k].md5 = md5
    /\ granted[k].owner # rank

\* The flags claim() returns, as the set of candidates it grants: none after
\* cancel(), none that the database already has current, none owned elsewhere
\* with the same digest.  A rank that retries gets its own grants again.
OwnedKeys(rank, candidates, md5, already) ==
    IF oracleCancelled
    THEN {}
    ELSE {k \in candidates \ already : ~OwnedElsewhere(rank, k, md5[k])}

\* release(): record the rank, then advance the gate over every rank already
\* recorded.  The loop stops at the first rank m that is not.  A rank that is
\* released again after the gate passed it stays in released_ for good.
Release(rank) ==
    LET all == released \cup {rank} IN
    \E m \in nextRank .. Count :
        /\ m \notin all
        /\ \A n \in nextRank .. (m - 1) : n \in all
        /\ nextRank' = m
        /\ released' = all \ (nextRank .. (m - 1))

\* claim(), once GateOpen holds.
Claim(rank, candidates, md5, already) ==
    /\ GateOpen(rank)
    /\ IF oracleCancelled
       THEN UNCHANGED claimVars
       ELSE /\ granted' = [k \in Keys |->
                  IF k \in OwnedKeys(rank, candidates, md5, already)
                  THEN [md5 |-> md5[k], owner |-> rank]
                  ELSE granted[k]]
            /\ Release(rank)
            /\ UNCHANGED oracleCancelled

\* release_unclaimed(): idempotent, and a no-op once the gate is past the rank.
ReleaseUnclaimed(rank) ==
    IF oracleCancelled \/ rank < nextRank
    THEN UNCHANGED claimVars
    ELSE Release(rank) /\ UNCHANGED <<granted, oracleCancelled>>

\* revoke_grants(): the rank's publication failed.
RevokeGrants(rank) ==
    /\ granted' = [k \in Keys |->
          IF granted[k] # NoGrant /\ granted[k].owner = rank
          THEN NoGrant
          ELSE granted[k]]
    /\ UNCHANGED <<released, nextRank, oracleCancelled>>

\* cancel(), also the destructor.
CancelOracle ==
    /\ oracleCancelled' = TRUE
    /\ UNCHANGED <<granted, released, nextRank>>

=============================================================================
