------------------------ MODULE ParallelIndexProofs ------------------------
(***************************************************************************)
(* Proofs about ParallelIndex, for every number of units, workers and      *)
(* headers, every budget and every set of faults.                          *)
(***************************************************************************)
EXTENDS ParallelIndex, WellFoundedInduction, TLAPS

USE DEF Ranks, Grant

-----------------------------------------------------------------------------
(***************************************************************************)
(* The claim oracle.                                                       *)
(***************************************************************************)

\* release() keeps the oracle well typed, never moves the gate back, and only
\* ever lets ranks through that were recorded.
LEMMA ReleaseStep ==
    ASSUME released \in SUBSET Ranks, nextRank \in 0 .. Count,
           NEW rank \in Ranks, Release(rank)
    PROVE  /\ released' \in SUBSET Ranks
           /\ nextRank' \in 0 .. Count
           /\ nextRank <= nextRank'
           /\ released' \subseteq released \cup {rank}
           /\ \A n \in nextRank .. (nextRank' - 1) : n \in released \cup {rank}
           /\ nextRank >= rank => nextRank' > rank
  BY CountAssumption DEF Release

\* claim() keeps the oracle well typed; what it grants, it grants to rank.
LEMMA ClaimStep ==
    ASSUME ClaimsTypeOK, NEW rank \in Ranks, NEW c \in SUBSET Keys,
           NEW md5 \in [Keys -> Digests], NEW already, ~oracleCancelled,
           Claim(rank, c, md5, already)
    PROVE  /\ ClaimsTypeOK'
           /\ Release(rank)
           /\ oracleCancelled' = oracleCancelled
           /\ OwnedKeys(rank, c, md5, already) \in SUBSET Keys
           /\ \A k \in Keys : granted'[k] = granted[k] \/ granted'[k].owner = rank
  <1>1. Release(rank) /\ oracleCancelled' = oracleCancelled
    BY DEF Claim
  <1>2. released' \in SUBSET Ranks /\ nextRank' \in 0 .. Count
    BY <1>1, ReleaseStep DEF ClaimsTypeOK
  <1>3. granted' = [k \in Keys |->
                  IF k \in OwnedKeys(rank, c, md5, already)
                  THEN [md5 |-> md5[k], owner |-> rank]
                  ELSE granted[k]]
    BY DEF Claim
  <1>4. OwnedKeys(rank, c, md5, already) \in SUBSET Keys
    BY DEF OwnedKeys
  <1>5. granted' \in [Keys -> Grant \cup {NoGrant}]
    BY <1>3 DEF ClaimsTypeOK
  <1>6. \A k \in Keys : granted'[k] = granted[k] \/ granted'[k].owner = rank
    BY <1>3
  <1>7. QED
    BY <1>1, <1>2, <1>4, <1>5, <1>6 DEF ClaimsTypeOK

\* release_unclaimed() is a release() or nothing.
LEMMA ReleaseUnclaimedStep ==
    ASSUME ClaimsTypeOK, NEW rank \in Ranks, ReleaseUnclaimed(rank)
    PROVE  /\ ClaimsTypeOK'
           /\ granted' = granted
           /\ oracleCancelled' = oracleCancelled
           /\ released' \subseteq released \cup {rank}
           /\ nextRank <= nextRank'
           /\ \A n \in nextRank .. (nextRank' - 1) : n \in released \cup {rank}
  <1>1. CASE oracleCancelled \/ rank < nextRank
    <2>1. UNCHANGED claimVars
      BY <1>1 DEF ReleaseUnclaimed
    <2>2. /\ granted' = granted /\ released' = released
          /\ nextRank' = nextRank /\ oracleCancelled' = oracleCancelled
      BY <2>1 DEF claimVars
    <2>3. ClaimsTypeOK'
      BY <2>2 DEF ClaimsTypeOK
    <2>4. QED
      BY <2>2, <2>3 DEF ClaimsTypeOK
  <1>2. CASE ~(oracleCancelled \/ rank < nextRank)
    <2>1. Release(rank) /\ UNCHANGED <<granted, oracleCancelled>>
      BY <1>2 DEF ReleaseUnclaimed
    <2>2. QED
      BY <2>1, ReleaseStep DEF ClaimsTypeOK
  <1>3. QED
    BY <1>1, <1>2

\* revoke_grants() only removes grants.
LEMMA RevokeStep ==
    ASSUME ClaimsTypeOK, NEW rank \in Ranks, RevokeGrants(rank)
    PROVE  /\ ClaimsTypeOK'
           /\ UNCHANGED <<released, nextRank, oracleCancelled>>
           /\ \A k \in Keys : granted'[k] = granted[k] \/ granted'[k] = NoGrant
  BY DEF RevokeGrants, ClaimsTypeOK

-----------------------------------------------------------------------------
(***************************************************************************)
(* Type correctness.                                                       *)
(***************************************************************************)

\* A notify_all leaves every worker in a state it can be in.
LEMMA WakeType ==
    ASSUME NEW p \in [Workers -> WorkerStates]
    PROVE  WakeGate(p) \in [Workers -> WorkerStates] /\ WakeAdmit(p) \in [Workers -> WorkerStates]
  BY DEF WakeGate, WakeAdmit, WorkerStates

\* A group of variables that does not change keeps its type.
LEMMA UnchangedTypes ==
    ASSUME TypeOK
    PROVE  /\ UNCHANGED claimVars => ClaimsTypeOK'
           /\ UNCHANGED runnerVars => RunnerTypeOK'
           /\ UNCHANGED workerVars => WorkersTypeOK'
           /\ UNCHANGED resultVars => ResultsTypeOK'
           /\ UNCHANGED windowVars => WindowTypeOK'
           /\ UNCHANGED dbVars => DbTypeOK'
           /\ UNCHANGED envVars => EnvTypeOK'
  <1>1. UNCHANGED claimVars => ClaimsTypeOK'
    BY DEF TypeOK, ClaimsTypeOK, claimVars
  <1>2. UNCHANGED runnerVars => RunnerTypeOK'
    BY DEF TypeOK, RunnerTypeOK, runnerVars
  <1>3. UNCHANGED workerVars => WorkersTypeOK'
    BY DEF TypeOK, WorkersTypeOK, workerVars
  <1>4. UNCHANGED resultVars => ResultsTypeOK'
    BY DEF TypeOK, ResultsTypeOK, resultVars
  <1>5. UNCHANGED windowVars => WindowTypeOK'
    BY DEF TypeOK, WindowTypeOK, windowVars
  <1>6. UNCHANGED dbVars => DbTypeOK'
    BY DEF TypeOK, DbTypeOK, dbVars
  <1>7. UNCHANGED envVars => EnvTypeOK'
    BY DEF TypeOK, EnvTypeOK, envVars
  <1>8. QED
    BY <1>1, <1>2, <1>3, <1>4, <1>5, <1>6, <1>7

\* A result without a batch is well typed.
LEMMA DropType ==
    ASSUME TypeOK, NEW w \in Workers, NEW oc \in {"failed", "changed"}, Drop(w, oc)
    PROVE  ResultsTypeOK'
  BY DEF Drop, TypeOK, WorkersTypeOK, ResultsTypeOK

\* The end of an attempt leaves the worker well typed.
LEMMA AttemptType ==
    ASSUME TypeOK, NEW w \in Workers, NEW oc \in {"failed", "changed"},
           NEW p \in [Workers -> WorkerStates], UNCHANGED job,
           AttemptWithoutBatch(w, oc, p)
    PROVE  ResultsTypeOK' /\ WorkersTypeOK'
  <1>1. ResultsTypeOK'
    BY DropType DEF AttemptWithoutBatch
  <1>2. attempt' \in [Workers -> 0 .. MaxRetries]
    <2>1. MaxRetries \in Nat /\ attempt \in [Workers -> 0 .. MaxRetries]
      BY PlanAssumption DEF TypeOK, WorkersTypeOK
    <2>2. CASE RetryAllowed(w, oc)
      <3>1. attempt' = [attempt EXCEPT ![w] = @ + 1] /\ attempt[w] < MaxRetries
        BY <2>2 DEF AttemptWithoutBatch, RetryAllowed
      <3>2. QED
        BY <2>1, <3>1
    <2>3. CASE ~RetryAllowed(w, oc)
      BY <2>1, <2>3 DEF AttemptWithoutBatch
    <2>4. QED
      BY <2>2, <2>3
  <1>3. pc' \in [Workers -> WorkerStates]
    BY DEF AttemptWithoutBatch, WorkerStates
  <1>4. QED
    BY <1>1, <1>2, <1>3 DEF TypeOK, WorkersTypeOK

\* The worker's actions keep TypeOK.
LEMMA WorkerTypeOK ==
    ASSUME TypeOK, NEW w \in Workers, WorkerStep(w)
    PROVE  TypeOK'
  <1> USE UnchangedTypes
  <1>0. job[w] \in Ranks
    BY DEF TypeOK, WorkersTypeOK
  <1>1. CASE Dispatch(w)
    <2>1. CASE stopping \/ nextDispatch >= Count
      <3>1. UNCHANGED <<nextDispatch, job, attempt>> /\ pc' = [pc EXCEPT ![w] = "done"]
        BY <1>1, <2>1 DEF Dispatch
      <3>2. UNCHANGED runnerVars
        BY <1>1, <3>1 DEF Dispatch, runnerVars
      <3>3. WorkersTypeOK'
        BY <3>1 DEF TypeOK, WorkersTypeOK, WorkerStates
      <3>4. QED
        BY <1>1, <3>2, <3>3 DEF Dispatch, TypeOK
    <2>2. CASE ~(stopping \/ nextDispatch >= Count)
      <3>1. /\ job' = [job EXCEPT ![w] = nextDispatch]
            /\ nextDispatch' = nextDispatch + 1
            /\ attempt' = [attempt EXCEPT ![w] = 0]
            /\ pc' = [pc EXCEPT ![w] = "parse"]
            /\ UNCHANGED <<nextPublish, ready, bufferedBytes, stopping, status>>
        BY <1>1, <2>2 DEF Dispatch
      <3>2. nextDispatch \in Ranks
        BY <2>2, CountAssumption DEF TypeOK, RunnerTypeOK
      <3>3. RunnerTypeOK'
        BY <3>1, <3>2, CountAssumption DEF TypeOK, RunnerTypeOK
      <3>4. 0 \in 0 .. MaxRetries
        BY PlanAssumption
      <3>5. WorkersTypeOK'
        BY <3>1, <3>2, <3>4 DEF TypeOK, WorkersTypeOK, WorkerStates
      <3>6. QED
        BY <1>1, <3>3, <3>5 DEF Dispatch, TypeOK
    <2>3. QED
      BY <2>1, <2>2
  <1>2. CASE ThrowBeforeClaim(w) \/ PchPreflightFails(w)
    <2>1. ResultsTypeOK'
      BY <1>2, DropType DEF ThrowBeforeClaim, PchPreflightFails
    <2>2. WorkersTypeOK'
      BY <1>2 DEF ThrowBeforeClaim, PchPreflightFails, TypeOK, WorkersTypeOK, WorkerStates
    <2>3. QED
      BY <1>2, <2>1, <2>2 DEF ThrowBeforeClaim, PchPreflightFails, TypeOK
  <1>3. CASE FrontEndFails(w)
    <2>1. PICK oc \in {"failed", "changed"} :
             ReleaseUnclaimed(job[w]) /\ AttemptWithoutBatch(w, oc, WakeGate(pc))
      BY <1>3 DEF FrontEndFails
    <2>2. ClaimsTypeOK'
      BY <1>0, <2>1, ReleaseUnclaimedStep DEF TypeOK
    <2>3. WakeGate(pc) \in [Workers -> WorkerStates]
      BY WakeType DEF TypeOK, WorkersTypeOK
    <2>4. ResultsTypeOK' /\ WorkersTypeOK'
      BY <1>3, <2>1, <2>3, AttemptType DEF FrontEndFails
    <2>5. QED
      BY <1>3, <2>2, <2>4 DEF FrontEndFails, TypeOK
  <1>4. CASE Parse(w)
    <2>1. [k \in Keys |-> IF k \in Includes[job[w]] THEN content[k] ELSE 0] \in [Keys -> Digests]
      BY PlanAssumption DEF TypeOK, EnvTypeOK
    <2>2. ResultsTypeOK'
      BY <1>4, <2>1 DEF Parse, TypeOK, ResultsTypeOK
    <2>3. WorkersTypeOK'
      BY <1>4 DEF Parse, TypeOK, WorkersTypeOK, WorkerStates
    <2>4. QED
      BY <1>4, <2>2, <2>3 DEF Parse, TypeOK
  <1>5. CASE ClaimHeaders(w)
    <2>1. CASE ~GateOpen(job[w])
      <3>1. WorkersTypeOK'
        BY <1>5, <2>1 DEF ClaimHeaders, TypeOK, WorkersTypeOK, WorkerStates
      <3>2. UNCHANGED resultVars /\ UNCHANGED claimVars
        BY <1>5, <2>1 DEF ClaimHeaders, resultVars
      <3>3. QED
        BY <1>5, <3>1, <3>2 DEF ClaimHeaders, TypeOK
    <2>2. CASE GateOpen(job[w])
      <3> DEFINE r == job[w]
                 mine == OwnedKeys(r, Includes[r], parsed[r], AlreadyIndexed(r))
      <3>1. /\ Claim(r, Includes[r], parsed[r], AlreadyIndexed(r))
            /\ owned' = [owned EXCEPT ![r] = mine]
            /\ pc' = WakeGate([pc EXCEPT ![w] = "extract"])
            /\ UNCHANGED <<job, attempt, outcome, parsed>>
        BY <1>5, <2>2 DEF ClaimHeaders
      <3>2. Includes[r] \in SUBSET Keys /\ parsed[r] \in [Keys -> Digests]
        BY <1>0, PlanAssumption DEF TypeOK, ResultsTypeOK
      <3>3. mine \in SUBSET Keys
        BY <3>2 DEF OwnedKeys
      <3>4. ClaimsTypeOK'
        <4>1. CASE oracleCancelled
          BY <3>1, <4>1 DEF Claim, TypeOK
        <4>2. CASE ~oracleCancelled
          BY <1>0, <3>1, <3>2, <4>2, ClaimStep DEF TypeOK
        <4>3. QED
          BY <4>1, <4>2
      <3>5. ResultsTypeOK'
        BY <1>0, <3>1, <3>3 DEF TypeOK, ResultsTypeOK
      <3>6. [pc EXCEPT ![w] = "extract"] \in [Workers -> WorkerStates]
        BY DEF TypeOK, WorkersTypeOK, WorkerStates
      <3>7. WorkersTypeOK'
        BY <3>1, <3>6, WakeType DEF TypeOK, WorkersTypeOK
      <3>8. QED
        BY <1>5, <3>4, <3>5, <3>7 DEF ClaimHeaders, TypeOK
    <2>3. QED
      BY <2>1, <2>2
  <1>6. CASE ExtractOk(w)
    <2>1. ResultsTypeOK'
      BY <1>6 DEF ExtractOk, TypeOK, ResultsTypeOK
    <2>2. WorkersTypeOK'
      BY <1>6 DEF ExtractOk, TypeOK, WorkersTypeOK, WorkerStates
    <2>3. QED
      BY <1>6, <2>1, <2>2 DEF ExtractOk, TypeOK
  <1>7. CASE ExtractFails(w)
    <2>1. PICK oc \in {"failed", "changed"} : AttemptWithoutBatch(w, oc, pc)
      BY <1>7 DEF ExtractFails
    <2>2. pc \in [Workers -> WorkerStates]
      BY DEF TypeOK, WorkersTypeOK
    <2>3. ResultsTypeOK' /\ WorkersTypeOK'
      BY <1>7, <2>1, <2>2, AttemptType DEF ExtractFails
    <2>4. QED
      BY <1>7, <2>3 DEF ExtractFails, TypeOK
  <1>8. CASE Admit(w)
    <2>1. ResultBytes(job[w]) \in Int
      BY <1>0, PlanAssumption DEF ResultBytes
    <2>2. WorkersTypeOK'
      BY <1>8 DEF Admit, TypeOK, WorkersTypeOK, WorkerStates
    <2>3. RunnerTypeOK'
      <3>1. ready' \in {ready, ready \cup {job[w]}}
        BY <1>8 DEF Admit
      <3>2. bufferedBytes' \in {bufferedBytes, bufferedBytes + ResultBytes(job[w])}
        BY <1>8 DEF Admit
      <3>3. UNCHANGED <<nextDispatch, nextPublish, stopping, status>>
        BY <1>8 DEF Admit
      <3>4. QED
        BY <1>0, <2>1, <3>1, <3>2, <3>3 DEF TypeOK, RunnerTypeOK
    <2>4. ppc' \in PublisherStates
      BY <1>8 DEF Admit, WakePublisher, TypeOK, WindowTypeOK, PublisherStates
    <2>5. WindowTypeOK'
      BY <1>8, <2>4 DEF Admit, TypeOK, WindowTypeOK
    <2>6. QED
      BY <1>8, <2>2, <2>3, <2>5 DEF Admit, TypeOK
  <1>9. CASE Abandon(w)
    <2>1. ClaimsTypeOK'
      BY <1>0, <1>9, ReleaseUnclaimedStep DEF Abandon, TypeOK
    <2>2. [pc EXCEPT ![w] = "done"] \in [Workers -> WorkerStates]
      BY DEF TypeOK, WorkersTypeOK, WorkerStates
    <2>3. WorkersTypeOK'
      BY <1>9, <2>2, WakeType DEF Abandon, TypeOK, WorkersTypeOK
    <2>4. WindowTypeOK'
      BY <1>0, <1>9 DEF Abandon, TypeOK, WindowTypeOK
    <2>5. QED
      BY <1>9, <2>1, <2>3, <2>4 DEF Abandon, TypeOK
  <1>10. QED
    BY <1>1, <1>2, <1>3, <1>4, <1>5, <1>6, <1>7, <1>8, <1>9 DEF WorkerStep


\* The initial state is well typed.
LEMMA InitTypeOK == Init => TypeOK
  <1> SUFFICES ASSUME Init PROVE TypeOK
    OBVIOUS
  <1>1. 0 \in Ranks /\ 0 \in 0 .. Count
    BY CountAssumption
  <1>2. 0 \in Digests /\ 0 \in 0 .. MaxRetries
    BY PlanAssumption
  <1>3. ClaimsTypeOK
    BY <1>1 DEF Init, ClaimsInit, ClaimsTypeOK
  <1>4. RunnerTypeOK
    <2>1. /\ nextDispatch = 0 /\ nextPublish = 0 /\ ready = {} /\ bufferedBytes = 0
          /\ stopping = FALSE /\ status = "none"
      BY DEF Init
    <2>2. bufferedBytes \in Int
      BY <2>1
    <2>3. QED
      BY <1>1, <2>1, <2>2, Zenon DEF RunnerTypeOK
  <1>5. WorkersTypeOK
    BY <1>1, <1>2 DEF Init, WorkersTypeOK, WorkerStates
  <1>6. ResultsTypeOK
    BY <1>2 DEF Init, ResultsTypeOK
  <1>7. WindowTypeOK
    BY <1>1 DEF Init, WindowTypeOK, PublisherStates
  <1>8. DbTypeOK
    BY <1>2 DEF Init, DbTypeOK
  <1>9. EnvTypeOK
    BY <1>2 DEF Init, EnvTypeOK
  <1>10. QED
    BY <1>3, <1>4, <1>5, <1>6, <1>7, <1>8, <1>9 DEF TypeOK

\* The publisher's control state and progress marks are all that many of its
\* actions write.
LEMMA WindowStep ==
    ASSUME TypeOK, ppc' \in PublisherStates, windowStart' \in 0 .. Count, pos' \in 0 .. Count,
           applied' \in SUBSET Ranks, keepGoing' \in BOOLEAN,
           UNCHANGED <<windowBytes, reported, abandoned>>
    PROVE  WindowTypeOK'
  BY DEF TypeOK, WindowTypeOK

\* The publisher's actions before a window is closed keep TypeOK.
LEMMA CollectTypeOK ==
    ASSUME TypeOK, Spawn \/ SpawnFails \/ PollCancelled \/ Collect \/ CloseWindow
    PROVE  TypeOK'
  <1> USE UnchangedTypes
  <1>0. /\ windowStart \in 0 .. Count /\ pos \in 0 .. Count /\ applied \in SUBSET Ranks
        /\ keepGoing \in BOOLEAN
    BY DEF TypeOK, WindowTypeOK
  <1>1. CASE Spawn
    <2>1. WorkersTypeOK'
      BY <1>1 DEF Spawn, TypeOK, WorkersTypeOK, WorkerStates
    <2>2. ppc' \in PublisherStates
      BY <1>1 DEF Spawn, PublisherStates
    <2>3. WindowTypeOK'
      BY <1>0, <1>1, <2>2, WindowStep DEF Spawn
    <2>4. QED
      BY <1>1, <2>1, <2>3 DEF Spawn, TypeOK
  <1>2. CASE SpawnFails
    <2>1. RunnerTypeOK'
      BY <1>2 DEF SpawnFails, TypeOK, RunnerTypeOK
    <2>2. WindowTypeOK'
      BY <1>0, <1>2, WindowStep DEF SpawnFails, PublisherStates
    <2>3. QED
      BY <1>2, <2>1, <2>2 DEF SpawnFails, TypeOK
  <1>3. CASE PollCancelled
    <2>1. RunnerTypeOK'
      BY <1>3 DEF PollCancelled, TypeOK, RunnerTypeOK
    <2>2. WindowTypeOK'
      BY <1>3 DEF PollCancelled, TypeOK, WindowTypeOK, PublisherStates
    <2>3. QED
      BY <1>3, <2>1, <2>2 DEF PollCancelled, TypeOK
  <1>4. CASE Collect
    <2>1. CASE nextPublish \in ready
      <3>1. /\ ready' = ready \ {nextPublish}
            /\ bufferedBytes' = bufferedBytes - ResultBytes(nextPublish)
            /\ windowBytes' = windowBytes + ResultBytes(nextPublish)
            /\ nextPublish' = nextPublish + 1
            /\ pc' = WakeAdmit(pc)
            /\ UNCHANGED ppc
        BY <1>4, <2>1 DEF Collect
      <3>2. nextPublish \in Ranks
        BY <2>1 DEF TypeOK, RunnerTypeOK
      <3>3. ResultBytes(nextPublish) \in Int
        BY <3>2, PlanAssumption DEF ResultBytes
      <3>4. RunnerTypeOK'
        BY <1>4, <3>1, <3>2, <3>3, CountAssumption DEF Collect, TypeOK, RunnerTypeOK
      <3>5. WorkersTypeOK'
        BY <1>4, <3>1, WakeType DEF Collect, TypeOK, WorkersTypeOK
      <3>6. WindowTypeOK'
        BY <1>4, <3>1, <3>3 DEF Collect, TypeOK, WindowTypeOK
      <3>7. QED
        BY <1>4, <3>4, <3>5, <3>6 DEF Collect, TypeOK
    <2>2. CASE nextPublish \notin ready
      <3>1. ppc' = "arrive_wait" /\ UNCHANGED <<ready, bufferedBytes, windowBytes, nextPublish, pc>>
        BY <1>4, <2>2 DEF Collect
      <3>2. WindowTypeOK'
        BY <1>0, <1>4, <3>1, WindowStep DEF Collect, PublisherStates
      <3>3. UNCHANGED runnerVars /\ UNCHANGED workerVars
        BY <1>4, <3>1 DEF Collect, runnerVars, workerVars
      <3>4. QED
        BY <1>4, <3>2, <3>3 DEF Collect, TypeOK
    <2>3. QED
      BY <2>1, <2>2
  <1>5. CASE CloseWindow
    <2>1. WindowTypeOK'
      BY <1>0, <1>5, WindowStep DEF CloseWindow, PublisherStates
    <2>2. QED
      BY <1>5, <2>1 DEF CloseWindow, TypeOK
  <1>6. QED
    BY <1>1, <1>2, <1>3, <1>4, <1>5

\* A set of naturals has a least element.
LEMMA Least ==
    ASSUME NEW T, T \subseteq Nat, T # {}
    PROVE  \E x \in T : \A y \in T : x <= y
  <1> DEFINE R == {ss \in Nat \X Nat : ss[1] < ss[2]}
  <1>1. IsWellFoundedOn(R, Nat)
    BY NatLessThanWellFounded, Zenon DEF OpToRel
  <1>2. \A m, n \in Nat : m < n => <<m, n>> \in R
    OBVIOUS
  <1> HIDE DEF R
  <1>3. PICK x \in T : \A y \in T : ~(<<y, x>> \in R)
    BY <1>1, WFMin
  <1>4. ASSUME NEW y \in T PROVE x <= y
    <2>1. x \in Nat /\ y \in Nat /\ ~(y < x)
      BY <1>2, <1>3
    <2>2. QED
      BY <2>1
  <1>5. QED
    BY <1>4

\* Some ranks have a last one.
LEMMA LastRank ==
    ASSUME NEW S \in SUBSET Ranks, S # {}
    PROVE  (CHOOSE r \in S : \A s \in S : s <= r) \in S
  <1> DEFINE T == {Count - 1 - r : r \in S}
  <1>0. Count \in Int /\ \A r \in S : r \in Int /\ 0 <= r /\ r <= Count - 1
    BY CountAssumption DEF Ranks
  <1>1. T \subseteq Nat /\ T # {}
    <2>1. ASSUME NEW r \in S PROVE Count - 1 - r \in Nat
      BY <1>0
    <2>2. QED
      BY <2>1
  <1>2. PICK x \in T : \A y \in T : x <= y
    <2> HIDE DEF T
    <2>1. QED
      BY <1>1, Least
  <1>3. PICK r \in S : x = Count - 1 - r
    BY <1>2
  <1>4. ASSUME NEW s \in S PROVE s <= r
    <2>1. Count - 1 - s \in T
      OBVIOUS
    <2>2. x <= Count - 1 - s
      BY <1>2, <2>1
    <2>3. QED
      BY <1>0, <1>3, <2>2
  <1> HIDE DEF T
  <1>5. \E q \in S : \A s \in S : s <= q
    BY <1>4
  <1>6. QED
    BY <1>5

\* A header of the batches of rs gets what one of the units parsed, and any
\* other keeps its row.
LEMMA RowOf ==
    ASSUME NEW rs \in SUBSET Ranks, NEW k \in Keys
    PROVE  \/ /\ \A r \in rs : k \notin owned[r]
              /\ RowsWith(rs)[k] = row[k]
           \/ \E r \in rs : k \in owned[r] /\ RowsWith(rs)[k] = parsed[r][k]
  <1> DEFINE S == {r \in rs : k \in owned[r]}
  <1> DEFINE last == CHOOSE r \in S : \A s \in S : s <= r
  <1>1. RowsWith(rs)[k] = IF S = {} THEN row[k] ELSE parsed[last][k]
    BY DEF RowsWith
  <1>2. S # {} => last \in S
    <2>1. S \in SUBSET Ranks
      OBVIOUS
    <2> HIDE DEF S
    <2>2. QED
      BY <2>1, LastRank
  <1> HIDE DEF last
  <1>3. QED
    BY <1>1, <1>2

\* The rows a window leaves behind hold digests.
LEMMA RowsType ==
    ASSUME TypeOK, NEW rs \in SUBSET Ranks
    PROVE  RowsWith(rs) \in [Keys -> Digests \cup {NoRow}]
  <1>1. ASSUME NEW k \in Keys PROVE RowsWith(rs)[k] \in Digests \cup {NoRow}
    BY RowOf DEF TypeOK, DbTypeOK, ResultsTypeOK
  <1>2. RowsWith(rs) = [k \in Keys |-> RowsWith(rs)[k]]
    BY DEF RowsWith
  <1>3. QED
    BY <1>1, <1>2

\* Every rank of a window is the rank of a unit.
LEMMA WindowRanks ==
    ASSUME TypeOK
    PROVE  Window \subseteq Ranks /\ WriterItems \subseteq Ranks /\ Unreplayed \subseteq Ranks
  BY CountAssumption DEF Window, WriterItems, Unreplayed, TypeOK, RunnerTypeOK, WindowTypeOK

\* Publishing a window keeps TypeOK.
LEMMA PublishTypeOK ==
    ASSUME TypeOK,
           \/ ApplyWindow \/ ReplayWindow \/ RollbackFails \/ ReplayItem \/ ReplayAborts
           \/ ReplayDone \/ Settle \/ ObserverThrows \/ WindowPublished
    PROVE  TypeOK'
  <1> USE UnchangedTypes
  <1>0. /\ windowStart \in 0 .. Count /\ pos \in 0 .. Count /\ applied \in SUBSET Ranks
        /\ keepGoing \in BOOLEAN /\ nextPublish \in 0 .. Count /\ committed \in SUBSET Ranks
    BY DEF TypeOK, WindowTypeOK, RunnerTypeOK, DbTypeOK
  <1>1. CASE ApplyWindow
    <2>1. applied' \in SUBSET Ranks /\ committed' \in SUBSET Ranks
      BY <1>0, <1>1, WindowRanks DEF ApplyWindow
    <2>2. DbTypeOK'
      BY <1>1, <2>1, RowsType, WindowRanks DEF ApplyWindow, DbTypeOK
    <2>3. WindowTypeOK'
      BY <1>0, <1>1, <2>1, WindowStep DEF ApplyWindow, PublisherStates
    <2>4. QED
      BY <1>1, <2>2, <2>3 DEF ApplyWindow, TypeOK
  <1>2. CASE ReplayWindow \/ RollbackFails
    <2>1. WindowTypeOK'
      BY <1>0, <1>2, WindowStep DEF ReplayWindow, RollbackFails, PublisherStates
    <2>2. QED
      BY <1>2, <2>1 DEF ReplayWindow, RollbackFails, TypeOK
  <1>3. CASE ReplayItem
    <2>1. PICK r \in Unreplayed :
             /\ pos' = r + 1
             /\ \/ committed' = committed \cup {r} /\ row' = RowsWith({r}) /\ applied' = applied \cup {r}
                \/ UNCHANGED <<committed, row, applied>>
      BY <1>3 DEF ReplayItem
    <2>2. r \in Ranks
      BY <2>1, WindowRanks
    <2>3. pos' \in 0 .. Count /\ applied' \in SUBSET Ranks
      <3>1. pos' \in 0 .. Count
        BY <2>1, <2>2, CountAssumption
      <3>2. applied' \in SUBSET Ranks
        BY <1>0, <2>1, <2>2
      <3>3. QED
        BY <3>1, <3>2
    <2>4. DbTypeOK'
      BY <2>1, <2>2, RowsType DEF TypeOK, DbTypeOK
    <2>5. ppc' \in PublisherStates
      BY <1>3 DEF ReplayItem, TypeOK, WindowTypeOK
    <2>6. WindowTypeOK'
      BY <1>0, <1>3, <2>3, <2>5, WindowStep DEF ReplayItem
    <2>7. QED
      BY <1>3, <2>4, <2>6 DEF ReplayItem, TypeOK
  <1>4. CASE ReplayAborts \/ ReplayDone
    <2>1. WindowTypeOK'
      BY <1>0, <1>4, WindowStep DEF ReplayAborts, ReplayDone, PublisherStates
    <2>2. QED
      BY <1>4, <2>1 DEF ReplayAborts, ReplayDone, TypeOK
  <1>tell. ASSUME TellObserver
         PROVE  /\ pos \in Ranks /\ ClaimsTypeOK'
                /\ reported' \in [Ranks -> {"none", "published", "failed"}]
    <2>1. pos \in Ranks
      BY <1>0, <1>tell, CountAssumption DEF TellObserver, Ranks
    <2>2. ClaimsTypeOK'
      <3>1. CASE pos \in WriterItems \ applied
        BY <1>tell, <2>1, <3>1, RevokeStep DEF TellObserver, TypeOK
      <3>2. CASE pos \notin WriterItems \ applied
        BY <1>tell, <3>2 DEF TellObserver, TypeOK
      <3>3. QED
        BY <3>1, <3>2
    <2>3. reported' \in [Ranks -> {"none", "published", "failed"}]
      BY <1>tell, <2>1 DEF TellObserver, TypeOK, WindowTypeOK
    <2>4. QED
      BY <2>1, <2>2, <2>3
  <1>5. CASE Settle
    <2>1. pos \in Ranks /\ ClaimsTypeOK' /\ reported' \in [Ranks -> {"none", "published", "failed"}]
      BY <1>5, <1>tell DEF Settle
    <2>2. pos' \in 0 .. Count
      BY <1>5, <2>1, CountAssumption DEF Settle, Ranks
    <2>3. keepGoing' \in BOOLEAN
      BY <1>5 DEF Settle
    <2>4. WindowTypeOK'
      BY <1>5, <2>1, <2>2, <2>3 DEF Settle, TypeOK, WindowTypeOK
    <2>5. QED
      BY <1>5, <2>1, <2>4 DEF Settle, TypeOK
  <1>6. CASE ObserverThrows
    <2>1. RunnerTypeOK'
      BY <1>6 DEF ObserverThrows, TypeOK, RunnerTypeOK
    <2>2. ClaimsTypeOK' /\ reported' \in [Ranks -> {"none", "published", "failed"}]
      BY <1>6, <1>tell DEF ObserverThrows
    <2>3. WindowTypeOK'
      BY <1>0, <1>6, <2>2 DEF ObserverThrows, PublisherStates, TypeOK, WindowTypeOK
    <2>4. QED
      BY <1>6, <2>1, <2>2, <2>3 DEF ObserverThrows, TypeOK
  <1>7. CASE WindowPublished
    <2>1. RunnerTypeOK'
      BY <1>7 DEF WindowPublished, TypeOK, RunnerTypeOK
    <2>2. pc \in [Workers -> WorkerStates]
      BY DEF TypeOK, WorkersTypeOK
    <2>3. pc' \in [Workers -> WorkerStates]
      BY <1>7, <2>2, WakeType DEF WindowPublished
    <2>4. WorkersTypeOK'
      BY <1>7, <2>3 DEF WindowPublished, TypeOK, WorkersTypeOK
    <2>5. ppc' \in PublisherStates
      BY <1>7 DEF WindowPublished, PublisherStates
    <2>6. WindowTypeOK'
      BY <1>0, <1>7, <2>5, WindowStep DEF WindowPublished
    <2>7. QED
      BY <1>7, <2>1, <2>4, <2>6 DEF WindowPublished, TypeOK
  <1>8. QED
    BY <1>1, <1>2, <1>3, <1>4, <1>5, <1>6, <1>7

\* Unwinding the pool keeps TypeOK.
LEMMA UnwindTypeOK ==
    ASSUME TypeOK, StopPool \/ JoinPool \/ DrainReady \/ Drained \/ CancelAfterRun
    PROVE  TypeOK'
  <1> USE UnchangedTypes
  <1>0. /\ windowStart \in 0 .. Count /\ pos \in 0 .. Count /\ applied \in SUBSET Ranks
        /\ keepGoing \in BOOLEAN /\ pc \in [Workers -> WorkerStates]
    BY DEF TypeOK, WindowTypeOK, WorkersTypeOK
  <1>1. CASE StopPool
    <2>1. RunnerTypeOK'
      BY <1>1 DEF StopPool, TypeOK, RunnerTypeOK
    <2>2. WorkersTypeOK'
      BY <1>0, <1>1, WakeType DEF StopPool, TypeOK, WorkersTypeOK
    <2>3. WindowTypeOK'
      BY <1>0, <1>1, WindowStep DEF StopPool, PublisherStates
    <2>4. QED
      BY <1>1, <2>1, <2>2, <2>3 DEF StopPool, TypeOK
  <1>2. CASE JoinPool \/ Drained
    <2>1. ppc' \in PublisherStates
      BY <1>2 DEF JoinPool, Drained, PublisherStates
    <2>2. WindowTypeOK'
      BY <1>0, <1>2, <2>1, WindowStep DEF JoinPool, Drained
    <2>3. QED
      BY <1>2, <2>2 DEF JoinPool, Drained, TypeOK
  <1>3. CASE DrainReady
    <2>1. PICK r \in ready : /\ ReleaseUnclaimed(r)
                             /\ ready' = ready \ {r}
                             /\ abandoned' = abandoned \cup {r}
      BY <1>3 DEF DrainReady
    <2>2. r \in Ranks
      BY <2>1 DEF TypeOK, RunnerTypeOK
    <2>3. ClaimsTypeOK'
      BY <2>1, <2>2, ReleaseUnclaimedStep DEF TypeOK
    <2>4. RunnerTypeOK'
      BY <1>3, <2>1 DEF DrainReady, TypeOK, RunnerTypeOK
    <2>5. WindowTypeOK'
      BY <1>3, <2>1, <2>2 DEF DrainReady, TypeOK, WindowTypeOK
    <2>6. QED
      BY <1>3, <2>3, <2>4, <2>5 DEF DrainReady, TypeOK
  <1>4. CASE CancelAfterRun
    <2>1. ClaimsTypeOK'
      BY <1>4 DEF CancelAfterRun, CancelOracle, TypeOK, ClaimsTypeOK
    <2>2. WorkersTypeOK'
      BY <1>0, <1>4, WakeType DEF CancelAfterRun, TypeOK, WorkersTypeOK
    <2>3. WindowTypeOK'
      BY <1>0, <1>4, WindowStep DEF CancelAfterRun, PublisherStates
    <2>4. QED
      BY <1>4, <2>1, <2>2, <2>3 DEF CancelAfterRun, TypeOK
  <1>5. QED
    BY <1>1, <1>2, <1>3, <1>4

\* Every step keeps TypeOK.
LEMMA NextTypeOK == TypeOK /\ [Next]_vars => TypeOK'
  <1> SUFFICES ASSUME TypeOK, [Next]_vars PROVE TypeOK'
    OBVIOUS
  <1>1. CASE \E w \in Workers : WorkerStep(w)
    BY <1>1, WorkerTypeOK
  <1>2. CASE PublisherStep
    BY <1>2, CollectTypeOK, PublishTypeOK, UnwindTypeOK DEF PublisherStep
  <1>3. CASE RequestCancel
    <2>1. EnvTypeOK'
      BY <1>3 DEF RequestCancel, TypeOK, EnvTypeOK
    <2>2. QED
      BY <1>3, <2>1, UnchangedTypes DEF RequestCancel, TypeOK
  <1>4. CASE EditHeader
    <2>1. PICK k \in Keys : content[k] < MaxEdits /\ content' = [content EXCEPT ![k] = @ + 1]
      BY <1>4 DEF EditHeader
    <2>2. Digests = 0 .. MaxEdits /\ MaxEdits \in Nat
      BY PlanAssumption
    <2>3. content[k] \in 0 .. MaxEdits
      BY <2>2 DEF TypeOK, EnvTypeOK
    <2>4. content[k] + 1 \in Digests
      BY <2>1, <2>2, <2>3
    <2>5. EnvTypeOK'
      BY <1>4, <2>1, <2>4 DEF EditHeader, TypeOK, EnvTypeOK
    <2>6. QED
      BY <1>4, <2>5, UnchangedTypes DEF EditHeader, TypeOK
  <1>5. CASE UNCHANGED vars
    BY <1>5, UnchangedTypes DEF vars, TypeOK
  <1>6. QED
    BY <1>1, <1>2, <1>3, <1>4, <1>5 DEF Next, Returned

\* Type correctness of the parallel run: every counter, rank, thread state and
\* buffer stays in its range whatever the interleaving and the faults.
THEOREM TypeCorrect == Spec => []TypeOK
  BY InitTypeOK, NextTypeOK, PTL DEF Spec

-----------------------------------------------------------------------------
(***************************************************************************)
(* The ordered gate.                                                       *)
(***************************************************************************)

\* The last element of a nonempty interval.
LEMMA LastOfInterval ==
    ASSUME NEW a \in Int, NEW b \in Int, a < b
    PROVE  b - 1 \in a .. (b - 1)
  OBVIOUS

\* A step keeps GateInv when it dispatches nothing, starts no worker on a
\* rank, and passes or records at the gate only dispatched ranks R that no
\* worker has yet to claim for.
LEMMA GateStep ==
    ASSUME TypeOK, TypeOK', GateInv,
           UNCHANGED <<nextDispatch, job>>,
           NEW R \in SUBSET Ranks,
           \A r \in R : r < nextDispatch,
           \A r \in R, v \in Workers : BeforeFirstClaim(v)' => job[v] # r,
           released' \subseteq released \cup R,
           \A r \in ready' : r < nextDispatch,
           nextRank <= nextRank',
           \A n \in nextRank .. (nextRank' - 1) : n \in released \cup R,
           \A k \in Keys : \/ granted'[k] = granted[k]
                           \/ granted'[k] = NoGrant
                           \/ granted'[k].owner < nextRank',
           \A v \in Workers : Busy(v)' => Busy(v),
           \A v \in Workers : BeforeFirstClaim(v)' => BeforeFirstClaim(v),
           JoinedQuiet'
    PROVE  GateInv'
  <1>0. /\ nextRank \in Int /\ nextRank' \in Int /\ nextDispatch \in Int
        /\ released \in SUBSET Int /\ released' \in SUBSET Int
        /\ \A v \in Workers : job[v] \in Int
    BY CountAssumption DEF TypeOK, ClaimsTypeOK, RunnerTypeOK, WorkersTypeOK
  <1>1. JobsDistinct'
    BY DEF GateInv, JobsDistinct
  <1>2. GateBehindDispatch'
    <2>1. \A r \in (released \cup ready)' : r < nextDispatch
      BY DEF GateInv, GateBehindDispatch
    <2>2. nextRank' <= nextDispatch
      <3>1. CASE nextRank' = nextRank
        BY <3>1 DEF GateInv, GateBehindDispatch
      <3>2. CASE nextRank' # nextRank
        <4>0. nextRank < nextRank'
          BY <1>0, <3>2
        <4>1. nextRank' - 1 \in nextRank .. (nextRank' - 1)
          BY <1>0, <4>0, LastOfInterval
        <4>2. nextRank' - 1 \in released \cup R
          BY <4>1
        <4>3. nextRank' - 1 < nextDispatch
          BY <4>2 DEF GateInv, GateBehindDispatch
        <4>4. QED
          BY <1>0, <4>3
      <3>3. QED
        BY <3>1, <3>2
    <2>3. QED
      BY <2>1, <2>2 DEF GateBehindDispatch
  <1>3. UnclaimedAhead'
    <2> SUFFICES ASSUME NEW v \in Workers, BeforeFirstClaim(v)'
                 PROVE  nextRank' <= job[v] /\ job[v] \notin released'
      BY DEF UnclaimedAhead
    <2>1. nextRank <= job[v] /\ job[v] \notin released \cup R
      BY DEF GateInv, UnclaimedAhead
    <2>2. job[v] \notin nextRank .. (nextRank' - 1)
      BY <2>1
    <2>3. QED
      BY <1>0, <2>1, <2>2
  <1>4. GrantsThrough'
    <2> SUFFICES ASSUME NEW k \in Keys, granted'[k] # NoGrant
                 PROVE  granted'[k].owner < nextRank'
      BY DEF GrantsThrough
    <2>1. CASE granted'[k] = granted[k]
      <3>1. granted[k].owner < nextRank
        BY <2>1 DEF GateInv, GrantsThrough
      <3>2. granted[k].owner \in Int
        BY <2>1 DEF TypeOK, ClaimsTypeOK
      <3>3. QED
        BY <1>0, <2>1, <3>1, <3>2
    <2>2. QED
      BY <2>1
  <1>5. QED
    BY <1>1, <1>2, <1>3, <1>4 DEF GateInv

\* A step that leaves the oracle alone.
LEMMA GateQuietStep ==
    ASSUME TypeOK, TypeOK', GateInv,
           UNCHANGED <<nextDispatch, job>>, UNCHANGED claimVars,
           \A r \in ready' : r < nextDispatch,
           \A v \in Workers : Busy(v)' => Busy(v),
           \A v \in Workers : BeforeFirstClaim(v)' => BeforeFirstClaim(v),
           JoinedQuiet'
    PROVE  GateInv'
  <1>1. UNCHANGED <<granted, released, nextRank, oracleCancelled>>
    BY DEF claimVars
  <1>2. nextRank \in Int
    BY DEF TypeOK, ClaimsTypeOK
  <1> DEFINE R == {}
  <1>3. nextRank <= nextRank' /\ \A n \in nextRank .. (nextRank' - 1) : n \in released \cup R
    BY <1>1, <1>2
  <1>4. R \in SUBSET Ranks /\ released' \subseteq released \cup R
    BY <1>1
  <1>5. /\ \A r \in R : r < nextDispatch
        /\ \A r \in R, v \in Workers : BeforeFirstClaim(v)' => job[v] # r
    OBVIOUS
  <1>6. \A k \in Keys : granted'[k] = granted[k]
    BY <1>1
  <1> HIDE DEF R
  <1>7. QED
    BY <1>3, <1>4, <1>5, <1>6, GateStep

\* While a worker has something to do, the pool is not joined and the oracle
\* is not cancelled.
LEMMA BusyNotJoined ==
    ASSUME GateInv, NEW w \in Workers, pc[w] \notin {"unborn", "done"}
    PROVE  ~Joined /\ ~oracleCancelled
  BY DEF GateInv, JoinedQuiet, Joined

\* A notify_all only turns waiters of one condition variable into runnable
\* workers at the same point of worker_body.
LEMMA WakeKeeps ==
    ASSUME NEW p \in [Workers -> WorkerStates], NEW v \in Workers
    PROVE  /\ WakeGate(p)[v] \in {p[v], "gate"} /\ (WakeGate(p)[v] # p[v] => p[v] = "gate_wait")
           /\ WakeAdmit(p)[v] \in {p[v], "admit"} /\ (WakeAdmit(p)[v] # p[v] => p[v] = "admit_wait")
  BY DEF WakeGate, WakeAdmit

\* Dispatch hands out a rank the gate has not reached.
LEMMA DispatchGate ==
    ASSUME TypeOK, TypeOK', GateInv, NEW w \in Workers, Dispatch(w)
    PROVE  GateInv'
  <1>0. /\ nextDispatch \in Int /\ nextRank \in Int
        /\ pc \in [Workers -> WorkerStates] /\ job \in [Workers -> Ranks]
        /\ \A v \in Workers : job[v] \in Int
    BY DEF TypeOK, RunnerTypeOK, ClaimsTypeOK, WorkersTypeOK
  <1>1. UNCHANGED <<granted, released, nextRank, oracleCancelled, ready, ppc>>
    BY DEF Dispatch, claimVars, windowVars
  <1>2. ~Joined /\ ~oracleCancelled
    BY BusyNotJoined DEF Dispatch
  <1>3. JoinedQuiet'
    BY <1>1, <1>2 DEF JoinedQuiet, Joined
  <1>4. CASE stopping \/ nextDispatch >= Count
    <2>1. UNCHANGED <<nextDispatch, job, attempt>> /\ pc' = [pc EXCEPT ![w] = "done"]
      BY <1>4 DEF Dispatch
    <2>2. \A v \in Workers : /\ Busy(v)' => Busy(v)
                             /\ BeforeFirstClaim(v)' => BeforeFirstClaim(v)
      BY <1>0, <2>1 DEF Busy, BeforeFirstClaim
    <2>3. \A r \in ready' : r < nextDispatch
      BY <1>1 DEF GateInv, GateBehindDispatch
    <2>4. QED
      BY <1>3, <2>1, <2>2, <2>3, GateQuietStep DEF Dispatch
  <1>5. CASE ~(stopping \/ nextDispatch >= Count)
    <2>1. /\ job' = [job EXCEPT ![w] = nextDispatch]
          /\ nextDispatch' = nextDispatch + 1
          /\ attempt' = [attempt EXCEPT ![w] = 0]
          /\ pc' = [pc EXCEPT ![w] = "parse"]
      BY <1>5 DEF Dispatch
    <2>2. /\ job'[w] = nextDispatch
          /\ \A v \in Workers \ {w} : /\ job'[v] = job[v]
                                      /\ Busy(v)' <=> Busy(v)
                                      /\ BeforeFirstClaim(v)' <=> BeforeFirstClaim(v)
      <3>1. \A v \in Workers \ {w} : job'[v] = job[v] /\ pc'[v] = pc[v] /\ attempt'[v] = attempt[v]
        BY <1>0, <2>1 DEF TypeOK, WorkersTypeOK
      <3>2. job'[w] = nextDispatch
        BY <1>0, <2>1
      <3>3. QED
        BY <3>1, <3>2 DEF Busy, BeforeFirstClaim
    <2>3. JobsDistinct'
      <3>1. \A v \in Workers \ {w} : Busy(v)' => job'[v] < nextDispatch
        BY <2>2 DEF GateInv, JobsDistinct
      <3>2. \A v \in Workers : Busy(v)' => job'[v] < nextDispatch'
        BY <1>0, <2>1, <2>2, <3>1
      <3>3. \A u, v \in Workers : u # v /\ Busy(u)' /\ Busy(v)' => job'[u] # job'[v]
        BY <1>0, <2>2, <3>1 DEF GateInv, JobsDistinct
      <3>4. QED
        BY <3>2, <3>3 DEF JobsDistinct
    <2>4. GateBehindDispatch'
      <3>1. (released \cup ready) \in SUBSET Int
        BY DEF TypeOK, ClaimsTypeOK, RunnerTypeOK
      <3>2. QED
        BY <1>0, <1>1, <2>1, <3>1 DEF GateInv, GateBehindDispatch
    <2>5. UnclaimedAhead'
      <3>1. nextRank <= nextDispatch /\ nextDispatch \notin released
        BY <1>0 DEF GateInv, GateBehindDispatch
      <3>2. QED
        BY <1>1, <2>2, <3>1 DEF GateInv, UnclaimedAhead
    <2>6. GrantsThrough'
      BY <1>1 DEF GateInv, GrantsThrough
    <2>7. QED
      BY <1>3, <2>3, <2>4, <2>5, <2>6 DEF GateInv
  <1>6. QED
    BY <1>4, <1>5

\* A worker's step without a dispatch: what it needs to keep GateInv.  At most
\* its own rank is passed or recorded at the gate, and it does not go back to
\* a first claim.
LEMMA WorkerGate ==
    ASSUME TypeOK, TypeOK', GateInv, NEW w \in Workers,
           Busy(w), ~BeforeFirstClaim(w)' \/ (BeforeFirstClaim(w) /\ UNCHANGED claimVars),
           UNCHANGED <<nextDispatch, job>>,
           \A v \in Workers \ {w} : /\ pc'[v] \in {pc[v], WakeGate(pc)[v]}
                                    /\ attempt'[v] = attempt[v],
           released' \subseteq released \cup {job[w]},
           nextRank <= nextRank',
           \A n \in nextRank .. (nextRank' - 1) : n \in released \cup {job[w]},
           oracleCancelled' = oracleCancelled,
           \A k \in Keys : \/ granted'[k] = granted[k]
                           \/ granted'[k].owner = job[w] /\ job[w] < nextRank',
           ready' \subseteq ready \cup {job[w]},
           ppc' \in {ppc, "collect"}
    PROVE  GateInv'
  <1>0. job[w] \in Ranks
    BY DEF TypeOK, WorkersTypeOK
  <1>1. ~Joined /\ ~oracleCancelled
    BY BusyNotJoined DEF Busy
  <1>2. JoinedQuiet'
    BY <1>1 DEF JoinedQuiet, Joined
  <1>3. job[w] < nextDispatch
    BY DEF GateInv, JobsDistinct
  <1>4. \A r \in ready' : r < nextDispatch
    BY <1>3 DEF GateInv, GateBehindDispatch
  <1>5. \A v \in Workers \ {w} : /\ Busy(v)' => Busy(v)
                                 /\ BeforeFirstClaim(v)' => BeforeFirstClaim(v)
    BY WakeKeeps DEF TypeOK, WorkersTypeOK, Busy, BeforeFirstClaim
  <1>6. \A v \in Workers : Busy(v)' => Busy(v)
    BY <1>5
  <1>7. \A v \in Workers \ {w} : BeforeFirstClaim(v)' => job[v] # job[w]
    BY <1>5 DEF GateInv, JobsDistinct, BeforeFirstClaim, Busy
  <1>8. CASE ~BeforeFirstClaim(w)'
    <2>1. \A r \in {job[w]}, v \in Workers : BeforeFirstClaim(v)' => job[v] # r
      BY <1>7, <1>8
    <2>2. \A v \in Workers : BeforeFirstClaim(v)' => BeforeFirstClaim(v)
      BY <1>5, <1>8
    <2>3. \A r \in {job[w]} : r < nextDispatch
      BY <1>3
    <2>4. {job[w]} \in SUBSET Ranks
      BY <1>0
    <2>5. \A k \in Keys : \/ granted'[k] = granted[k]
                          \/ granted'[k] = NoGrant
                          \/ granted'[k].owner < nextRank'
      OBVIOUS
    <2>6. QED
      BY <1>2, <1>4, <1>6, <2>1, <2>2, <2>3, <2>4, <2>5, GateStep
  <1>9. CASE BeforeFirstClaim(w) /\ UNCHANGED claimVars
    <2>1. \A v \in Workers : BeforeFirstClaim(v)' => BeforeFirstClaim(v)
      BY <1>5, <1>9
    <2>2. QED
      BY <1>2, <1>4, <1>6, <1>9, <2>1, GateQuietStep
  <1>10. QED
    BY <1>8, <1>9

\* The same for a worker's step that leaves the oracle alone.
LEMMA WorkerQuiet ==
    ASSUME TypeOK, TypeOK', GateInv, NEW w \in Workers,
           Busy(w), ~BeforeFirstClaim(w)' \/ BeforeFirstClaim(w),
           UNCHANGED <<nextDispatch, job>>, UNCHANGED claimVars,
           \A v \in Workers \ {w} : pc'[v] = pc[v] /\ attempt'[v] = attempt[v],
           ready' \subseteq ready \cup {job[w]},
           ppc' \in {ppc, "collect"}
    PROVE  GateInv'
  <1>1. /\ released' = released /\ nextRank' = nextRank /\ granted' = granted
        /\ oracleCancelled' = oracleCancelled /\ nextRank \in Int
    BY DEF claimVars, TypeOK, ClaimsTypeOK
  <1>3. released' \subseteq released \cup {job[w]} /\ nextRank <= nextRank'
    BY <1>1
  <1>4. \A n \in nextRank .. (nextRank' - 1) : n \in released \cup {job[w]}
    BY <1>1
  <1>5. \A k \in Keys : granted'[k] = granted[k]
    BY <1>1
  <1>6. QED
    BY <1>1, <1>3, <1>4, <1>5, WorkerGate

\* Every action of a worker keeps GateInv.
LEMMA WorkerGateInv ==
    ASSUME TypeOK, TypeOK', GateInv, NEW w \in Workers, WorkerStep(w)
    PROVE  GateInv'
  <1>0. /\ pc \in [Workers -> WorkerStates] /\ job[w] \in Ranks
        /\ attempt \in [Workers -> 0 .. MaxRetries] /\ MaxRetries \in Nat
    BY PlanAssumption DEF TypeOK, WorkersTypeOK
  <1>1. CASE Dispatch(w)
    BY <1>1, DispatchGate
  <1>2. CASE ThrowBeforeClaim(w) \/ PchPreflightFails(w) \/ Parse(w) \/ ExtractOk(w)
    <2>1. /\ UNCHANGED <<nextDispatch, job, attempt, ready, ppc>> /\ UNCHANGED claimVars
          /\ pc[w] \in {"parse", "extract"}
          /\ \/ pc' = [pc EXCEPT ![w] = "admit"]
             \/ pc[w] = "parse" /\ pc' = [pc EXCEPT ![w] = "gate"]
      BY <1>2 DEF ThrowBeforeClaim, PchPreflightFails, Parse, ExtractOk, runnerVars, windowVars
    <2>2. Busy(w) /\ (~BeforeFirstClaim(w)' \/ BeforeFirstClaim(w))
      BY <1>0, <2>1 DEF Busy, BeforeFirstClaim
    <2>3. \A v \in Workers \ {w} : pc'[v] = pc[v] /\ attempt'[v] = attempt[v]
      BY <1>0, <2>1
    <2>4. QED
      BY <2>1, <2>2, <2>3, WorkerQuiet
  <1>3. CASE FrontEndFails(w)
    <2>1. PICK oc \in {"failed", "changed"} :
             ReleaseUnclaimed(job[w]) /\ AttemptWithoutBatch(w, oc, WakeGate(pc))
      BY <1>3 DEF FrontEndFails
    <2>2. UNCHANGED <<nextDispatch, job, ready, ppc>> /\ pc[w] = "parse"
      BY <1>3 DEF FrontEndFails, runnerVars, windowVars
    <2>3. /\ released' \subseteq released \cup {job[w]}
          /\ nextRank <= nextRank' /\ granted' = granted /\ oracleCancelled' = oracleCancelled
          /\ \A n \in nextRank .. (nextRank' - 1) : n \in released \cup {job[w]}
      BY <1>0, <2>1, ReleaseUnclaimedStep DEF TypeOK
    <2>4. WakeGate(pc) \in [Workers -> WorkerStates]
      BY <1>0, WakeType
    <2>5. /\ pc'[w] \in {"admit", "parse"}
          /\ pc'[w] = "parse" => attempt'[w] # 0
          /\ \A v \in Workers \ {w} : pc'[v] = WakeGate(pc)[v] /\ attempt'[v] = attempt[v]
      BY <1>0, <2>1, <2>4 DEF AttemptWithoutBatch
    <2>8. Busy(w) /\ ~BeforeFirstClaim(w)'
      BY <2>2, <2>5 DEF Busy, BeforeFirstClaim
    <2>9. \A k \in Keys : granted'[k] = granted[k]
      BY <2>3
    <2>10. QED
      BY <2>2, <2>3, <2>5, <2>8, <2>9, WorkerGate
  <1>4. CASE ClaimHeaders(w)
    <2>0. ~oracleCancelled /\ Busy(w)
      BY <1>4, BusyNotJoined DEF ClaimHeaders, Busy
    <2>1. UNCHANGED <<nextDispatch, job, attempt, ready, ppc>> /\ pc[w] = "gate"
      BY <1>4 DEF ClaimHeaders, runnerVars, windowVars
    <2>2. CASE ~GateOpen(job[w])
      <3>1. UNCHANGED claimVars /\ pc' = [pc EXCEPT ![w] = "gate_wait"]
        BY <1>4, <2>2 DEF ClaimHeaders
      <3>2. BeforeFirstClaim(w)' => BeforeFirstClaim(w)
        BY <2>1 DEF BeforeFirstClaim
      <3>3. \A v \in Workers \ {w} : pc'[v] = pc[v] /\ attempt'[v] = attempt[v]
        BY <1>0, <2>1, <3>1
      <3>4. QED
        BY <2>0, <2>1, <3>1, <3>2, <3>3, WorkerQuiet
    <2>3. CASE GateOpen(job[w])
      <3> DEFINE r == job[w]
                 p == [pc EXCEPT ![w] = "extract"]
      <3>1. Claim(r, Includes[r], parsed[r], AlreadyIndexed(r)) /\ pc' = WakeGate(p)
        BY <1>4, <2>3 DEF ClaimHeaders
      <3>2. Includes[r] \in SUBSET Keys /\ parsed[r] \in [Keys -> Digests]
        BY <1>0, PlanAssumption DEF TypeOK, ResultsTypeOK
      <3>3. /\ Release(r) /\ oracleCancelled' = oracleCancelled
            /\ \A k \in Keys : granted'[k] = granted[k] \/ granted'[k].owner = r
        BY <1>0, <2>0, <3>1, <3>2, ClaimStep DEF TypeOK
      <3>4. /\ nextRank <= nextRank' /\ released' \subseteq released \cup {r}
            /\ \A n \in nextRank .. (nextRank' - 1) : n \in released \cup {r}
            /\ nextRank >= r => nextRank' > r
        BY <1>0, <3>3, ReleaseStep DEF TypeOK, ClaimsTypeOK
      <3>5. nextRank >= r
        BY <2>0, <2>3 DEF GateOpen
      <3>6. r < nextRank'
        <4>1. r \in Int /\ nextRank' \in Int
          BY <1>0 DEF TypeOK, ClaimsTypeOK
        <4>2. QED
          BY <3>4, <3>5, <4>1
      <3>7. pc'[w] = "extract" /\ \A v \in Workers \ {w} : pc'[v] = WakeGate(pc)[v]
        BY <1>0, <3>1 DEF WakeGate
      <3>8. ~BeforeFirstClaim(w)'
        BY <3>7 DEF BeforeFirstClaim
      <3>9. \A v \in Workers \ {w} : attempt'[v] = attempt[v]
        BY <2>1
      <3>10. \A k \in Keys : \/ granted'[k] = granted[k]
                             \/ granted'[k].owner = job[w] /\ job[w] < nextRank'
        BY <3>3, <3>6
      <3>11. QED
        BY <2>0, <2>1, <3>3, <3>4, <3>7, <3>8, <3>9, <3>10, WorkerGate
    <2>4. QED
      BY <2>2, <2>3
  <1>5. CASE ExtractFails(w)
    <2>1. PICK oc \in {"failed", "changed"} : AttemptWithoutBatch(w, oc, pc)
      BY <1>5 DEF ExtractFails
    <2>2. UNCHANGED <<nextDispatch, job, ready, ppc>> /\ UNCHANGED claimVars /\ pc[w] = "extract"
      BY <1>5 DEF ExtractFails, runnerVars, windowVars
    <2>3. /\ pc'[w] \in {"admit", "parse"}
          /\ pc'[w] = "parse" => attempt'[w] # 0
          /\ \A v \in Workers \ {w} : pc'[v] = pc[v] /\ attempt'[v] = attempt[v]
      BY <1>0, <2>1 DEF AttemptWithoutBatch
    <2>4. Busy(w) /\ ~BeforeFirstClaim(w)'
      BY <2>2, <2>3 DEF Busy, BeforeFirstClaim
    <2>5. QED
      BY <2>2, <2>3, <2>4, WorkerQuiet
  <1>6. CASE Admit(w)
    <2>1. /\ UNCHANGED <<nextDispatch, job, attempt>> /\ UNCHANGED claimVars /\ pc[w] = "admit"
          /\ ready' \subseteq ready \cup {job[w]} /\ ppc' \in {ppc, "collect"}
          /\ \E st \in {"admit_wait", "abandon", "dispatch"} : pc' = [pc EXCEPT ![w] = st]
      BY <1>6 DEF Admit, WakePublisher
    <2>2. Busy(w) /\ ~BeforeFirstClaim(w)'
      BY <1>0, <2>1 DEF Busy, BeforeFirstClaim
    <2>3. \A v \in Workers \ {w} : pc'[v] = pc[v] /\ attempt'[v] = attempt[v]
      BY <1>0, <2>1
    <2>4. QED
      BY <2>1, <2>2, <2>3, WorkerQuiet
  <1>7. CASE Abandon(w)
    <2> DEFINE p == [pc EXCEPT ![w] = "done"]
    <2>1. /\ UNCHANGED <<nextDispatch, job, attempt, ready, ppc>> /\ pc[w] = "abandon"
          /\ ReleaseUnclaimed(job[w]) /\ pc' = WakeGate(p)
      BY <1>7 DEF Abandon, runnerVars
    <2>2. /\ released' \subseteq released \cup {job[w]}
          /\ nextRank <= nextRank' /\ granted' = granted /\ oracleCancelled' = oracleCancelled
          /\ \A n \in nextRank .. (nextRank' - 1) : n \in released \cup {job[w]}
      BY <1>0, <2>1, ReleaseUnclaimedStep DEF TypeOK
    <2>3. /\ pc'[w] = "done"
          /\ \A v \in Workers \ {w} : pc'[v] = WakeGate(pc)[v] /\ attempt'[v] = attempt[v]
      BY <1>0, <2>1 DEF WakeGate
    <2>4. Busy(w) /\ ~BeforeFirstClaim(w)'
      BY <2>1, <2>3 DEF Busy, BeforeFirstClaim
    <2>5. \A k \in Keys : granted'[k] = granted[k]
      BY <2>2
    <2>6. QED
      BY <2>1, <2>2, <2>3, <2>4, <2>5, WorkerGate
  <1>8. QED
    BY <1>1, <1>2, <1>3, <1>4, <1>5, <1>6, <1>7 DEF WorkerStep

\* A publisher's step that leaves the oracle and the ranks of the workers
\* alone: it may wake workers, and it joins the pool only when all have ended.
LEMMA PublisherQuiet ==
    ASSUME TypeOK, TypeOK', GateInv,
           UNCHANGED <<nextDispatch, job, attempt>>, UNCHANGED claimVars,
           ready' \subseteq ready,
           pc' \in {pc, WakeAdmit(pc), WakeGate(pc)},
           Joined' => Joined \/ \A w \in Workers : pc[w] \in {"unborn", "done"},
           ~oracleCancelled
    PROVE  GateInv'
  <1>1. \A v \in Workers : /\ pc'[v] \in {pc[v], "admit", "gate"}
                           /\ pc'[v] = "admit" => pc[v] \in {"admit", "admit_wait"}
                           /\ pc'[v] = "gate" => pc[v] \in {"gate", "gate_wait"}
                           /\ pc[v] \in {"unborn", "done"} => pc'[v] = pc[v]
    BY WakeKeeps DEF TypeOK, WorkersTypeOK
  <1>2. \A v \in Workers : /\ Busy(v)' => Busy(v)
                           /\ BeforeFirstClaim(v)' => BeforeFirstClaim(v)
    BY <1>1 DEF Busy, BeforeFirstClaim
  <1>3. ~oracleCancelled'
    BY DEF claimVars
  <1>4. JoinedQuiet'
    BY <1>1, <1>3 DEF GateInv, JoinedQuiet
  <1>5. \A r \in ready' : r < nextDispatch
    BY DEF GateInv, GateBehindDispatch
  <1>6. QED
    BY <1>2, <1>4, <1>5, GateQuietStep

\* Every action of the publisher keeps GateInv.
LEMMA PublisherGateInv ==
    ASSUME TypeOK, TypeOK', GateInv, PublisherStep
    PROVE  GateInv'
  <1>0. pc \in [Workers -> WorkerStates] /\ nextRank \in Int
    BY DEF TypeOK, WorkersTypeOK, ClaimsTypeOK
  <1>1. ppc # "done"
    BY DEF PublisherStep, Spawn, SpawnFails, PollCancelled, Collect, CloseWindow, ApplyWindow,
           ReplayWindow, RollbackFails, ReplayItem, ReplayAborts, ReplayDone, Settle, ObserverThrows,
           TellObserver, WindowPublished, StopPool, JoinPool, DrainReady, Drained, CancelAfterRun
  <1>2. ~oracleCancelled
    BY <1>1 DEF GateInv, JoinedQuiet
  <1>3. CASE Spawn
    <2>1. PICK w \in Workers : pc[w] = "unborn" /\ pc' = [pc EXCEPT ![w] = "dispatch"]
      BY <1>3 DEF Spawn
    <2>2. /\ UNCHANGED <<nextDispatch, job, attempt, ready>> /\ UNCHANGED claimVars
          /\ ppc' \in {"top", "spawn"}
      BY <1>3 DEF Spawn, runnerVars
    <2>3. \A v \in Workers : /\ Busy(v)' => Busy(v)
                             /\ BeforeFirstClaim(v)' => BeforeFirstClaim(v)
      BY <1>0, <2>1, <2>2 DEF Busy, BeforeFirstClaim
    <2>4. JoinedQuiet'
      BY <1>2, <2>2 DEF JoinedQuiet, Joined, claimVars
    <2>5. \A r \in ready' : r < nextDispatch
      BY <2>2 DEF GateInv, GateBehindDispatch
    <2>6. QED
      BY <2>2, <2>3, <2>4, <2>5, GateQuietStep
  <1>4. CASE SpawnFails \/ PollCancelled \/ Collect \/ CloseWindow
    <2>1. /\ UNCHANGED <<nextDispatch, job, attempt>> /\ UNCHANGED claimVars
          /\ ready' \subseteq ready /\ pc' \in {pc, WakeAdmit(pc)}
      BY <1>4 DEF SpawnFails, PollCancelled, Collect, CloseWindow, runnerVars, workerVars
    <2>2. ~Joined'
      BY <1>4 DEF SpawnFails, PollCancelled, Collect, CloseWindow, Joined
    <2>3. QED
      BY <1>2, <2>1, <2>2, PublisherQuiet
  <1>5. CASE ApplyWindow \/ ReplayWindow \/ RollbackFails \/ ReplayItem \/ ReplayAborts \/ ReplayDone
    <2>1. /\ UNCHANGED <<nextDispatch, job, attempt, ready, pc>> /\ UNCHANGED claimVars
      BY <1>5 DEF ApplyWindow, ReplayWindow, RollbackFails, ReplayItem, ReplayAborts, ReplayDone,
                  runnerVars, workerVars
    <2>2. ~Joined'
      BY <1>5 DEF ApplyWindow, ReplayWindow, RollbackFails, ReplayItem, ReplayAborts, ReplayDone,
                  Joined
    <2>3. QED
      BY <1>2, <2>1, <2>2, PublisherQuiet
  <1>6. CASE Settle \/ ObserverThrows
    <2>0. TellObserver
      BY <1>6 DEF Settle, ObserverThrows
    <2>1. UNCHANGED <<nextDispatch, job, attempt, ready, pc>> /\ pos < nextPublish
      BY <1>6 DEF Settle, ObserverThrows, TellObserver, runnerVars, workerVars
    <2>2. ~Joined'
      BY <1>6 DEF Settle, ObserverThrows, TellObserver, Joined
    <2>3. CASE pos \in WriterItems \ applied
      <3>1. RevokeGrants(pos) /\ pos \in Ranks
        BY <2>0, <2>3, WindowRanks DEF TellObserver
      <3>2. /\ UNCHANGED <<released, nextRank, oracleCancelled>>
            /\ \A k \in Keys : granted'[k] = granted[k] \/ granted'[k] = NoGrant
        BY <3>1, RevokeStep DEF TypeOK
      <3>3. JoinedQuiet'
        BY <1>2, <2>2, <3>2 DEF JoinedQuiet
      <3>4. \A v \in Workers : /\ Busy(v)' => Busy(v)
                               /\ BeforeFirstClaim(v)' => BeforeFirstClaim(v)
        BY <2>1 DEF Busy, BeforeFirstClaim
      <3>5. \A r \in ready' : r < nextDispatch
        BY <2>1 DEF GateInv, GateBehindDispatch
      <3> DEFINE R == {}
      <3>6. /\ nextRank <= nextRank' /\ released' \subseteq released \cup R /\ R \in SUBSET Ranks
            /\ \A n \in nextRank .. (nextRank' - 1) : n \in released \cup R
            /\ \A r \in R : r < nextDispatch
            /\ \A r \in R, v \in Workers : BeforeFirstClaim(v)' => job[v] # r
        BY <1>0, <3>2
      <3> HIDE DEF R
      <3>7. QED
        BY <2>1, <3>2, <3>3, <3>4, <3>5, <3>6, GateStep
    <2>4. CASE pos \notin WriterItems \ applied
      <3>1. UNCHANGED claimVars
        BY <2>0, <2>4 DEF TellObserver
      <3>2. QED
        BY <1>2, <2>1, <2>2, <3>1, PublisherQuiet
    <2>5. QED
      BY <2>3, <2>4
  <1>7. CASE WindowPublished \/ StopPool
    <2>1. /\ UNCHANGED <<nextDispatch, job, attempt, ready>> /\ UNCHANGED claimVars
          /\ pc' \in {pc, WakeAdmit(pc)}
      BY <1>7 DEF WindowPublished, StopPool, workerVars
    <2>2. ~Joined'
      BY <1>7 DEF WindowPublished, StopPool, Joined
    <2>3. QED
      BY <1>2, <2>1, <2>2, PublisherQuiet
  <1>8. CASE JoinPool \/ Drained
    <2>1. UNCHANGED <<nextDispatch, job, attempt, ready, pc>> /\ UNCHANGED claimVars
      BY <1>8 DEF JoinPool, Drained, runnerVars, workerVars
    <2>2. Joined \/ \A w \in Workers : pc[w] \in {"unborn", "done"}
      BY <1>8 DEF JoinPool, Drained, Joined
    <2>3. QED
      BY <1>2, <2>1, <2>2, PublisherQuiet
  <1>9. CASE DrainReady
    <2>1. PICK r \in ready : ReleaseUnclaimed(r) /\ ready' = ready \ {r}
      BY <1>9 DEF DrainReady
    <2>2. r \in Ranks /\ r < nextDispatch
      BY <2>1 DEF TypeOK, RunnerTypeOK, GateInv, GateBehindDispatch
    <2>3. UNCHANGED <<nextDispatch, job, attempt, pc, ppc>> /\ ppc = "drain"
      BY <1>9 DEF DrainReady, workerVars
    <2>4. \A v \in Workers : pc[v] \in {"unborn", "done"}
      BY <2>3 DEF GateInv, JoinedQuiet, Joined
    <2>5. \A v \in Workers : ~Busy(v)' /\ ~BeforeFirstClaim(v)'
      BY <2>3, <2>4 DEF Busy, BeforeFirstClaim
    <2>6. /\ released' \subseteq released \cup {r}
          /\ nextRank <= nextRank' /\ granted' = granted /\ oracleCancelled' = oracleCancelled
          /\ \A n \in nextRank .. (nextRank' - 1) : n \in released \cup {r}
      BY <2>1, <2>2, ReleaseUnclaimedStep DEF TypeOK
    <2>7. JoinedQuiet'
      BY <1>2, <2>3, <2>4, <2>6 DEF JoinedQuiet
    <2>8. \A s \in ready' : s < nextDispatch
      BY <2>1 DEF GateInv, GateBehindDispatch
    <2>9. {r} \in SUBSET Ranks /\ \A s \in {r} : s < nextDispatch
      BY <2>2
    <2>10. \A k \in Keys : granted'[k] = granted[k]
      BY <2>6
    <2>11. QED
      BY <2>3, <2>5, <2>6, <2>7, <2>8, <2>9, <2>10, GateStep
  <1>10. CASE CancelAfterRun
    <2>1. /\ UNCHANGED <<nextDispatch, job, attempt, ready, granted, released, nextRank>>
          /\ pc' = WakeGate(pc) /\ ppc' = "done" /\ ppc = "cancel_oracle"
      BY <1>10 DEF CancelAfterRun, CancelOracle, runnerVars
    <2>2. \A v \in Workers : pc[v] \in {"unborn", "done"}
      BY <2>1 DEF GateInv, JoinedQuiet, Joined
    <2>3. \A v \in Workers : pc'[v] \in {"unborn", "done"}
      BY <1>0, <2>1, <2>2 DEF WakeGate
    <2>4. \A v \in Workers : ~Busy(v)' /\ ~BeforeFirstClaim(v)'
      BY <2>3 DEF Busy, BeforeFirstClaim
    <2>5. JobsDistinct' /\ UnclaimedAhead'
      BY <2>4 DEF JobsDistinct, UnclaimedAhead
    <2>6. GateBehindDispatch' /\ GrantsThrough'
      BY <2>1 DEF GateInv, GateBehindDispatch, GrantsThrough
    <2>7. JoinedQuiet'
      BY <2>1, <2>3 DEF JoinedQuiet
    <2>8. QED
      BY <2>5, <2>6, <2>7 DEF GateInv
  <1>11. QED
    BY <1>3, <1>4, <1>5, <1>6, <1>7, <1>8, <1>9, <1>10 DEF PublisherStep

\* Initially nothing is dispatched, granted or released.
LEMMA InitGateInv == Init => GateInv
  <1> SUFFICES ASSUME Init PROVE GateInv
    OBVIOUS
  <1>1. \A w \in Workers : ~Busy(w) /\ ~BeforeFirstClaim(w)
    BY DEF Init, Busy, BeforeFirstClaim
  <1>2. /\ released = {} /\ ready = {} /\ nextRank = 0 /\ nextDispatch = 0
        /\ oracleCancelled = FALSE /\ ppc = "spawn"
        /\ \A k \in Keys : granted[k] = NoGrant
    BY DEF Init, ClaimsInit
  <1>3. JobsDistinct /\ UnclaimedAhead
    BY <1>1 DEF JobsDistinct, UnclaimedAhead
  <1>4. GateBehindDispatch /\ GrantsThrough /\ JoinedQuiet
    BY <1>2 DEF GateBehindDispatch, GrantsThrough, JoinedQuiet, Joined
  <1>5. QED
    BY <1>3, <1>4 DEF GateInv

\* Every step keeps GateInv.
LEMMA NextGateInv == TypeOK /\ TypeOK' /\ GateInv /\ [Next]_vars => GateInv'
  <1> SUFFICES ASSUME TypeOK, TypeOK', GateInv, [Next]_vars PROVE GateInv'
    OBVIOUS
  <1>1. CASE \E w \in Workers : WorkerStep(w)
    BY <1>1, WorkerGateInv
  <1>2. CASE PublisherStep
    BY <1>2, PublisherGateInv
  <1>3. CASE RequestCancel \/ EditHeader \/ UNCHANGED vars
    <2>1. /\ UNCHANGED claimVars
          /\ UNCHANGED <<nextDispatch, job, attempt, pc, ready, ppc>>
      BY <1>3 DEF RequestCancel, EditHeader, vars, runnerVars, workerVars, windowVars
    <2>2. \A v \in Workers : /\ Busy(v)' => Busy(v)
                             /\ BeforeFirstClaim(v)' => BeforeFirstClaim(v)
      BY <2>1 DEF Busy, BeforeFirstClaim
    <2>3. JoinedQuiet'
      BY <2>1 DEF GateInv, JoinedQuiet, Joined, claimVars
    <2>4. \A r \in ready' : r < nextDispatch
      BY <2>1 DEF GateInv, GateBehindDispatch
    <2>5. QED
      BY <2>1, <2>2, <2>3, <2>4, GateQuietStep
  <1>4. QED
    BY <1>1, <1>2, <1>3 DEF Next, Returned

\* What the gate invariant is for.
LEMMA GateOrdersClaims == TypeOK /\ GateInv => NoOvertaking
  <1> SUFFICES ASSUME TypeOK, GateInv,
                      NEW w \in Workers, BeforeFirstClaim(w),
                      NEW k \in Keys, granted[k] # NoGrant
               PROVE  granted[k].owner < job[w]
    BY DEF NoOvertaking
  <1>1. granted[k].owner < nextRank /\ nextRank <= job[w]
    BY DEF GateInv, GrantsThrough, UnclaimedAhead
  <1>2. granted[k].owner \in Int /\ nextRank \in Int /\ job[w] \in Int
    BY DEF TypeOK, ClaimsTypeOK, WorkersTypeOK
  <1>3. QED
    BY <1>1, <1>2

\* The ordered gate: in every run, whatever fails, no unit is granted a header
\* while a lower-ranked unit has still to make its first claim.
THEOREM OrderedClaims == Spec => []NoOvertaking
  <1>1. Init => TypeOK /\ GateInv
    BY InitTypeOK, InitGateInv
  <1>2. (TypeOK /\ GateInv) /\ [Next]_vars => (TypeOK /\ GateInv)'
    BY NextTypeOK, NextGateInv
  <1>3. TypeOK /\ GateInv => NoOvertaking
    BY GateOrdersClaims
  <1>4. QED
    BY <1>1, <1>2, <1>3, PTL DEF Spec

=============================================================================
