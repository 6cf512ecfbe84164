--------------------- MODULE ParallelPublicationProofs ---------------------
(***************************************************************************)
(* More proofs about ParallelIndex: what becomes of every rank, the order  *)
(* of persistence, what the observer is told, the budgets of the reorder   *)
(* buffer, which unit extracts a header, what its row records, and that a  *)
(* parallel run implements the serial one.                                 *)
(***************************************************************************)
EXTENDS ParallelIndexProofs, FiniteSetTheorems

USE DEF Ranks

-----------------------------------------------------------------------------
(***************************************************************************)
(* The inductive invariant, beside TypeOK and GateInv.                     *)
(***************************************************************************)

\* A dispatched rank is in one place: collected by the publisher, in the
\* reorder buffer, abandoned, or in the hands of one worker.
Places ==
  /\ windowStart <= nextPublish /\ nextPublish <= nextDispatch
  /\ \A r \in ready \cup abandoned : nextPublish <= r /\ r < nextDispatch
  /\ ready \cap abandoned = {}
  /\ \A w \in Workers : Busy(w) => nextPublish <= job[w] /\ job[w] \notin ready \cup abandoned
  /\ \A r \in Ranks : nextPublish <= r /\ r < nextDispatch =>
       r \in ready \cup abandoned \/ \E w \in Workers : Busy(w) /\ job[w] = r

\* The publisher holds a window only inside its loop.
InWindow == {"collect", "arrive_wait", "apply", "replay", "settle"}
Ending == {"guard", "join", "drain", "cancel_oracle", "done"}

\* How far the publisher has come, and how its loop was left.
Stages ==
  /\ ppc \notin InWindow => windowStart = nextPublish
  /\ ppc = "apply" => pos = windowStart
  /\ ppc \in {"replay", "settle"} => windowStart <= pos /\ pos <= nextPublish
  /\ status # "none" => ppc \in Ending
  /\ ppc \in Ending /\ status = "none" => nextPublish = Count
  /\ ppc \in {"cancel_oracle", "done"} /\ status # "exception" => ready = {}

\* The ranks the observer has been told about.
Told(r) == r < windowStart \/ (ppc = "settle" /\ r < pos)

Reports ==
  /\ \A r \in Ranks : reported[r] # "none" => Told(r)
  /\ status # "exception" => \A r \in Ranks : Told(r) => reported[r] # "none"

\* Every rank below this one has been decided by the writer.
Decided == IF ppc = "settle" THEN nextPublish ELSE IF ppc = "replay" THEN pos ELSE windowStart

\* What the database holds is behind the writer.
Behind == \A r \in committed : r < Decided

\* The writer's results for the window in hand.
Results ==
  /\ applied \subseteq committed
  /\ ppc = "apply" => applied = {}
  /\ "begin" \notin Faults =>
       /\ \A r \in committed : r < windowStart \/ (ppc \in {"replay", "settle"} /\ r \in applied)
       /\ ReportMatchesCommit

\* A header that nobody edited is granted to the unit that extracts it.
Granted ==
  /\ \A r \in Ranks, k \in Keys : parsed[r][k] <= content[k]
  /\ \A k \in Keys : granted[k] # NoGrant => granted[k].md5 <= content[k]
  /\ \A r \in Ranks : reported[r] # "failed" =>
       \A k \in owned[r] : content[k] = 0 => granted[k] # NoGrant /\ granted[k].owner = r

\* Every header a published unit extracted has a row.
Recorded == \A r \in committed : \A k \in owned[r] : row[k] # NoRow

PubInv == Places /\ Stages /\ Reports /\ Behind /\ Results /\ Recorded

-----------------------------------------------------------------------------
(***************************************************************************)
(* Workers.                                                                *)
(***************************************************************************)

\* Ranks and positions are integers.
LEMMA Numbers ==
    ASSUME TypeOK
    PROVE  /\ nextDispatch \in Int /\ nextPublish \in Int /\ windowStart \in Int /\ pos \in Int
           /\ nextPublish <= Count /\ Count \in Int
           /\ ready \in SUBSET Int /\ abandoned \in SUBSET Int /\ committed \in SUBSET Int
           /\ applied \in SUBSET Int
           /\ \A w \in Workers : job[w] \in Int /\ job[w] \in Ranks
           /\ \A r \in Ranks : r \in Int /\ 0 <= r /\ r < Count
  <1>1. Count \in Int /\ \A r \in Ranks : r \in Int /\ 0 <= r /\ r < Count
    BY CountAssumption
  <1>2. nextDispatch \in Int /\ nextPublish \in Int /\ nextPublish <= Count
    BY <1>1 DEF TypeOK, RunnerTypeOK
  <1>3. windowStart \in Int /\ pos \in Int
    BY <1>1 DEF TypeOK, WindowTypeOK
  <1>4. ready \in SUBSET Int /\ abandoned \in SUBSET Int /\ committed \in SUBSET Int
        /\ applied \in SUBSET Int
    BY <1>1 DEF TypeOK, RunnerTypeOK, WindowTypeOK, DbTypeOK
  <1>5. \A w \in Workers : job[w] \in Int /\ job[w] \in Ranks
    BY <1>1 DEF TypeOK, WorkersTypeOK
  <1>6. QED
    BY <1>1, <1>2, <1>3, <1>4, <1>5

\* A notify_all ends no worker's turn and starts none.
LEMMA WakeBusy ==
    ASSUME NEW p \in [Workers -> WorkerStates], NEW v \in Workers
    PROVE  /\ (WakeGate(p)[v] \in {"unborn", "dispatch", "done"}) <=>
                 (p[v] \in {"unborn", "dispatch", "done"})
           /\ (WakeAdmit(p)[v] \in {"unborn", "dispatch", "done"}) <=>
                 (p[v] \in {"unborn", "dispatch", "done"})
  BY DEF WakeGate, WakeAdmit

\* The steps of a worker inside its turn.
Inner(w) ==
  \/ ThrowBeforeClaim(w) \/ PchPreflightFails(w) \/ FrontEndFails(w) \/ Parse(w)
  \/ ClaimHeaders(w) \/ ExtractOk(w) \/ ExtractFails(w)

\* Inside its turn a worker changes only what belongs to the rank it holds.
LEMMA InnerStep ==
    ASSUME TypeOK, NEW w \in Workers, Inner(w)
    PROVE  /\ UNCHANGED <<runnerVars, job, windowVars, dbVars, envVars>>
           /\ Busy(w)
           /\ \A v \in Workers : Busy(v)' <=> Busy(v)
           /\ \A r \in Ranks \ {job[w]} :
                parsed'[r] = parsed[r] /\ owned'[r] = owned[r] /\ outcome'[r] = outcome[r]
  <1>0. /\ pc \in [Workers -> WorkerStates] /\ job[w] \in Ranks
        /\ outcome \in [Ranks -> {"none", "ok", "failed", "changed"}]
        /\ parsed \in [Ranks -> [Keys -> Digests]]
        /\ owned \in [Ranks -> SUBSET Keys]
    BY DEF TypeOK, WorkersTypeOK, ResultsTypeOK
  <1>1. CASE ThrowBeforeClaim(w) \/ PchPreflightFails(w)
    BY <1>0, <1>1 DEF ThrowBeforeClaim, PchPreflightFails, Drop, Busy
  <1>2. CASE FrontEndFails(w)
    <2>1. PICK oc \in {"failed", "changed"} : AttemptWithoutBatch(w, oc, WakeGate(pc))
      BY <1>2 DEF FrontEndFails
    <2>2. /\ UNCHANGED <<runnerVars, job, windowVars, dbVars, envVars>>
          /\ Busy(w)
      BY <1>2 DEF FrontEndFails, Busy
    <2>3. WakeGate(pc) \in [Workers -> WorkerStates]
      BY <1>0, WakeType
    <2>4. \A v \in Workers \ {w} : pc'[v] = WakeGate(pc)[v]
      BY <2>1, <2>3 DEF AttemptWithoutBatch
    <2>5. pc'[w] \in {"parse", "admit"}
      BY <2>1, <2>3 DEF AttemptWithoutBatch
    <2>6. \A v \in Workers : Busy(v)' <=> Busy(v)
      BY <1>0, <2>2, <2>4, <2>5, WakeBusy DEF Busy
    <2>7. QED
      BY <1>0, <2>1, <2>2, <2>6 DEF AttemptWithoutBatch, Drop
  <1>3. CASE Parse(w)
    BY <1>0, <1>3 DEF Parse, Busy
  <1>4. CASE ClaimHeaders(w)
    <2>1. /\ UNCHANGED <<runnerVars, job, outcome, parsed, windowVars, dbVars, envVars>>
          /\ Busy(w)
          /\ \A r \in Ranks \ {job[w]} : owned'[r] = owned[r]
      BY <1>0, <1>4 DEF ClaimHeaders, Busy
    <2>2. \/ pc' = [pc EXCEPT ![w] = "gate_wait"]
          \/ pc' = WakeGate([pc EXCEPT ![w] = "extract"])
      BY <1>4 DEF ClaimHeaders
    <2>3. \A v \in Workers : Busy(v)' <=> Busy(v)
      <3>1. CASE pc' = [pc EXCEPT ![w] = "gate_wait"]
        BY <1>0, <2>1, <3>1 DEF Busy
      <3>2. CASE pc' = WakeGate([pc EXCEPT ![w] = "extract"])
        BY <1>0, <2>1, <3>2 DEF Busy, WakeGate
      <3>3. QED
        BY <2>2, <3>1, <3>2
    <2>4. QED
      BY <2>1, <2>3
  <1>5. CASE ExtractOk(w)
    BY <1>0, <1>5 DEF ExtractOk, Busy
  <1>6. CASE ExtractFails(w)
    <2>1. PICK oc \in {"failed", "changed"} : AttemptWithoutBatch(w, oc, pc)
      BY <1>6 DEF ExtractFails
    <2>2. /\ UNCHANGED <<runnerVars, job, windowVars, dbVars, envVars>>
          /\ Busy(w)
      BY <1>6 DEF ExtractFails, Busy
    <2>3. \A v \in Workers : Busy(v)' <=> Busy(v)
      BY <1>0, <2>1, <2>2 DEF AttemptWithoutBatch, Busy
    <2>4. QED
      BY <1>0, <2>1, <2>2, <2>3 DEF AttemptWithoutBatch, Drop
  <1>7. QED
    BY <1>1, <1>2, <1>3, <1>4, <1>5, <1>6 DEF Inner

\* The steps at the ends of a worker's turn leave what it extracted alone.
LEMMA TurnStep ==
    ASSUME TypeOK, GateInv, NEW w \in Workers, Dispatch(w) \/ Admit(w) \/ Abandon(w)
    PROVE  /\ UNCHANGED <<nextPublish, status, resultVars, windowStart, pos, applied, reported,
                          dbVars, envVars>>
           /\ ppc' = ppc \/ (ppc = "arrive_wait" /\ ppc' = "collect")
           /\ ~Joined
  <1>1. pc[w] \notin {"unborn", "done"}
    BY DEF Dispatch, Admit, Abandon
  <1>2. ~Joined
    BY <1>1, BusyNotJoined
  <1>3. CASE Dispatch(w)
    BY <1>2, <1>3 DEF Dispatch, windowVars
  <1>4. CASE Admit(w)
    BY <1>2, <1>4 DEF Admit, WakePublisher
  <1>5. CASE Abandon(w)
    BY <1>2, <1>5 DEF Abandon, runnerVars
  <1>6. QED
    BY <1>3, <1>4, <1>5

\* A worker takes the next rank, keeps its rank, or hands it on.
LEMMA WorkerPlaces ==
    ASSUME TypeOK, GateInv, Places, NEW w \in Workers, WorkerStep(w)
    PROVE  Places'
  <1> USE Numbers
  <1>0. pc \in [Workers -> WorkerStates] /\ job \in [Workers -> Ranks]
    BY DEF TypeOK, WorkersTypeOK
  <1>1. CASE Inner(w)
    <2>1. /\ UNCHANGED <<nextDispatch, nextPublish, windowStart, ready, abandoned, job>>
          /\ \A v \in Workers : Busy(v)' <=> Busy(v)
      BY <1>1, InnerStep DEF runnerVars, windowVars
    <2>2. QED
      BY <2>1 DEF Places
  <1>2. CASE Dispatch(w)
    <2>1. UNCHANGED <<nextPublish, windowStart, ready, abandoned>> /\ ~Busy(w)
      BY <1>2 DEF Dispatch, windowVars, Busy
    <2>2. CASE stopping \/ nextDispatch >= Count
      <3>1. UNCHANGED <<nextDispatch, job>> /\ \A v \in Workers : Busy(v)' <=> Busy(v)
        BY <1>0, <1>2, <2>1, <2>2 DEF Dispatch, Busy
      <3>2. QED
        BY <2>1, <3>1 DEF Places
    <2>3. CASE ~(stopping \/ nextDispatch >= Count)
      <3>1. /\ nextDispatch' = nextDispatch + 1 /\ job' = [job EXCEPT ![w] = nextDispatch]
            /\ pc' = [pc EXCEPT ![w] = "parse"]
        BY <1>2, <2>3 DEF Dispatch
      <3>2. /\ Busy(w)' /\ job'[w] = nextDispatch
            /\ \A v \in Workers \ {w} : (Busy(v)' <=> Busy(v)) /\ job'[v] = job[v]
        BY <1>0, <3>1 DEF Busy
      <3>3. windowStart' <= nextPublish' /\ nextPublish' <= nextDispatch'
        BY <2>1, <3>1 DEF Places
      <3>4. \A r \in (ready \cup abandoned)' : nextPublish' <= r /\ r < nextDispatch'
        BY <2>1, <3>1 DEF Places
      <3>5. \A v \in Workers : Busy(v)' => nextPublish' <= job'[v] /\ job'[v] \notin (ready \cup abandoned)'
        <4>1. nextDispatch \notin ready \cup abandoned /\ nextPublish <= nextDispatch
          BY DEF Places
        <4>2. QED
          BY <2>1, <3>2, <4>1 DEF Places
      <3>6. \A r \in Ranks : nextPublish' <= r /\ r < nextDispatch' =>
              r \in (ready \cup abandoned)' \/ \E v \in Workers : Busy(v)' /\ job'[v] = r
        <4> SUFFICES ASSUME NEW r \in Ranks, nextPublish <= r, r < nextDispatch + 1,
                            r \notin ready \cup abandoned
                     PROVE  \E v \in Workers : Busy(v)' /\ job'[v] = r
          BY <2>1, <3>1
        <4>1. CASE r = nextDispatch
          BY <3>2, <4>1
        <4>2. CASE r # nextDispatch
          <5>1. r < nextDispatch
            BY <4>2
          <5>2. PICK v \in Workers : Busy(v) /\ job[v] = r
            BY <5>1 DEF Places
          <5>3. v # w
            BY <2>1, <5>2
          <5>4. QED
            BY <3>2, <5>2, <5>3
        <4>3. QED
          BY <4>1, <4>2
      <3>7. QED
        BY <2>1, <3>3, <3>4, <3>5, <3>6 DEF Places
    <2>4. QED
      BY <2>2, <2>3
  <1>3. ASSUME UNCHANGED <<nextPublish, nextDispatch, windowStart, job>>,
               Busy(w), ~Busy(w)',
               \A v \in Workers \ {w} : Busy(v)' <=> Busy(v),
               \/ ready' = ready \cup {job[w]} /\ abandoned' = abandoned
               \/ abandoned' = abandoned \cup {job[w]} /\ ready' = ready
        PROVE  Places'
    <2>1. /\ nextPublish <= job[w] /\ job[w] < nextDispatch
          /\ job[w] \notin ready \cup abandoned
      BY <1>3 DEF Places, GateInv, JobsDistinct
    <2>2. \A r \in (ready \cup abandoned)' : nextPublish' <= r /\ r < nextDispatch'
      BY <1>3, <2>1 DEF Places
    <2>3. (ready \cap abandoned)' = {}
      BY <1>3, <2>1 DEF Places
    <2>4. ASSUME NEW v \in Workers, Busy(v)'
          PROVE  nextPublish' <= job'[v] /\ job'[v] \notin (ready \cup abandoned)'
      <3>1. v # w /\ Busy(v)
        BY <1>3, <2>4
      <3>2. job[v] # job[w]
        BY <1>3, <3>1 DEF GateInv, JobsDistinct
      <3>3. QED
        BY <1>3, <3>1, <3>2 DEF Places
    <2>5. ASSUME NEW r \in Ranks, nextPublish' <= r, r < nextDispatch',
                 r \notin (ready \cup abandoned)'
          PROVE  \E v \in Workers : Busy(v)' /\ job'[v] = r
      <3>1. r \notin ready \cup abandoned /\ r # job[w]
        BY <1>3, <2>5
      <3>2. PICK v \in Workers : Busy(v) /\ job[v] = r
        BY <1>3, <2>5, <3>1 DEF Places
      <3>3. QED
        BY <1>3, <3>1, <3>2
    <2>6. QED
      BY <1>3, <2>2, <2>3, <2>4, <2>5 DEF Places
  <1>4. CASE Admit(w)
    <2>1. UNCHANGED <<nextPublish, nextDispatch, windowStart, job, abandoned>> /\ Busy(w)
      BY <1>4 DEF Admit, Busy
    <2>2. CASE ~MayAdmit(job[w]) \/ stopping
      <3>1. ready' = ready /\ \A v \in Workers : Busy(v)' <=> Busy(v)
        BY <1>0, <1>4, <2>2 DEF Admit, Busy
      <3>2. QED
        BY <2>1, <3>1 DEF Places
    <2>3. CASE ~(~MayAdmit(job[w]) \/ stopping)
      <3>1. ready' = ready \cup {job[w]} /\ pc' = [pc EXCEPT ![w] = "dispatch"]
        BY <1>4, <2>3 DEF Admit
      <3>2. ~Busy(w)' /\ \A v \in Workers \ {w} : Busy(v)' <=> Busy(v)
        BY <1>0, <3>1 DEF Busy
      <3>3. QED
        BY <1>3, <2>1, <3>1, <3>2
    <2>4. QED
      BY <2>2, <2>3
  <1>5. CASE Abandon(w)
    <2>1. /\ UNCHANGED <<nextPublish, nextDispatch, windowStart, job, ready>> /\ Busy(w)
          /\ abandoned' = abandoned \cup {job[w]}
          /\ pc' = WakeGate([pc EXCEPT ![w] = "done"])
      BY <1>5 DEF Abandon, Busy, runnerVars
    <2>2. ~Busy(w)' /\ \A v \in Workers \ {w} : Busy(v)' <=> Busy(v)
      BY <1>0, <2>1 DEF Busy, WakeGate
    <2>3. QED
      BY <1>3, <2>1, <2>2
  <1>6. QED
    BY <1>1, <1>2, <1>4, <1>5 DEF WorkerStep, Inner

\* Whatever the database holds is behind the ranks the workers have.
LEMMA BehindWorkers ==
    ASSUME TypeOK, Places, Stages, Behind, NEW r \in committed
    PROVE  r < nextPublish /\ \A w \in Workers : Busy(w) => job[w] # r
  <1>1. Decided <= nextPublish /\ Decided \in Int
    BY Numbers DEF Decided, Places, Stages
  <1>2. r < nextPublish
    BY <1>1, Numbers DEF Behind
  <1>3. QED
    BY <1>2, Numbers DEF Places

\* A step that leaves the publisher's progress, the database and what the
\* published units extracted alone.
LEMMA PublisherAside ==
    ASSUME PubInv,
           UNCHANGED <<nextPublish, status, windowStart, pos, applied, reported, dbVars>>,
           ppc' = ppc \/ (ppc = "arrive_wait" /\ ppc' = "collect"),
           ready' = ready \/ ~Joined,
           \A r \in committed : parsed'[r] = parsed[r] /\ owned'[r] = owned[r]
    PROVE  Stages' /\ Reports' /\ Behind' /\ Results' /\ Recorded'
  <1>0. UNCHANGED <<committed, row>>
    BY DEF dbVars
  <1>1. Stages'
    BY DEF PubInv, Stages, InWindow, Ending, Joined
  <1>2. \A r \in Ranks : Told(r)' <=> Told(r)
    BY DEF Told
  <1>3. Reports'
    BY <1>2 DEF PubInv, Reports
  <1>4. Decided' = Decided
    BY DEF Decided
  <1>5. Behind'
    BY <1>0, <1>4 DEF PubInv, Behind
  <1>6. ReportMatchesCommit => ReportMatchesCommit'
    BY <1>0 DEF ReportMatchesCommit
  <1>7. Results'
    BY <1>0, <1>6 DEF PubInv, Results
  <1>8. ASSUME NEW k \in Keys PROVE {r \in committed : k \in owned[r]}' = {r \in committed : k \in owned[r]}
    BY <1>0
  <1>9. Recorded'
    BY <1>0, <1>8 DEF PubInv, Recorded
  <1>10. QED
    BY <1>1, <1>3, <1>5, <1>7, <1>9

\* The steps of the workers keep PubInv.
LEMMA WorkerPubInv ==
    ASSUME TypeOK, GateInv, PubInv, NEW w \in Workers, WorkerStep(w)
    PROVE  PubInv'
  <1>1. Places'
    BY WorkerPlaces DEF PubInv
  <1>2. CASE Inner(w)
    <2>1. /\ UNCHANGED <<runnerVars, job, windowVars, dbVars, envVars>>
          /\ Busy(w)
          /\ \A r \in Ranks \ {job[w]} : parsed'[r] = parsed[r] /\ owned'[r] = owned[r]
      BY <1>2, InnerStep
    <2>2. \A r \in committed : r \in Ranks \ {job[w]}
      BY <2>1, BehindWorkers DEF PubInv, TypeOK, DbTypeOK
    <2>3. UNCHANGED <<nextPublish, status, windowStart, pos, applied, reported, dbVars, ppc, ready>>
      BY <2>1 DEF runnerVars, windowVars
    <2>4. QED
      BY <1>1, <2>1, <2>2, <2>3, PublisherAside DEF PubInv
  <1>3. CASE Dispatch(w) \/ Admit(w) \/ Abandon(w)
    <2>1. /\ UNCHANGED <<nextPublish, status, resultVars, windowStart, pos, applied, reported,
                         dbVars, envVars>>
          /\ ppc' = ppc \/ (ppc = "arrive_wait" /\ ppc' = "collect")
          /\ ~Joined
      BY <1>3, TurnStep
    <2>2. \A r \in committed : parsed'[r] = parsed[r] /\ owned'[r] = owned[r]
      BY <2>1 DEF resultVars
    <2>3. QED
      BY <1>1, <2>1, <2>2, PublisherAside DEF PubInv
  <1>4. QED
    BY <1>2, <1>3 DEF WorkerStep, Inner

-----------------------------------------------------------------------------
(***************************************************************************)
(* The publisher.                                                          *)
(***************************************************************************)

\* A step of the publisher that moves no rank.
LEMMA PlacesStay ==
    ASSUME TypeOK, Places,
           UNCHANGED <<nextPublish, nextDispatch, ready, abandoned, job>>,
           windowStart' <= nextPublish,
           \/ UNCHANGED pc
           \/ pc' = WakeAdmit(pc)
           \/ pc' = WakeGate(pc)
           \/ \E w \in Workers : pc[w] = "unborn" /\ pc' = [pc EXCEPT ![w] = "dispatch"]
    PROVE  Places'
  <1>0. pc \in [Workers -> WorkerStates]
    BY DEF TypeOK, WorkersTypeOK
  <1>1. \A v \in Workers : Busy(v)' <=> Busy(v)
    <2>1. CASE UNCHANGED pc
      BY <2>1 DEF Busy
    <2>2. CASE pc' = WakeAdmit(pc)
      BY <1>0, <2>2 DEF Busy, WakeAdmit
    <2>3. CASE pc' = WakeGate(pc)
      BY <1>0, <2>3 DEF Busy, WakeGate
    <2>4. CASE \E w \in Workers : pc[w] = "unborn" /\ pc' = [pc EXCEPT ![w] = "dispatch"]
      BY <1>0, <2>4 DEF Busy
    <2>5. QED
      BY <2>1, <2>2, <2>3, <2>4
  <1>2. QED
    BY <1>1 DEF Places

\* A step of the publisher outside its window, or into or out of an empty one.
LEMMA OutsideSteps ==
    ASSUME TypeOK, GateInv, PubInv,
           \/ Spawn \/ SpawnFails \/ PollCancelled \/ StopPool \/ JoinPool
           \/ Drained \/ CancelAfterRun
    PROVE  PubInv'
  <1> USE Numbers
  <1>1. /\ UNCHANGED <<nextPublish, nextDispatch, ready, abandoned, job, windowStart, pos,
                       applied, reported, resultVars, dbVars>>
        /\ ppc \notin InWindow /\ ppc # "settle" /\ ppc # "replay"
    BY DEF Spawn, SpawnFails, PollCancelled, StopPool, JoinPool, Drained, CancelAfterRun,
         runnerVars, workerVars, InWindow
  <1>2. \/ UNCHANGED pc
        \/ pc' = WakeAdmit(pc)
        \/ pc' = WakeGate(pc)
        \/ \E w \in Workers : pc[w] = "unborn" /\ pc' = [pc EXCEPT ![w] = "dispatch"]
    BY DEF Spawn, SpawnFails, PollCancelled, StopPool, JoinPool, Drained, CancelAfterRun,
         workerVars
  <1>3. Places'
    BY <1>1, <1>2, PlacesStay DEF PubInv, Places
  <1>4. /\ ppc' \notin {"apply", "replay", "settle"}
        /\ status' # "exception" => status # "exception"
        /\ status' # "none" => ppc' \in Ending
        /\ ppc' \in Ending /\ status' = "none" => ppc \in Ending /\ status = "none"
        /\ ppc' \in {"cancel_oracle", "done"} /\ status' # "exception" => ready = {}
    BY DEF PubInv, Stages, Spawn, SpawnFails, PollCancelled, StopPool, JoinPool, Drained,
         CancelAfterRun, runnerVars, Ending
  <1>5. Stages'
    BY <1>1, <1>4 DEF PubInv, Stages
  <1>6. \A r \in Ranks : Told(r)' <=> Told(r)
    BY <1>1, <1>4 DEF Told
  <1>7. Reports'
    BY <1>1, <1>4, <1>6 DEF PubInv, Reports
  <1>8. Decided' = Decided
    BY <1>1, <1>4 DEF Decided
  <1>9. UNCHANGED <<committed, row, parsed, owned>>
    BY <1>1 DEF dbVars, resultVars
  <1>10. Behind'
    BY <1>8, <1>9 DEF PubInv, Behind
  <1>11. ReportMatchesCommit => ReportMatchesCommit'
    BY <1>1, <1>9 DEF ReportMatchesCommit
  <1>12. Results'
    BY <1>1, <1>4, <1>9, <1>11 DEF PubInv, Results
  <1>13. Recorded'
    BY <1>9 DEF PubInv, Recorded
  <1>14. QED
    BY <1>3, <1>5, <1>7, <1>10, <1>12, <1>13 DEF PubInv

\* The publisher moves the next rank from the buffer to its window, or sleeps.
LEMMA CollectStep ==
    ASSUME TypeOK, GateInv, PubInv, Collect
    PROVE  PubInv'
  <1> USE Numbers
  <1>0. pc \in [Workers -> WorkerStates]
    BY DEF TypeOK, WorkersTypeOK
  <1>1. /\ UNCHANGED <<nextDispatch, status, job, windowStart, pos, applied, reported, abandoned,
                       committed, row, parsed, owned>>
        /\ ppc = "collect" /\ ppc' \in {"collect", "arrive_wait"}
    BY DEF Collect, resultVars, dbVars
  <1>2. Places'
    <2>1. CASE nextPublish \in ready
      <3>1. /\ nextPublish' = nextPublish + 1 /\ ready' = ready \ {nextPublish}
            /\ pc' = WakeAdmit(pc)
        BY <2>1 DEF Collect
      <3>2. \A v \in Workers : Busy(v)' <=> Busy(v)
        BY <1>0, <3>1 DEF Busy, WakeAdmit
      <3>3. nextPublish < nextDispatch /\ nextPublish \notin abandoned
        BY <2>1 DEF PubInv, Places
      <3>4. \A w \in Workers : Busy(w) => job[w] # nextPublish
        BY <2>1 DEF PubInv, Places
      <3>5. windowStart' <= nextPublish' /\ nextPublish' <= nextDispatch'
        BY <1>1, <3>1, <3>3 DEF PubInv, Places
      <3>6. \A r \in (ready \cup abandoned)' : nextPublish' <= r /\ r < nextDispatch'
        BY <1>1, <3>1, <3>3 DEF PubInv, Places
      <3>7. (ready \cap abandoned)' = {}
        BY <1>1, <3>1 DEF PubInv, Places
      <3>8. \A w \in Workers : Busy(w)' =>
              nextPublish' <= job'[w] /\ job'[w] \notin (ready \cup abandoned)'
        BY <1>1, <3>1, <3>2, <3>4 DEF PubInv, Places
      <3>9. \A r \in Ranks : nextPublish' <= r /\ r < nextDispatch' =>
              r \in (ready \cup abandoned)' \/ \E w \in Workers : Busy(w)' /\ job'[w] = r
        BY <1>1, <3>1, <3>2 DEF PubInv, Places
      <3>10. QED
        BY <3>5, <3>6, <3>7, <3>8, <3>9 DEF Places
    <2>2. CASE nextPublish \notin ready
      <3>1. UNCHANGED <<nextPublish, ready, pc>>
        BY <2>2 DEF Collect
      <3>2. QED
        BY <1>1, <3>1, PlacesStay DEF PubInv, Places
    <2>3. QED
      BY <2>1, <2>2
  <1>3. Stages'
    BY <1>1 DEF PubInv, Stages, InWindow, Ending
  <1>4. \A r \in Ranks : Told(r)' <=> Told(r)
    BY <1>1 DEF Told
  <1>5. Reports'
    BY <1>1, <1>4 DEF PubInv, Reports
  <1>6. Decided' = Decided
    BY <1>1 DEF Decided
  <1>7. Behind'
    BY <1>1, <1>6 DEF PubInv, Behind
  <1>8. ReportMatchesCommit => ReportMatchesCommit'
    BY <1>1 DEF ReportMatchesCommit
  <1>9. Results'
    BY <1>1, <1>8 DEF PubInv, Results
  <1>10. Recorded'
    BY <1>1 DEF PubInv, Recorded
  <1>11. QED
    BY <1>2, <1>3, <1>5, <1>7, <1>9, <1>10 DEF PubInv

\* An empty window is closed only when no rank is left.
LEMMA CloseStep ==
    ASSUME TypeOK, GateInv, PubInv, CloseWindow
    PROVE  PubInv'
  <1> USE Numbers
  <1>1. /\ UNCHANGED <<nextPublish, nextDispatch, ready, pc, status, job, windowStart, reported,
                       abandoned, committed, row, parsed, owned>>
        /\ ppc = "collect" /\ applied' = {} /\ pos' = windowStart
        /\ ppc' = IF WindowEmpty THEN "guard" ELSE "apply"
    BY DEF CloseWindow, resultVars, dbVars, runnerVars, workerVars
  <1>2. Places'
    BY <1>1, PlacesStay DEF PubInv, Places
  <1>3. WindowEmpty => nextPublish = Count /\ windowStart = nextPublish
    <2>1. MaxQueueItems \in Nat \ {0}
      BY PlanAssumption
    <2>2. QED
      BY <2>1 DEF CloseWindow, WindowEnds, WindowEmpty
  <1>4. Stages'
    BY <1>1, <1>3 DEF PubInv, Stages, InWindow, Ending
  <1>5. \A r \in Ranks : Told(r)' <=> Told(r)
    BY <1>1 DEF Told
  <1>6. Reports'
    BY <1>1, <1>5 DEF PubInv, Reports
  <1>7. Decided' = Decided
    BY <1>1 DEF Decided
  <1>8. Behind'
    BY <1>1, <1>7 DEF PubInv, Behind
  <1>9. ReportMatchesCommit => ReportMatchesCommit'
    BY <1>1 DEF ReportMatchesCommit
  <1>10. Results'
    BY <1>1, <1>9 DEF PubInv, Results
  <1>11. Recorded'
    BY <1>1 DEF PubInv, Recorded
  <1>12. QED
    BY <1>2, <1>4, <1>6, <1>8, <1>10, <1>11 DEF PubInv

\* The headers of a batch get their rows with it.
LEMMA CommitFacts ==
    ASSUME TypeOK, Recorded, NEW S \in SUBSET Ranks,
           committed' = committed \cup S, row' = RowsWith(S), UNCHANGED <<parsed, owned>>
    PROVE  Recorded'
  <1>1. \A r \in Ranks, k \in Keys : parsed[r][k] # NoRow
    BY PlanAssumption DEF TypeOK, ResultsTypeOK
  <1>2. ASSUME NEW r \in committed', NEW k \in owned[r] PROVE row'[k] # NoRow
    <2>1. r \in Ranks /\ k \in Keys
      BY DEF TypeOK, DbTypeOK, ResultsTypeOK
    <2>2. CASE \E s \in S : k \in owned[s] /\ row'[k] = parsed[s][k]
      BY <1>1, <2>1, <2>2
    <2>3. CASE (\A s \in S : k \notin owned[s]) /\ row'[k] = row[k]
      BY <2>3 DEF Recorded
    <2>4. QED
      BY <2>1, <2>2, <2>3, RowOf
  <1>3. QED
    BY <1>2 DEF Recorded

\* apply_window commits the whole window behind everything before it.
LEMMA ApplyStep ==
    ASSUME TypeOK, GateInv, PubInv, ApplyWindow
    PROVE  /\ PubInv'
           /\ \A r \in committed' \ committed : \A s \in committed : s < r
  <1> USE Numbers
  <1>1. /\ UNCHANGED <<nextPublish, nextDispatch, ready, pc, status, job, windowStart, reported,
                       abandoned, pos, parsed, owned>>
        /\ ppc = "apply" /\ ppc' = "settle" /\ applied' = Window
        /\ committed' = committed \cup Window /\ row' = RowsWith(Window)
        /\ \A r \in Window : SourcesCurrent(r)
    BY DEF ApplyWindow, resultVars, runnerVars, workerVars
  <1>2. pos = windowStart /\ windowStart <= nextPublish /\ status = "none"
    BY <1>1 DEF PubInv, Stages, Places, Ending
  <1>3. Window \in SUBSET Ranks /\ \A r \in Window : windowStart <= r /\ r < nextPublish
    BY DEF Window, TypeOK, WindowTypeOK, RunnerTypeOK
  <1>4. \A s \in committed : s < windowStart
    BY <1>1 DEF PubInv, Behind, Decided
  <1>5. \A r \in Window, s \in committed : s < r
    BY <1>3, <1>4
  <1>6. Places'
    BY <1>1, PlacesStay DEF PubInv, Places
  <1>7. Stages'
    BY <1>1, <1>2 DEF PubInv, Stages, InWindow, Ending
  <1>8. \A r \in Ranks : Told(r)' <=> Told(r)
    BY <1>1, <1>2 DEF Told
  <1>9. Reports'
    BY <1>1, <1>8 DEF PubInv, Reports
  <1>10. Behind'
    <2>1. Decided' = nextPublish
      BY <1>1 DEF Decided
    <2>2. \A r \in committed : r < nextPublish
      BY <1>2, <1>4
    <2>3. \A r \in committed' : r < nextPublish
      BY <1>1, <1>3, <2>2
    <2>4. QED
      BY <2>1, <2>3 DEF Behind
  <1>11. \A r \in Window : reported[r] = "none"
    BY <1>1, <1>3 DEF PubInv, Reports, Told
  <1>12. ReportMatchesCommit => ReportMatchesCommit'
    BY <1>1, <1>11 DEF ReportMatchesCommit
  <1>13. Results'
    BY <1>1, <1>4, <1>12 DEF PubInv, Results
  <1>14. Recorded'
    BY <1>1, <1>3, CommitFacts DEF PubInv
  <1>15. QED
    BY <1>1, <1>5, <1>6, <1>7, <1>9, <1>10, <1>13, <1>14 DEF PubInv

\* The window transaction was rolled back or never tried.
LEMMA FallBackStep ==
    ASSUME TypeOK, GateInv, PubInv, ReplayWindow \/ RollbackFails
    PROVE  PubInv'
  <1> USE Numbers
  <1>1. /\ UNCHANGED <<nextPublish, nextDispatch, ready, pc, status, job, windowStart, reported,
                       abandoned, pos, applied, committed, row, parsed, owned>>
        /\ ppc = "apply" /\ ppc' \in {"settle", "replay"}
    BY DEF ReplayWindow, RollbackFails, resultVars, runnerVars, workerVars, dbVars
  <1>2. pos = windowStart /\ windowStart <= nextPublish /\ status = "none"
    BY <1>1 DEF PubInv, Stages, Places, Ending
  <1>3. Places'
    BY <1>1, PlacesStay DEF PubInv, Places
  <1>4. Stages'
    BY <1>1, <1>2 DEF PubInv, Stages, InWindow, Ending
  <1>5. \A r \in Ranks : Told(r)' <=> Told(r)
    BY <1>1, <1>2 DEF Told
  <1>6. Reports'
    BY <1>1, <1>5 DEF PubInv, Reports
  <1>7. Decided = windowStart /\ Decided' \in {windowStart, nextPublish}
    BY <1>1, <1>2 DEF Decided
  <1>8. Behind'
    BY <1>1, <1>2, <1>7 DEF PubInv, Behind
  <1>9. ReportMatchesCommit => ReportMatchesCommit'
    BY <1>1 DEF ReportMatchesCommit
  <1>10. Results'
    BY <1>1, <1>9 DEF PubInv, Results
  <1>11. Recorded'
    BY <1>1 DEF PubInv, Recorded
  <1>12. QED
    BY <1>3, <1>4, <1>6, <1>8, <1>10, <1>11 DEF PubInv

\* replay_items commits the next item behind everything before it, or leaves it.
LEMMA ReplayStep ==
    ASSUME TypeOK, GateInv, PubInv, ReplayItem
    PROVE  /\ PubInv'
           /\ \A r \in committed' \ committed : \A s \in committed : s < r
  <1> USE Numbers
  <1>1. /\ UNCHANGED <<nextPublish, nextDispatch, ready, pc, status, job, windowStart, reported,
                       abandoned, parsed, owned, ppc>>
        /\ ppc = "replay"
    BY DEF ReplayItem, resultVars, runnerVars, workerVars
  <1>2. PICK r \in Unreplayed :
          /\ pos' = r + 1
          /\ \/ /\ SourcesCurrent(r)
                /\ committed' = committed \cup {r}
                /\ row' = RowsWith({r})
                /\ applied' = applied \cup {r}
             \/ UNCHANGED <<committed, row, applied>>
    BY DEF ReplayItem
  <1>3. r \in Ranks /\ windowStart <= r /\ r < nextPublish /\ pos <= r /\ r \in Int
    <2>1. r \in Window /\ pos <= r
      BY DEF Unreplayed, WriterItems
    <2>2. QED
      BY <2>1 DEF Window, TypeOK, WindowTypeOK, RunnerTypeOK
  <1>4. windowStart <= pos /\ status = "none"
    BY <1>1 DEF PubInv, Stages, Ending
  <1>5. \A s \in committed : s < pos
    BY <1>1 DEF PubInv, Behind, Decided
  <1>6. \A s \in committed : s < r
    BY <1>3, <1>5
  <1>7. Places'
    BY <1>1, PlacesStay DEF PubInv, Places
  <1>8. Stages'
    BY <1>1, <1>2, <1>3, <1>4 DEF PubInv, Stages, InWindow, Ending
  <1>9. \A s \in Ranks : Told(s)' <=> Told(s)
    BY <1>1 DEF Told
  <1>10. Reports'
    BY <1>1, <1>9 DEF PubInv, Reports
  <1>11. Behind'
    <2>1. Decided' = r + 1
      BY <1>1, <1>2 DEF Decided
    <2>2. \A s \in committed' : s < r + 1
      BY <1>2, <1>3, <1>6
    <2>3. QED
      BY <2>1, <2>2 DEF Behind
  <1>12. reported[r] = "none"
    BY <1>1, <1>3 DEF PubInv, Reports, Told
  <1>13. ReportMatchesCommit => ReportMatchesCommit'
    BY <1>1, <1>2, <1>12 DEF ReportMatchesCommit
  <1>14. Results'
    BY <1>1, <1>2, <1>13 DEF PubInv, Results
  <1>15. Recorded'
    <2>1. CASE UNCHANGED <<committed, row, applied>>
      BY <1>1, <2>1 DEF PubInv, Recorded
    <2>2. CASE ~UNCHANGED <<committed, row, applied>>
      <3>1. {r} \in SUBSET Ranks
        BY <1>3
      <3>2. QED
        BY <1>1, <1>2, <2>2, <3>1, CommitFacts DEF PubInv
    <2>3. QED
      BY <2>1, <2>2
  <1>16. \A q \in committed' \ committed : \A s \in committed : s < q
    BY <1>2, <1>6
  <1>17. QED
    BY <1>7, <1>8, <1>10, <1>11, <1>14, <1>15, <1>16 DEF PubInv

\* The replay ends, or cannot begin its next transaction.
LEMMA ReplayEndStep ==
    ASSUME TypeOK, GateInv, PubInv, ReplayDone \/ ReplayAborts
    PROVE  PubInv'
  <1> USE Numbers
  <1>1. /\ UNCHANGED <<nextPublish, nextDispatch, ready, pc, status, job, windowStart, reported,
                       abandoned, committed, row, parsed, owned>>
        /\ ppc = "replay" /\ ppc' = "settle" /\ pos' = windowStart
        /\ applied' = applied \/ (applied' = {} /\ "begin" \in Faults)
    BY DEF ReplayDone, ReplayAborts, resultVars, runnerVars, workerVars, dbVars
  <1>2. windowStart <= pos /\ pos <= nextPublish /\ status = "none"
    BY <1>1 DEF PubInv, Stages, Ending
  <1>3. Places'
    BY <1>1, PlacesStay DEF PubInv, Places
  <1>4. Stages'
    BY <1>1, <1>2 DEF PubInv, Stages, InWindow, Ending
  <1>5. \A r \in Ranks : Told(r)' <=> Told(r)
    BY <1>1 DEF Told
  <1>6. Reports'
    BY <1>1, <1>5 DEF PubInv, Reports
  <1>7. Decided = pos /\ Decided' = nextPublish
    BY <1>1 DEF Decided
  <1>8. Behind'
    BY <1>1, <1>2, <1>7 DEF PubInv, Behind
  <1>9. ReportMatchesCommit => ReportMatchesCommit'
    BY <1>1 DEF ReportMatchesCommit
  <1>10. Results'
    BY <1>1, <1>9 DEF PubInv, Results
  <1>11. Recorded'
    BY <1>1 DEF PubInv, Recorded
  <1>12. QED
    BY <1>3, <1>4, <1>6, <1>8, <1>10, <1>11 DEF PubInv

\* The observer is told what the writer did with the next rank.
LEMMA SettleStep ==
    ASSUME TypeOK, GateInv, PubInv, Settle
    PROVE  PubInv'
  <1> USE Numbers
  <1>1. /\ UNCHANGED <<nextPublish, nextDispatch, ready, pc, status, job, windowStart, ppc,
                       abandoned, applied, committed, row, parsed, owned>>
        /\ ppc = "settle" /\ pos < nextPublish /\ pos' = pos + 1
        /\ reported' = [reported EXCEPT ![pos] =
                          IF pos \in applied THEN "published" ELSE "failed"]
    BY DEF Settle, TellObserver, resultVars, runnerVars, workerVars, dbVars
  <1>2. windowStart <= pos /\ pos \in Ranks /\ status = "none"
    BY <1>1 DEF PubInv, Stages, Ending, TypeOK, WindowTypeOK
  <1>3. /\ reported'[pos] = IF pos \in applied THEN "published" ELSE "failed"
        /\ \A r \in Ranks \ {pos} : reported'[r] = reported[r]
    BY <1>1, <1>2 DEF TypeOK, WindowTypeOK
  <1>4. Places'
    BY <1>1, PlacesStay DEF PubInv, Places
  <1>5. Stages'
    BY <1>1, <1>2 DEF PubInv, Stages, InWindow, Ending
  <1>6. \A r \in Ranks : Told(r)' <=> Told(r) \/ r = pos
    BY <1>1, <1>2 DEF Told
  <1>7. Reports'
    BY <1>1, <1>3, <1>6 DEF PubInv, Reports
  <1>8. Decided' = Decided
    BY <1>1 DEF Decided
  <1>9. Behind'
    BY <1>1, <1>8 DEF PubInv, Behind
  <1>10. ASSUME "begin" \notin Faults PROVE ReportMatchesCommit'
    <2>1. pos \in applied <=> pos \in committed
      BY <1>2, <1>10 DEF PubInv, Results
    <2>2. ReportMatchesCommit
      BY <1>10 DEF PubInv, Results
    <2>3. QED
      BY <1>1, <1>3, <2>1, <2>2 DEF ReportMatchesCommit
  <1>11. Results'
    BY <1>1, <1>10 DEF PubInv, Results
  <1>12. Recorded'
    BY <1>1 DEF PubInv, Recorded
  <1>13. QED
    BY <1>4, <1>5, <1>7, <1>9, <1>11, <1>12 DEF PubInv

\* publish() returns.
LEMMA WindowEndStep ==
    ASSUME TypeOK, GateInv, PubInv, WindowPublished
    PROVE  PubInv'
  <1> USE Numbers
  <1>1. /\ UNCHANGED <<nextPublish, nextDispatch, ready, job, pos, reported,
                       abandoned, applied, committed, row, parsed, owned>>
        /\ ppc = "settle" /\ windowStart' = nextPublish
        /\ UNCHANGED pc \/ pc' = WakeAdmit(pc)
        /\ \/ ppc' = "top" /\ status' = status
           \/ ppc' = "guard" /\ status' = "cancelled"
        /\ pos = nextPublish
    BY DEF WindowPublished, resultVars, runnerVars, workerVars, dbVars,
         PubInv, Stages, Ending
  <1>2. windowStart <= pos /\ pos <= nextPublish /\ status = "none"
    BY <1>1 DEF PubInv, Stages, Ending
  <1>3. Places'
    BY <1>1, PlacesStay DEF PubInv, Places
  <1>4. Stages'
    BY <1>1, <1>2 DEF PubInv, Stages, InWindow, Ending
  <1>5. \A r \in Ranks : Told(r) => Told(r)'
    BY <1>1, <1>2 DEF Told
  <1>6. status' # "exception" => \A r \in Ranks : Told(r)' => Told(r)
    BY <1>1, <1>2 DEF Told
  <1>7. Reports'
    BY <1>1, <1>2, <1>5, <1>6 DEF PubInv, Reports
  <1>8. Decided' = Decided
    BY <1>1 DEF Decided
  <1>9. Behind'
    BY <1>1, <1>8 DEF PubInv, Behind
  <1>10. \A r \in committed : r < windowStart'
    BY <1>1 DEF PubInv, Behind, Decided
  <1>11. ReportMatchesCommit => ReportMatchesCommit'
    BY <1>1 DEF ReportMatchesCommit
  <1>12. Results'
    BY <1>1, <1>10, <1>11 DEF PubInv, Results
  <1>13. Recorded'
    BY <1>1 DEF PubInv, Recorded
  <1>14. QED
    BY <1>3, <1>4, <1>7, <1>9, <1>12, <1>13 DEF PubInv

\* The observer is told and throws: the window is left where it is.
LEMMA ThrowStep ==
    ASSUME TypeOK, GateInv, PubInv, ObserverThrows
    PROVE  PubInv'
  <1> USE Numbers
  <1>1. /\ UNCHANGED <<nextPublish, nextDispatch, ready, job, pc, pos, abandoned, applied,
                       committed, row, parsed, owned>>
        /\ ppc = "settle" /\ windowStart' = nextPublish /\ pos < nextPublish
        /\ ppc' = "guard" /\ status' = "exception"
        /\ reported' = [reported EXCEPT ![pos] =
                          IF pos \in applied THEN "published" ELSE "failed"]
    BY DEF ObserverThrows, TellObserver, resultVars, runnerVars, workerVars, dbVars
  <1>2. windowStart <= pos /\ pos \in Ranks
    BY <1>1 DEF PubInv, Stages, TypeOK, WindowTypeOK
  <1>3. /\ reported'[pos] = IF pos \in applied THEN "published" ELSE "failed"
        /\ \A r \in Ranks \ {pos} : reported'[r] = reported[r]
    BY <1>1, <1>2 DEF TypeOK, WindowTypeOK
  <1>4. Places'
    BY <1>1, PlacesStay DEF PubInv, Places
  <1>5. Stages'
    BY <1>1 DEF Stages, InWindow, Ending
  <1>6. \A r \in Ranks : Told(r) \/ r = pos => Told(r)'
    BY <1>1, <1>2 DEF Told
  <1>7. Reports'
    BY <1>1, <1>3, <1>6 DEF PubInv, Reports
  <1>8. Decided' = Decided
    BY <1>1 DEF Decided
  <1>9. Behind'
    BY <1>1, <1>8 DEF PubInv, Behind
  <1>10. \A r \in committed : r < windowStart'
    BY <1>1 DEF PubInv, Behind, Decided
  <1>11. ASSUME "begin" \notin Faults PROVE ReportMatchesCommit'
    <2>1. pos \in applied <=> pos \in committed
      BY <1>1, <1>2, <1>11 DEF PubInv, Results
    <2>2. ReportMatchesCommit
      BY <1>11 DEF PubInv, Results
    <2>3. QED
      BY <1>1, <1>3, <2>1, <2>2 DEF ReportMatchesCommit
  <1>12. Results'
    BY <1>1, <1>10, <1>11 DEF PubInv, Results
  <1>13. Recorded'
    BY <1>1 DEF PubInv, Recorded
  <1>14. QED
    BY <1>4, <1>5, <1>7, <1>9, <1>12, <1>13 DEF PubInv

\* What was extracted and never published is abandoned.
LEMMA DrainStep ==
    ASSUME TypeOK, GateInv, PubInv, DrainReady
    PROVE  PubInv'
  <1> USE Numbers
  <1>1. PICK r \in ready : ready' = ready \ {r} /\ abandoned' = abandoned \cup {r}
    BY DEF DrainReady
  <1>2. /\ UNCHANGED <<nextPublish, nextDispatch, pc, status, job, windowStart, pos, reported,
                       ppc, applied, committed, row, parsed, owned, dbVars>>
        /\ ppc = "drain"
    BY DEF DrainReady, resultVars, workerVars, dbVars
  <1>3. \A v \in Workers : Busy(v)' <=> Busy(v)
    BY <1>2 DEF Busy
  <1>4. (ready \cup abandoned)' = ready \cup abandoned /\ (ready \cap abandoned)' = {}
    BY <1>1 DEF PubInv, Places
  <1>5. Places'
    BY <1>2, <1>3, <1>4 DEF PubInv, Places
  <1>6. Stages'
    BY <1>2 DEF PubInv, Stages, InWindow, Ending
  <1>7. \A s \in Ranks : Told(s)' <=> Told(s)
    BY <1>2 DEF Told
  <1>8. Reports'
    BY <1>2, <1>7 DEF PubInv, Reports
  <1>9. Decided' = Decided
    BY <1>2 DEF Decided
  <1>10. Behind'
    BY <1>2, <1>9 DEF PubInv, Behind
  <1>11. ReportMatchesCommit => ReportMatchesCommit'
    BY <1>2 DEF ReportMatchesCommit
  <1>12. Results'
    BY <1>2, <1>11 DEF PubInv, Results
  <1>13. Recorded'
    BY <1>2 DEF PubInv, Recorded
  <1>14. QED
    BY <1>5, <1>6, <1>8, <1>10, <1>12, <1>13 DEF PubInv

-----------------------------------------------------------------------------
(***************************************************************************)
(* The invariant, and what follows from it.                                *)
(***************************************************************************)

\* Initially nothing is dispatched, committed or reported.
LEMMA InitPubInv == Init => PubInv
  <1> SUFFICES ASSUME Init PROVE PubInv
    OBVIOUS
  <1>1. /\ ready = {} /\ abandoned = {} /\ committed = {} /\ applied = {}
        /\ nextDispatch = 0 /\ nextPublish = 0 /\ windowStart = 0 /\ pos = 0
        /\ ppc = "spawn" /\ status = "none"
        /\ \A w \in Workers : pc[w] = "unborn"
        /\ \A r \in Ranks : reported[r] = "none"
    BY DEF Init
  <1>2. Places
    BY <1>1 DEF Places, Busy
  <1>3. Stages
    BY <1>1 DEF Stages, InWindow, Ending
  <1>4. Reports
    BY <1>1 DEF Reports, Told
  <1>5. Behind /\ Results /\ Recorded
    BY <1>1 DEF Behind, Results, Recorded, ReportMatchesCommit
  <1>6. QED
    BY <1>2, <1>3, <1>4, <1>5 DEF PubInv

\* Every step keeps PubInv, and adds to the database only ranks above what it holds.
LEMMA NextPubInv ==
    ASSUME TypeOK, GateInv, PubInv, [Next]_vars
    PROVE  /\ PubInv'
           /\ \A r \in committed' \ committed : \A s \in committed : s < r
  <1>1. CASE ApplyWindow
    BY <1>1, ApplyStep
  <1>2. CASE ReplayItem
    BY <1>2, ReplayStep
  <1>3. CASE \E w \in Workers : WorkerStep(w)
    <2>1. PICK w \in Workers : WorkerStep(w)
      BY <1>3
    <2>2. PubInv'
      BY <2>1, WorkerPubInv
    <2>3. UNCHANGED committed
      BY <2>1, InnerStep, TurnStep DEF WorkerStep, Inner, dbVars
    <2>4. QED
      BY <2>2, <2>3
  <1>4. CASE PublisherStep /\ ~ApplyWindow /\ ~ReplayItem
    <2>1. PubInv'
      BY <1>4, OutsideSteps, CollectStep, CloseStep, FallBackStep, ReplayEndStep, SettleStep,
         WindowEndStep, ThrowStep, DrainStep DEF PublisherStep
    <2>2. UNCHANGED committed
      BY <1>4 DEF PublisherStep, Spawn, SpawnFails, PollCancelled, Collect, CloseWindow,
           ReplayWindow, RollbackFails, ReplayAborts, ReplayDone, Settle, ObserverThrows,
           WindowPublished, StopPool, JoinPool, DrainReady, Drained, CancelAfterRun, dbVars
    <2>3. QED
      BY <2>1, <2>2
  <1>5. CASE RequestCancel \/ EditHeader \/ UNCHANGED vars
    <2>1. UNCHANGED <<runnerVars, workerVars, resultVars, windowVars, dbVars>>
      BY <1>5 DEF RequestCancel, EditHeader, vars
    <2>2. UNCHANGED <<nextPublish, nextDispatch, ready, status, pc, job, parsed, owned, ppc,
                      windowStart, pos, applied, reported, abandoned, committed>>
      BY <2>1 DEF runnerVars, workerVars, resultVars, windowVars, dbVars
    <2>3. Places'
      BY <2>2, PlacesStay, Numbers DEF PubInv, Places
    <2>4. QED
      BY <2>1, <2>2, <2>3, PublisherAside DEF PubInv
  <1>6. QED
    BY <1>1, <1>2, <1>3, <1>4, <1>5 DEF Next, Returned

\* The invariant of every run.
LEMMA Publication == Spec => [](TypeOK /\ GateInv /\ PubInv)
  <1>1. Init => TypeOK /\ GateInv /\ PubInv
    BY InitTypeOK, InitGateInv, InitPubInv
  <1>2. TypeOK /\ GateInv /\ PubInv /\ [Next]_vars => (TypeOK /\ GateInv /\ PubInv)'
    BY NextTypeOK, NextGateInv, NextPubInv
  <1>3. QED
    BY <1>1, <1>2, PTL DEF Spec

\* Persistence order is rank order: whatever the workers' completion order and
\* however a window is split, rolled back and replayed, a unit is committed
\* only after every lower-ranked unit that is committed at all.
THEOREM InOrder == Spec => CommitOrder
  <1>1. TypeOK /\ GateInv /\ PubInv /\ [Next]_vars =>
          [\A r \in committed' \ committed : \A s \in committed : s < r]_vars
    BY NextPubInv
  <1>2. QED
    BY <1>1, Publication, PTL DEF Spec, CommitOrder

\* No rank is lost: when the runner returns, each dispatched rank was reported
\* or abandoned, not both, and a run that was not stopped reported every one.
THEOREM Accounted == Spec => []NoRankLost
  <1>1. ASSUME TypeOK, GateInv, PubInv, ppc = "done", status # "exception"
        PROVE  /\ \A r \in Ranks : (reported[r] = "none") <=> (r >= nextDispatch \/ r \in abandoned)
               /\ status = "none" => \A r \in Ranks : reported[r] # "none"
    <2> USE Numbers
    <2>1. \A w \in Workers : ~Busy(w)
      BY <1>1 DEF GateInv, JoinedQuiet, Joined, Busy
    <2>2. ready = {} /\ windowStart = nextPublish /\ (status = "none" => nextPublish = Count)
      BY <1>1 DEF PubInv, Stages, Ending, InWindow
    <2>3. \A r \in Ranks : Told(r) <=> r < nextPublish
      BY <1>1, <2>2 DEF Told
    <2>4. \A r \in Ranks : reported[r] = "none" <=> nextPublish <= r
      BY <1>1, <2>3 DEF PubInv, Reports
    <2>5. \A r \in Ranks : nextPublish <= r <=> (r >= nextDispatch \/ r \in abandoned)
      BY <1>1, <2>1, <2>2 DEF PubInv, Places
    <2>6. QED
      BY <1>1, <2>2, <2>4, <2>5
  <1>2. TypeOK /\ GateInv /\ PubInv => NoRankLost
    BY <1>1 DEF NoRankLost
  <1>3. QED
    BY <1>2, Publication, PTL

\* The observer is told the truth, provided that BEGIN does not fail inside a
\* replay: apply_window then throws although earlier items are committed, and
\* publish() reports the whole window failed.
THEOREM Truthful ==
    ASSUME "begin" \notin Faults
    PROVE  Spec => []ReportMatchesCommit
  <1>1. PubInv => ReportMatchesCommit
    BY DEF PubInv, Results
  <1>2. QED
    BY <1>1, Publication, PTL

\* No row is ahead of the disk.
RowsBehind == \A k \in Keys : row[k] # NoRow => row[k] <= content[k]

\* A commit replaces rows by what its units parsed, which is what the disk
\* holds, and the disk only moves forward.
LEMMA RowsForward ==
    ASSUME TypeOK, RowsBehind, [Next]_vars
    PROVE  /\ RowsBehind'
           /\ \A k \in Keys : row[k] # NoRow => row'[k] # NoRow /\ row[k] <= row'[k]
  <1>0. /\ \A d \in Digests : d \in Int /\ d # NoRow
        /\ \A k \in Keys : content[k] \in Digests /\ row[k] \in Digests \cup {NoRow}
    BY PlanAssumption DEF TypeOK, EnvTypeOK, DbTypeOK
  <1>2. ASSUME NEW S \in SUBSET Ranks, \A r \in S : SourcesCurrent(r), row' = RowsWith(S),
               UNCHANGED content
        PROVE  /\ RowsBehind'
               /\ \A k \in Keys : row[k] # NoRow => row'[k] # NoRow /\ row[k] <= row'[k]
    <2>1. ASSUME NEW k \in Keys PROVE row'[k] = row[k] \/ row'[k] = content[k]
      BY <1>2, RowOf DEF SourcesCurrent
    <2>2. QED
      BY <1>0, <1>2, <2>1 DEF RowsBehind
  <1>3. CASE ApplyWindow
    <2>1. Window \in SUBSET Ranks
      BY WindowRanks
    <2>2. QED
      BY <1>2, <1>3, <2>1 DEF ApplyWindow, envVars
  <1>4. CASE ReplayItem
    <2>1. PICK r \in Unreplayed :
             \/ SourcesCurrent(r) /\ row' = RowsWith({r})
             \/ UNCHANGED row
      BY <1>4 DEF ReplayItem
    <2>2. {r} \in SUBSET Ranks /\ UNCHANGED content
      BY <1>4, <2>1, WindowRanks DEF ReplayItem, envVars
    <2>3. CASE UNCHANGED row
      BY <1>0, <2>2, <2>3 DEF RowsBehind
    <2>4. CASE SourcesCurrent(r) /\ row' = RowsWith({r})
      <3>1. \A q \in {r} : SourcesCurrent(q)
        BY <2>4
      <3>2. QED
        BY <1>2, <2>2, <2>4, <3>1
    <2>5. QED
      BY <2>1, <2>3, <2>4
  <1>5. CASE EditHeader
    <2>1. PICK h \in Keys : content' = [content EXCEPT ![h] = @ + 1]
      BY <1>5 DEF EditHeader
    <2>2. \A k \in Keys : content[k] <= content'[k] /\ content'[k] \in Int
      BY <1>0, <2>1 DEF TypeOK, EnvTypeOK
    <2>3. UNCHANGED row
      BY <1>5 DEF EditHeader, dbVars
    <2>4. QED
      BY <1>0, <2>2, <2>3 DEF RowsBehind
  <1>6. CASE ~ApplyWindow /\ ~ReplayItem /\ ~EditHeader
    <2>1. UNCHANGED <<row, content>>
      <3>1. CASE \E w \in Workers : WorkerStep(w)
        BY <3>1 DEF WorkerStep, Dispatch, ThrowBeforeClaim, PchPreflightFails, FrontEndFails,
             Parse, ClaimHeaders, ExtractOk, ExtractFails, Admit, Abandon, dbVars, envVars
      <3>2. CASE PublisherStep
        BY <1>6, <3>2 DEF PublisherStep, Spawn, SpawnFails, PollCancelled, Collect, CloseWindow,
             ReplayWindow, RollbackFails, ReplayAborts, ReplayDone, Settle, ObserverThrows,
             WindowPublished, StopPool, JoinPool, DrainReady, Drained, CancelAfterRun, dbVars,
             envVars
      <3>3. CASE RequestCancel \/ UNCHANGED vars
        BY <3>3 DEF RequestCancel, vars, dbVars, envVars
      <3>4. QED
        BY <1>6, <3>1, <3>2, <3>3 DEF Next, Returned
    <2>2. QED
      BY <1>0, <2>1 DEF RowsBehind
  <1>7. QED
    BY <1>3, <1>4, <1>5, <1>6

\* A header's row never goes back to older bytes: a unit that parsed a header
\* before an edit and comes to the writer after it is refused.
THEOREM NoStaleRow == Spec => RowsNeverGoBack
  <1>1. Init => RowsBehind
    BY PlanAssumption DEF Init, RowsBehind
  <1>2. TypeOK /\ RowsBehind /\ [Next]_vars =>
          /\ RowsBehind'
          /\ [\A k \in Keys : row[k] # NoRow => row'[k] # NoRow /\ row[k] <= row'[k]]_vars
    BY RowsForward
  <1>3. QED
    BY <1>1, <1>2, Publication, PTL DEF Spec, RowsNeverGoBack

-----------------------------------------------------------------------------
(***************************************************************************)
(* The reorder buffer and its budgets.                                     *)
(***************************************************************************)

\* BytesOf, for the sizes in a function.
Held(size, rs) == UNION {{r} \X (1 .. size[r]) : r \in rs}
Sizes == [r \in Ranks |-> ResultBytes(r)]

LEMMA HeldFinite ==
    ASSUME NEW size \in [Ranks -> Nat], NEW S \in SUBSET Ranks
    PROVE  IsFiniteSet(S) /\ IsFiniteSet(Held(size, S)) /\ Cardinality(Held(size, S)) \in Nat
  <1>1. IsFiniteSet(S)
    <2>1. 0 \in Int /\ Count - 1 \in Int /\ S \in SUBSET (0 .. (Count - 1))
      BY CountAssumption
    <2>2. IsFiniteSet(0 .. (Count - 1))
      BY <2>1, FS_Interval
    <2>3. QED
      BY <2>1, <2>2, FS_Subset
  <1> DEFINE part == [r \in S |-> {r} \X (1 .. size[r])]
             T == {{r} \X (1 .. size[r]) : r \in S}
  <1>2. part \in Surjection(S, T)
    BY DEF Surjection
  <1>3. IsFiniteSet(T)
    <2> HIDE DEF part, T
    <2>1. QED
      BY <1>1, <1>2, FS_Surjection
  <1>4. \A t \in T : IsFiniteSet(t)
    <2>1. SUFFICES ASSUME NEW r \in S PROVE IsFiniteSet({r} \X (1 .. size[r]))
      OBVIOUS
    <2>2. 1 \in Int /\ size[r] \in Int
      OBVIOUS
    <2>3. IsFiniteSet({r}) /\ IsFiniteSet(1 .. size[r])
      BY <2>2, FS_Singleton, FS_Interval
    <2>4. QED
      BY <2>3, FS_Product
  <1>5. IsFiniteSet(UNION T)
    <2> HIDE DEF T
    <2>1. QED
      BY <1>3, <1>4, FS_UNION
  <1>6. IsFiniteSet(Held(size, S))
    BY <1>5 DEF Held
  <1>7. QED
    BY <1>1, <1>6, FS_CardinalityType

\* A result that enters the buffer brings its bytes.
LEMMA HeldAdd ==
    ASSUME NEW size \in [Ranks -> Nat], NEW S \in SUBSET Ranks, NEW r \in Ranks, r \notin S
    PROVE  Cardinality(Held(size, S \cup {r})) = Cardinality(Held(size, S)) + size[r]
  <1> DEFINE part == {r} \X (1 .. size[r])
  <1>1. Held(size, S \cup {r}) = Held(size, S) \cup part
    BY DEF Held
  <1>2. Held(size, S) \cap part = {}
    BY DEF Held
  <1>3. IsFiniteSet({r}) /\ Cardinality({r}) = 1
    BY FS_Singleton
  <1>4. IsFiniteSet(1 .. size[r]) /\ Cardinality(1 .. size[r]) = size[r]
    <2>1. 1 \in Int /\ size[r] \in Int /\ size[r] >= 0
      OBVIOUS
    <2>2. /\ IsFiniteSet(1 .. size[r])
          /\ Cardinality(1 .. size[r]) = IF 1 > size[r] THEN 0 ELSE size[r] - 1 + 1
      BY <2>1, FS_Interval
    <2>3. QED
      BY <2>1, <2>2
  <1>5. IsFiniteSet(part) /\ Cardinality(part) = 1 * size[r]
    BY <1>3, <1>4, FS_Product
  <1> HIDE DEF part
  <1>6. IsFiniteSet(Held(size, S)) /\ Cardinality(Held(size, S)) \in Nat
    BY HeldFinite
  <1>7. Cardinality(Held(size, S) \cap part) = 0
    BY <1>2, FS_EmptySet
  <1>8. Cardinality(Held(size, S) \cup part) = Cardinality(Held(size, S)) + Cardinality(part) - 0
    BY <1>5, <1>6, <1>7, FS_Union
  <1>9. size[r] \in Nat /\ Cardinality(part) = size[r]
    BY <1>5
  <1>10. Cardinality(Held(size, S) \cup part) = Cardinality(Held(size, S)) + size[r]
    BY <1>6, <1>8, <1>9
  <1>11. QED
    BY <1>1, <1>10

LEMMA HeldFewer ==
    ASSUME NEW size \in [Ranks -> Nat], NEW S \in SUBSET Ranks, NEW T \in SUBSET S
    PROVE  /\ Cardinality(T) <= Cardinality(S)
           /\ Cardinality(Held(size, T)) <= Cardinality(Held(size, S))
  <1>1. IsFiniteSet(S) /\ IsFiniteSet(Held(size, S))
    BY HeldFinite
  <1>2. Held(size, T) \in SUBSET Held(size, S)
    BY DEF Held
  <1>3. QED
    BY <1>1, <1>2, FS_Subset

\* Sizes of other results do not matter.
LEMMA HeldSame ==
    ASSUME NEW a, NEW b, NEW S, \A r \in S : a[r] = b[r]
    PROVE  Held(a, S) = Held(b, S)
  BY DEF Held

\* The results behind the one the publisher waits for are within the budgets.
WithinBudgets(size, rs, next) ==
    /\ Cardinality(rs \ {next}) <= MaxQueueItems
    /\ Cardinality(Held(size, rs \ {next})) <= MaxQueueBytes

LEMMA SizesType ==
    ASSUME TypeOK
    PROVE  /\ Sizes \in [Ranks -> Nat]
           /\ BufferBounded <=> /\ WithinBudgets(Sizes, ready, nextPublish)
                                /\ ~Joined => bufferedBytes = Cardinality(Held(Sizes, ready))
  <1>1. \A r \in Ranks : ResultBytes(r) \in Nat
    BY PlanAssumption DEF ResultBytes
  <1>2. Sizes \in [Ranks -> Nat] /\ \A r \in Ranks : Sizes[r] = ResultBytes(r)
    BY <1>1 DEF Sizes
  <1>3. ASSUME NEW S \in SUBSET Ranks PROVE BytesOf(S) = Held(Sizes, S)
    BY <1>2 DEF BytesOf, Held
  <1>4. ready \in SUBSET Ranks /\ ready \ {nextPublish} \in SUBSET Ranks
    BY DEF TypeOK, RunnerTypeOK
  <1>5. QED
    BY <1>2, <1>3, <1>4 DEF BufferBounded, WithinBudgets

\* The same after a step.
LEMMA SizesTypeNext ==
    ASSUME TypeOK'
    PROVE  /\ Sizes' \in [Ranks -> Nat]
           /\ \A r \in Ranks : outcome'[r] = outcome[r] => Sizes'[r] = Sizes[r]
           /\ BufferBounded' <=> /\ WithinBudgets(Sizes', ready', nextPublish')
                                 /\ ~Joined' => bufferedBytes' = Cardinality(Held(Sizes', ready'))
  <1>1. \A r \in Ranks : ResultBytes(r)' \in Nat
    BY PlanAssumption DEF ResultBytes
  <1>2. Sizes' \in [Ranks -> Nat] /\ \A r \in Ranks : Sizes'[r] = ResultBytes(r)'
    BY <1>1 DEF Sizes
  <1>3. \A r \in Ranks : outcome'[r] = outcome[r] => Sizes'[r] = Sizes[r]
    BY <1>2 DEF Sizes, ResultBytes
  <1>4. ready' \in SUBSET Ranks /\ ready' \ {nextPublish'} \in SUBSET Ranks
    BY DEF TypeOK, RunnerTypeOK
  <1>5. BytesOf(ready)' = Held(Sizes', ready')
    BY <1>2, <1>4 DEF BytesOf, Held
  <1>6. BytesOf(ready \ {nextPublish})' = Held(Sizes', ready' \ {nextPublish'})
    BY <1>2, <1>4 DEF BytesOf, Held
  <1>7. QED
    BY <1>2, <1>3, <1>5, <1>6 DEF BufferBounded, WithinBudgets

\* Taking results out, or leaving them, keeps within the budgets.
LEMMA BudgetsFewer ==
    ASSUME NEW a \in [Ranks -> Nat], NEW b \in [Ranks -> Nat],
           NEW S \in SUBSET Ranks, NEW T \in SUBSET S, \A r \in T : a[r] = b[r],
           NEW m, NEW n, T \ {n} \subseteq S \ {m}, WithinBudgets(a, S, m)
    PROVE  WithinBudgets(b, T, n)
  <1> DEFINE A == S \ {m}
             B == T \ {n}
  <1>1. A \in SUBSET Ranks /\ B \in SUBSET A /\ B \in SUBSET Ranks
    OBVIOUS
  <1>2. Cardinality(A) <= MaxQueueItems /\ Cardinality(Held(a, A)) <= MaxQueueBytes
    BY DEF WithinBudgets
  <1>3. \A r \in B : a[r] = b[r]
    OBVIOUS
  <1> HIDE DEF A, B
  <1>4. Held(a, B) = Held(b, B)
    BY <1>3, HeldSame
  <1>5. Cardinality(B) <= Cardinality(A) /\ Cardinality(Held(a, B)) <= Cardinality(Held(a, A))
    BY <1>1, HeldFewer
  <1>6. /\ Cardinality(A) \in Nat /\ Cardinality(Held(a, A)) \in Nat
        /\ Cardinality(B) \in Nat /\ Cardinality(Held(a, B)) \in Nat
    BY <1>1, HeldFinite, FS_CardinalityType
  <1>7. Cardinality(B) <= MaxQueueItems /\ Cardinality(Held(b, B)) <= MaxQueueBytes
    BY <1>2, <1>4, <1>5, <1>6, PlanAssumption
  <1>8. QED
    BY <1>7 DEF WithinBudgets, B

\* A step that leaves the buffer alone, or drains it once the pool is joined.
LEMMA BufferShrinks ==
    ASSUME TypeOK, TypeOK', BufferBounded, ready' \subseteq ready,
           nextPublish' = nextPublish, \A r \in ready : outcome'[r] = outcome[r],
           ~Joined' => ~Joined /\ ready' = ready /\ bufferedBytes' = bufferedBytes
    PROVE  BufferBounded'
  <1>1. /\ ready \in SUBSET Ranks /\ ready' \in SUBSET ready
        /\ Sizes \in [Ranks -> Nat] /\ Sizes' \in [Ranks -> Nat]
    BY SizesType, SizesTypeNext DEF TypeOK, RunnerTypeOK
  <1>2. \A r \in ready : Sizes[r] = Sizes'[r]
    BY <1>1, SizesTypeNext
  <1>3. /\ WithinBudgets(Sizes, ready, nextPublish)
        /\ ~Joined => bufferedBytes = Cardinality(Held(Sizes, ready))
    BY SizesType
  <1>4. \A r \in ready' : Sizes[r] = Sizes'[r]
    BY <1>1, <1>2
  <1>5. ready' \ {nextPublish'} \subseteq ready \ {nextPublish}
    BY <1>1
  <1>6. WithinBudgets(Sizes', ready', nextPublish')
    BY <1>1, <1>3, <1>4, <1>5, BudgetsFewer
  <1>7. Held(Sizes, ready) = Held(Sizes', ready)
    BY <1>2, HeldSame
  <1>8. ~Joined' => bufferedBytes' = Cardinality(Held(Sizes', ready'))
    BY <1>3, <1>7
  <1>9. QED
    BY <1>6, <1>8, SizesTypeNext

\* worker_body lets a result in within the budgets, or when its rank is the next.
LEMMA AdmitBuffer ==
    ASSUME TypeOK, TypeOK', GateInv, Places, BufferBounded, NEW w \in Workers, Admit(w)
    PROVE  BufferBounded'
  <1>1. CASE ~MayAdmit(job[w]) \/ stopping
    <2>1. /\ UNCHANGED <<ready, bufferedBytes, ppc, nextPublish>> /\ outcome' = outcome
      BY <1>1 DEF Admit, resultVars
    <2>2. QED
      BY <2>1, BufferShrinks DEF Joined
  <1>2. CASE MayAdmit(job[w]) /\ ~stopping
    <2> DEFINE r == job[w]
    <2>1. /\ ready' = ready \cup {r} /\ bufferedBytes' = bufferedBytes + ResultBytes(r)
          /\ nextPublish' = nextPublish /\ outcome' = outcome
      BY <1>2 DEF Admit, resultVars
    <2>2. r \in Ranks /\ r \notin ready /\ ~Joined /\ ready \in SUBSET Ranks
      <3>1. Busy(w) /\ pc[w] = "admit"
        BY DEF Admit, Busy
      <3>2. QED
        BY <3>1, BusyNotJoined, Numbers DEF Places, TypeOK, RunnerTypeOK
    <2>3. r = nextPublish \/ (/\ Cardinality(ready) < MaxQueueItems
                              /\ bufferedBytes + ResultBytes(r) <= MaxQueueBytes)
      BY <1>2 DEF MayAdmit
    <2> HIDE DEF r
    <2>4. Sizes' = Sizes /\ Sizes \in [Ranks -> Nat] /\ Sizes[r] = ResultBytes(r)
      BY <2>1, <2>2, SizesType DEF Sizes, ResultBytes
    <2>5. /\ WithinBudgets(Sizes, ready, nextPublish)
          /\ bufferedBytes = Cardinality(Held(Sizes, ready))
      BY <2>2, SizesType
    <2>6. Cardinality(Held(Sizes, ready \cup {r})) = Cardinality(Held(Sizes, ready)) + Sizes[r]
      BY <2>2, <2>4, HeldAdd
    <2>7. bufferedBytes' = Cardinality(Held(Sizes', ready'))
      BY <2>1, <2>4, <2>5, <2>6
    <2>8. CASE r = nextPublish
      <3>1. ready' \ {nextPublish'} = ready \ {nextPublish}
        BY <2>1, <2>8
      <3>2. WithinBudgets(Sizes', ready', nextPublish')
        BY <2>4, <2>5, <3>1 DEF WithinBudgets
      <3>3. QED
        BY <2>7, <3>2, SizesTypeNext
    <2>9. CASE r # nextPublish
      <3> DEFINE A == ready'
                 B == ready' \ {nextPublish'}
      <3>1. A \in SUBSET Ranks /\ B \in SUBSET A
        BY <2>1, <2>2
      <3>2. /\ IsFiniteSet(ready) /\ IsFiniteSet(A) /\ IsFiniteSet(B)
            /\ Cardinality(Held(Sizes, A)) \in Nat /\ Cardinality(Held(Sizes, B)) \in Nat
        BY <2>2, <2>4, <3>1, HeldFinite
      <3>3. Cardinality(A) = Cardinality(ready) + 1
        BY <2>1, <2>2, <3>2, FS_AddElement
      <3>4. Cardinality(ready) \in Nat /\ Cardinality(B) \in Nat
        BY <3>2, FS_CardinalityType
      <3>5. Cardinality(B) <= Cardinality(A) /\ Cardinality(Held(Sizes, B)) <= Cardinality(Held(Sizes, A))
        BY <2>4, <3>1, HeldFewer
      <3>6. Cardinality(Held(Sizes, A)) = bufferedBytes + ResultBytes(r)
        BY <2>1, <2>4, <2>7
      <3> HIDE DEF A, B
      <3>7. Cardinality(B) <= MaxQueueItems
        BY <2>3, <2>9, <3>3, <3>4, <3>5, PlanAssumption
      <3>8. Cardinality(Held(Sizes, B)) <= MaxQueueBytes
        BY <2>3, <2>9, <3>2, <3>5, <3>6, PlanAssumption
      <3>9. WithinBudgets(Sizes', ready', nextPublish')
        BY <2>4, <3>7, <3>8 DEF WithinBudgets, B
      <3>10. QED
        BY <2>7, <3>9, SizesTypeNext
    <2>10. QED
      BY <2>8, <2>9
  <1>3. QED
    BY <1>1, <1>2

\* The publisher takes the next result out, with the bytes it brought.
LEMMA CollectBuffer ==
    ASSUME TypeOK, TypeOK', BufferBounded, Collect
    PROVE  BufferBounded'
  <1>1. outcome' = outcome /\ ~Joined
    BY DEF Collect, resultVars, Joined
  <1>2. CASE nextPublish \notin ready
    <2>1. /\ UNCHANGED <<ready, bufferedBytes, nextPublish>>
      BY <1>2 DEF Collect
    <2>2. QED
      BY <1>1, <2>1, BufferShrinks
  <1>3. CASE nextPublish \in ready
    <2> DEFINE r == nextPublish
               T == ready \ {r}
    <2>1. /\ ready' = T /\ bufferedBytes' = bufferedBytes - ResultBytes(r)
      BY <1>3 DEF Collect
    <2>2. ready \in SUBSET Ranks /\ r \in Ranks /\ T \in SUBSET ready /\ T \in SUBSET Ranks
          /\ r \notin T /\ T \cup {r} = ready
      BY <1>3 DEF TypeOK, RunnerTypeOK
    <2>3. T \ {nextPublish'} \subseteq ready \ {nextPublish}
      OBVIOUS
    <2> HIDE DEF r, T
    <2>4. Sizes' = Sizes /\ Sizes \in [Ranks -> Nat] /\ Sizes[r] = ResultBytes(r)
      BY <1>1, <2>2, SizesType DEF Sizes, ResultBytes
    <2>5. /\ WithinBudgets(Sizes, ready, nextPublish)
          /\ bufferedBytes = Cardinality(Held(Sizes, ready))
      BY <1>1, SizesType
    <2>6. Cardinality(Held(Sizes, ready)) = Cardinality(Held(Sizes, T)) + Sizes[r]
      BY <2>2, <2>4, HeldAdd
    <2>7. Cardinality(Held(Sizes, T)) \in Nat /\ Sizes[r] \in Nat
      BY <2>2, <2>4, HeldFinite
    <2>8. bufferedBytes' = Cardinality(Held(Sizes', ready'))
      BY <2>1, <2>4, <2>5, <2>6, <2>7
    <2>9. WithinBudgets(Sizes, T, nextPublish')
      BY <2>2, <2>3, <2>4, <2>5, BudgetsFewer
    <2>10. WithinBudgets(Sizes', ready', nextPublish')
      BY <2>1, <2>4, <2>9
    <2>11. QED
      BY <2>8, <2>10, SizesTypeNext
  <1>4. QED
    BY <1>2, <1>3

\* The buffer of the windowed runner respects its budgets in every run: results
\* that wait behind the next rank are at most max_queue_items with at most
\* max_queue_bytes, and buffered_bytes is what they and the next one hold,
\* whatever completes, fails or is cancelled in whatever order.
THEOREM Bounded == Spec => []BufferBounded
  <1> USE DEF runnerVars
  <1>1. Init => BufferBounded
    <2>1. SUFFICES ASSUME Init PROVE BufferBounded
      OBVIOUS
    <2>2. ready = {} /\ bufferedBytes = 0
      BY <2>1 DEF Init
    <2>3. BytesOf({}) = {} /\ Cardinality({}) = 0
      BY FS_EmptySet DEF BytesOf
    <2>4. ready \ {nextPublish} = {}
      BY <2>2
    <2>5. 0 <= MaxQueueItems /\ 0 <= MaxQueueBytes
      BY PlanAssumption
    <2>6. QED
      BY <2>2, <2>3, <2>4, <2>5 DEF BufferBounded
  <1>2. ASSUME TypeOK, TypeOK', GateInv, PubInv, BufferBounded, [Next]_vars
        PROVE  BufferBounded'
    <2>1. Places
      BY <1>2 DEF PubInv
    <2>2. ASSUME NEW w \in Workers, Inner(w) PROVE BufferBounded'
      <3>1. /\ UNCHANGED <<ready, bufferedBytes, nextPublish, ppc>> /\ Busy(w)
            /\ \A r \in Ranks \ {job[w]} : outcome'[r] = outcome[r]
        BY <1>2, <2>2, InnerStep DEF windowVars
      <3>2. \A r \in ready : outcome'[r] = outcome[r]
        BY <1>2, <2>1, <3>1 DEF Places, TypeOK, RunnerTypeOK
      <3>3. QED
        BY <1>2, <3>1, <3>2, BufferShrinks DEF Joined
    <2>3. ASSUME NEW w \in Workers, Dispatch(w) \/ Abandon(w) PROVE BufferBounded'
      <3>1. UNCHANGED <<ready, bufferedBytes, nextPublish, ppc, outcome>>
        BY <2>3 DEF Dispatch, Abandon, windowVars, resultVars
      <3>2. QED
        BY <1>2, <3>1, BufferShrinks DEF Joined
    <2>4. ASSUME NEW w \in Workers, Admit(w) PROVE BufferBounded'
      BY <1>2, <2>1, <2>4, AdmitBuffer
    <2>5. CASE Collect
      BY <1>2, <2>5, CollectBuffer
    <2>6. CASE PublisherStep /\ ~Collect
      <3>1. /\ ready' \subseteq ready /\ UNCHANGED <<nextPublish, outcome>>
            /\ ~Joined' => ~Joined /\ ready' = ready /\ bufferedBytes' = bufferedBytes
        <4> USE DEF resultVars, Joined
        <4>1. CASE Spawn \/ SpawnFails \/ PollCancelled \/ CloseWindow
          BY <4>1 DEF Spawn, SpawnFails, PollCancelled, CloseWindow
        <4>2. CASE ApplyWindow \/ ReplayWindow \/ RollbackFails
          BY <4>2 DEF ApplyWindow, ReplayWindow, RollbackFails
        <4>3. CASE ReplayItem \/ ReplayAborts \/ ReplayDone
          BY <4>3 DEF ReplayItem, ReplayAborts, ReplayDone
        <4>4. CASE Settle \/ ObserverThrows \/ WindowPublished \/ StopPool
          BY <4>4 DEF Settle, ObserverThrows, TellObserver, WindowPublished, StopPool
        <4>5. CASE JoinPool \/ DrainReady \/ Drained \/ CancelAfterRun
          BY <4>5 DEF JoinPool, DrainReady, Drained, CancelAfterRun
        <4>6. QED
          BY <2>6, <4>1, <4>2, <4>3, <4>4, <4>5 DEF PublisherStep
      <3>2. QED
        BY <1>2, <3>1, BufferShrinks
    <2>7. CASE RequestCancel \/ EditHeader \/ UNCHANGED vars
      <3>1. UNCHANGED <<ready, bufferedBytes, nextPublish, ppc, outcome>>
        BY <2>7 DEF RequestCancel, EditHeader, vars, windowVars, resultVars
      <3>2. QED
        BY <1>2, <3>1, BufferShrinks DEF Joined
    <2>8. QED
      BY <1>2, <2>2, <2>3, <2>4, <2>5, <2>6, <2>7 DEF Next, WorkerStep, Inner, Returned
  <1>3. QED
    BY <1>1, <1>2, Publication, NextTypeOK, PTL DEF Spec

-----------------------------------------------------------------------------
(***************************************************************************)
(* Amortisation: which unit extracts a header.                             *)
(***************************************************************************)

\* Digests count the edits of a header.
LEMMA DigestNumbers ==
    ASSUME TypeOK
    PROVE  /\ \A k \in Keys : content[k] \in Int /\ 0 <= content[k]
           /\ \A r \in Ranks, k \in Keys : parsed[r][k] \in Int /\ 0 <= parsed[r][k]
           /\ \A k \in Keys : granted[k] # NoGrant =>
                granted[k] \in Grant /\ granted[k].md5 \in Int /\ 0 <= granted[k].md5
  <1>1. \A d \in Digests : d \in Int /\ 0 <= d
    BY PlanAssumption
  <1>2. \A k \in Keys : content[k] \in Digests
    BY DEF TypeOK, EnvTypeOK
  <1>3. \A r \in Ranks, k \in Keys : parsed[r][k] \in Digests
    BY DEF TypeOK, ResultsTypeOK
  <1>4. \A k \in Keys : granted[k] # NoGrant => granted[k] \in Grant /\ granted[k].md5 \in Digests
    BY DEF TypeOK, ClaimsTypeOK, Grant
  <1>5. QED
    BY <1>1, <1>2, <1>3, <1>4

\* A step that grants nothing and leaves the headers alone; a unit may lose
\* what it owned, or be reported failed.
LEMMA GrantsStay ==
    ASSUME Granted, UNCHANGED <<granted, parsed, content>>,
           \A r \in Ranks : owned'[r] \subseteq owned[r],
           \A r \in Ranks : reported'[r] # "failed" => reported[r] # "failed"
    PROVE  Granted'
  BY DEF Granted

\* A unit that ends an attempt without a batch owns nothing.
LEMMA DropGrants ==
    ASSUME TypeOK, Granted, NEW w \in Workers, NEW oc, Drop(w, oc),
           UNCHANGED <<granted, content, reported>>
    PROVE  Granted'
  <1>1. job[w] \in Ranks /\ owned \in [Ranks -> SUBSET Keys]
    BY DEF TypeOK, WorkersTypeOK, ResultsTypeOK
  <1>2. \A r \in Ranks : owned'[r] \subseteq owned[r]
    BY <1>1 DEF Drop
  <1>3. QED
    BY <1>2, GrantsStay DEF Drop

\* A claim takes no unedited header from the unit that extracts it: both saw
\* the bytes of the start of the run, so the key counts as owned elsewhere.
LEMMA ClaimGrants ==
    ASSUME TypeOK, Granted, NEW w \in Workers, ClaimHeaders(w)
    PROVE  Granted'
  <1> USE DigestNumbers
  <1>1. /\ UNCHANGED <<parsed, content, reported>>
        /\ job[w] \in Ranks /\ owned \in [Ranks -> SUBSET Keys]
    BY DEF ClaimHeaders, windowVars, envVars, TypeOK, WorkersTypeOK, ResultsTypeOK
  <1> DEFINE r == job[w]
             mine == OwnedKeys(r, Includes[r], parsed[r], AlreadyIndexed(r))
  <1>2. CASE UNCHANGED <<granted, owned>>
    BY <1>1, <1>2, GrantsStay
  <1>3. CASE oracleCancelled /\ GateOpen(r)
    <2>1. mine = {}
      BY <1>3 DEF OwnedKeys
    <2>2. UNCHANGED granted /\ owned' = [owned EXCEPT ![r] = mine]
      BY <1>3 DEF ClaimHeaders, Claim, claimVars
    <2>3. \A s \in Ranks : owned'[s] \subseteq owned[s]
      BY <1>1, <2>1, <2>2
    <2>4. QED
      BY <1>1, <2>2, <2>3, GrantsStay
  <1>4. CASE ~oracleCancelled /\ GateOpen(r)
    <2>1. /\ owned' = [owned EXCEPT ![r] = mine]
          /\ granted' = [k \in Keys |-> IF k \in mine THEN [md5 |-> parsed[r][k], owner |-> r]
                                                      ELSE granted[k]]
      BY <1>4 DEF ClaimHeaders, Claim
    <2>2. \A k \in mine : ~OwnedElsewhere(r, k, parsed[r][k])
      BY <1>4 DEF OwnedKeys
    <2>3. Includes[r] \subseteq Keys
      BY <1>1, PlanAssumption
    <2>4. mine \subseteq Keys
      BY <1>4, <2>3 DEF OwnedKeys
    <2> HIDE DEF mine
    <2>5. ASSUME NEW k \in mine
          PROVE  granted'[k] # NoGrant /\ granted'[k].owner = r /\ granted'[k].md5 = parsed[r][k]
      <3>1. granted'[k] = [md5 |-> parsed[r][k], owner |-> r]
        BY <2>1, <2>4
      <3>2. parsed[r][k] \in Digests
        BY <1>1, <2>4 DEF TypeOK, ResultsTypeOK
      <3>3. granted'[k] \in Grant
        BY <1>1, <3>1, <3>2 DEF Grant
      <3>4. QED
        BY <3>1, <3>3, NoGrantAssumption
    <2>6. \A k \in Keys \ mine : granted'[k] = granted[k]
      BY <2>1
    <2>7. \A s \in Ranks, k \in Keys : parsed'[s][k] <= content'[k]
      BY <1>1 DEF Granted
    <2>8. ASSUME NEW k \in Keys, granted'[k] # NoGrant PROVE granted'[k].md5 <= content'[k]
      BY <1>1, <2>5, <2>6, <2>8 DEF Granted
    <2>9. ASSUME NEW s \in Ranks, reported'[s] # "failed", NEW k \in owned'[s], content'[k] = 0
          PROVE  granted'[k] # NoGrant /\ granted'[k].owner = s
      <3>1. CASE s = r
        BY <1>1, <2>1, <2>5, <2>9, <3>1
      <3>2. CASE s # r
        <4>1. k \in owned[s] /\ k \in Keys
          BY <1>1, <2>1, <2>9, <3>2
        <4>2. granted[k] # NoGrant /\ granted[k].owner = s /\ granted[k].md5 <= content[k]
          BY <1>1, <2>9, <4>1 DEF Granted
        <4>3. parsed[r][k] = 0 /\ granted[k].md5 = 0
          BY <1>1, <2>9, <4>1, <4>2 DEF Granted
        <4>4. k \notin mine
          BY <2>2, <3>2, <4>2, <4>3 DEF OwnedElsewhere
        <4>5. QED
          BY <2>6, <4>1, <4>2, <4>4
      <3>3. QED
        BY <3>1, <3>2
    <2>10. QED
      BY <2>7, <2>8, <2>9 DEF Granted
  <1>5. QED
    BY <1>2, <1>3, <1>4 DEF ClaimHeaders, claimVars

\* Workers: a parse sees the headers as they are, a claim is ordered, and a
\* failed attempt keeps nothing.
LEMMA WorkerGrants ==
    ASSUME TypeOK, Granted, NEW w \in Workers, WorkerStep(w)
    PROVE  Granted'
  <1> USE DigestNumbers
  <1>1. CASE ThrowBeforeClaim(w) \/ PchPreflightFails(w)
    BY <1>1, DropGrants DEF ThrowBeforeClaim, PchPreflightFails, claimVars, windowVars, envVars
  <1>2. CASE FrontEndFails(w)
    <2>1. PICK oc \in {"failed", "changed"} : ReleaseUnclaimed(job[w]) /\ Drop(w, oc)
      BY <1>2 DEF FrontEndFails, AttemptWithoutBatch
    <2>2. UNCHANGED granted
      BY <2>1 DEF ReleaseUnclaimed, claimVars
    <2>3. UNCHANGED <<content, reported>>
      BY <1>2 DEF FrontEndFails, windowVars, envVars
    <2>4. QED
      BY <2>1, <2>2, <2>3, DropGrants
  <1>3. CASE Parse(w)
    <2>1. UNCHANGED <<granted, content, owned, reported>> /\ job[w] \in Ranks
      BY <1>3 DEF Parse, claimVars, windowVars, envVars, TypeOK, WorkersTypeOK
    <2>2. \A k \in Keys : parsed'[job[w]][k] \in {content[k], 0}
      BY <1>3, <2>1 DEF Parse, TypeOK, ResultsTypeOK
    <2>3. \A r \in Ranks \ {job[w]} : parsed'[r] = parsed[r]
      BY <1>3, <2>1 DEF Parse, TypeOK, ResultsTypeOK
    <2>4. \A r \in Ranks, k \in Keys : parsed'[r][k] <= content'[k]
      BY <2>1, <2>2, <2>3 DEF Granted
    <2>5. QED
      BY <2>1, <2>4 DEF Granted
  <1>4. CASE ClaimHeaders(w)
    BY <1>4, ClaimGrants
  <1>5. CASE ExtractOk(w)
    BY <1>5, GrantsStay DEF ExtractOk, claimVars, windowVars, envVars
  <1>6. CASE ExtractFails(w)
    <2>1. PICK oc \in {"failed", "changed"} : Drop(w, oc)
      BY <1>6 DEF ExtractFails, AttemptWithoutBatch
    <2>2. UNCHANGED <<granted, content, reported>>
      BY <1>6 DEF ExtractFails, claimVars, windowVars, envVars
    <2>3. QED
      BY <2>1, <2>2, DropGrants
  <1>7. CASE Dispatch(w) \/ Admit(w)
    BY <1>7, GrantsStay DEF Dispatch, Admit, claimVars, resultVars, windowVars, envVars
  <1>8. CASE Abandon(w)
    <2>1. UNCHANGED <<granted, content, reported, parsed, owned>>
      BY <1>8 DEF Abandon, ReleaseUnclaimed, claimVars, resultVars, envVars
    <2>2. QED
      BY <2>1, GrantsStay
  <1>9. QED
    BY <1>1, <1>2, <1>3, <1>4, <1>5, <1>6, <1>7, <1>8 DEF WorkerStep

\* A refused unit loses its grants in the step that reports it failed.
LEMMA SettleGrants ==
    ASSUME TypeOK, PubInv, Granted, Settle \/ ObserverThrows
    PROVE  Granted'
  <1>0. TellObserver
    BY DEF Settle, ObserverThrows
  <1>1. /\ UNCHANGED <<parsed, owned, content>> /\ pos \in Ranks
        /\ reported' = [reported EXCEPT ![pos] =
                          IF pos \in applied THEN "published" ELSE "failed"]
    BY Numbers DEF Settle, ObserverThrows, TellObserver, resultVars, envVars, TypeOK, WindowTypeOK
  <1>2. \A r \in Ranks \ {pos} : reported'[r] = reported[r]
    BY <1>1 DEF TypeOK, WindowTypeOK
  <1>3. reported'[pos] = IF pos \in applied THEN "published" ELSE "failed"
    BY <1>1 DEF TypeOK, WindowTypeOK
  <1>4. CASE pos \in WriterItems \ applied
    <2>1. reported'[pos] = "failed"
      BY <1>3, <1>4
    <2>2. granted' = [k \in Keys |-> IF granted[k] # NoGrant /\ granted[k].owner = pos
                                     THEN NoGrant ELSE granted[k]]
      BY <1>0, <1>4 DEF TellObserver, RevokeGrants
    <2>3. \A k \in Keys : granted'[k] # NoGrant => granted'[k] = granted[k]
      BY <2>2
    <2>4. \A k \in Keys : granted[k] # NoGrant /\ granted[k].owner # pos => granted'[k] = granted[k]
      BY <2>2
    <2>5. \A k \in Keys : granted'[k] # NoGrant => granted'[k].md5 <= content'[k]
      BY <1>1, <2>3 DEF Granted
    <2>6. ASSUME NEW s \in Ranks, reported'[s] # "failed", NEW k \in owned'[s], content'[k] = 0
          PROVE  granted'[k] # NoGrant /\ granted'[k].owner = s
      <3>1. s # pos /\ reported[s] # "failed" /\ k \in owned[s]
        BY <1>1, <1>2, <2>1, <2>6
      <3>2. k \in Keys
        BY <3>1 DEF TypeOK, ResultsTypeOK
      <3>3. granted[k] # NoGrant /\ granted[k].owner = s
        BY <1>1, <2>6, <3>1 DEF Granted
      <3>4. QED
        BY <2>4, <3>1, <3>2, <3>3
    <2>7. QED
      BY <1>1, <2>5, <2>6 DEF Granted
  <1>5. CASE ~(pos \in WriterItems \ applied)
    <2>0. reported[pos] = "none"
      BY <1>0, <1>1, Numbers DEF TellObserver, PubInv, Reports, Told, Stages
    <2>1. UNCHANGED granted
      BY <1>0, <1>5 DEF TellObserver, claimVars
    <2>2. \A r \in Ranks : reported'[r] # "failed" => reported[r] # "failed"
      BY <1>2, <2>0
    <2>3. QED
      BY <1>1, <2>1, <2>2, GrantsStay
  <1>6. QED
    BY <1>4, <1>5

\* An edit takes a header out of the reach of the claim, never back into it.
LEMMA EditGrants ==
    ASSUME TypeOK, Granted, EditHeader
    PROVE  Granted'
  <1> USE DigestNumbers
  <1>1. UNCHANGED <<granted, parsed, owned, reported>>
    BY DEF EditHeader, claimVars, resultVars, windowVars
  <1>2. PICK h \in Keys : content' = [content EXCEPT ![h] = @ + 1]
    BY DEF EditHeader
  <1>3. \A k \in Keys : content[k] <= content'[k] /\ (content'[k] = 0 => content[k] = 0)
        /\ content'[k] \in Int
    BY <1>2 DEF TypeOK, EnvTypeOK
  <1>4. \A r \in Ranks, k \in Keys : parsed'[r][k] <= content'[k]
    BY <1>1, <1>3 DEF Granted
  <1>5. \A k \in Keys : granted'[k] # NoGrant => granted'[k].md5 <= content'[k]
    BY <1>1, <1>3 DEF Granted
  <1>6. \A r \in Ranks : owned[r] \subseteq Keys
    BY DEF TypeOK, ResultsTypeOK
  <1>7. QED
    BY <1>1, <1>3, <1>4, <1>5, <1>6 DEF Granted

\* Initially no header is granted or owned.
LEMMA InitGranted == Init => Granted
  <1> SUFFICES ASSUME Init PROVE Granted
    OBVIOUS
  <1>1. \A r \in Ranks, k \in Keys : parsed[r][k] = 0 /\ content[k] = 0
    BY DEF Init
  <1>2. \A k \in Keys : granted[k] = NoGrant
    BY DEF Init, ClaimsInit
  <1>3. \A r \in Ranks : owned[r] = {}
    BY DEF Init
  <1>4. QED
    BY <1>1, <1>2, <1>3 DEF Granted

\* Every step keeps Granted.
LEMMA NextGranted ==
    ASSUME TypeOK, PubInv, Granted, [Next]_vars
    PROVE  Granted'
  <1>1. CASE \E w \in Workers : WorkerStep(w)
    BY <1>1, WorkerGrants
  <1>2. CASE Settle \/ ObserverThrows
    BY <1>2, SettleGrants
  <1>3. CASE EditHeader
    BY <1>3, EditGrants
  <1>4. CASE DrainReady
    <2>1. UNCHANGED <<granted, content, reported, parsed, owned>>
      BY <1>4 DEF DrainReady, ReleaseUnclaimed, claimVars, resultVars, envVars
    <2>2. QED
      BY <2>1, GrantsStay
  <1>5. CASE PublisherStep /\ ~Settle /\ ~ObserverThrows /\ ~DrainReady
    <2>1. UNCHANGED <<granted, content, reported, parsed, owned>>
      BY <1>5 DEF PublisherStep, Spawn, SpawnFails, PollCancelled, Collect, CloseWindow,
           ApplyWindow, ReplayItem, ReplayWindow, RollbackFails, ReplayAborts, ReplayDone,
           WindowPublished, StopPool, JoinPool, Drained, CancelAfterRun,
           CancelOracle, claimVars, resultVars, envVars
    <2>2. QED
      BY <2>1, GrantsStay
  <1>6. CASE RequestCancel \/ UNCHANGED vars
    <2>1. UNCHANGED <<granted, content, reported, parsed, owned>>
      BY <1>6 DEF RequestCancel, vars, claimVars, resultVars, windowVars, envVars
    <2>2. QED
      BY <2>1, GrantsStay
  <1>7. QED
    BY <1>1, <1>2, <1>3, <1>4, <1>5, <1>6 DEF Next, Returned

\* A header that nobody edits during the run is extracted by at most one unit
\* that is, or may yet be, published: claims are ordered, a retry gets its own
\* grants back, and a refused unit is revoked and reported failed together.
THEOREM OnlyOnce == Spec => []ExtractedOnce
  <1>1. Init => Granted
    BY InitGranted
  <1>2. TypeOK /\ GateInv /\ PubInv /\ Granted /\ [Next]_vars => Granted'
    BY NextGranted
  <1>3. TypeOK /\ Granted => ExtractedOnce
    <2> SUFFICES ASSUME TypeOK, Granted, NEW r \in Ranks, NEW s \in Ranks,
                        r # s, Live(r), Live(s), NEW k \in owned[r] \cap owned[s],
                        content[k] = 0
                 PROVE  FALSE
      BY DEF ExtractedOnce
    <2>1. granted[k].owner = r /\ granted[k].owner = s
      BY DEF Granted, Live
    <2>2. QED
      BY <2>1
  <1>4. QED
    BY <1>1, <1>2, <1>3, Publication, PTL DEF Spec

-----------------------------------------------------------------------------
(***************************************************************************)
(* ParallelIndex implements SerialIndex: a parallel run publishes what the *)
(* serial run would, in its order, with every header assigned to the unit  *)
(* the serial run gives it to.                                             *)
(***************************************************************************)
\* The faults by which a unit fails, or is sent back, after a claim that
\* higher-ranked units already rely on.
LosesClaims == {"parse_changed", "extract", "changed", "rollback", "writer", "begin"}

\* No header is edited during the run, and no unit fails after its claim.
ClaimsStand == MaxEdits = 0 /\ Faults \cap LosesClaims = {}

-----------------------------------------------------------------------------
(***************************************************************************)
(* The inductive invariant, beside TypeOK, GateInv and PubInv.             *)
(***************************************************************************)

\* A unit that has claimed its headers, and holds or has published its batch.
Claimed(r) == outcome[r] = "ok" \/ \E w \in Workers : pc[w] = "extract" /\ job[w] = r

\* The unit that extracts a header is the one the oracle granted it to.
Extractors ==
  /\ \A w \in Workers : attempt[w] = 0
  /\ \A r \in Ranks : \A k \in owned[r] :
       granted[k] # NoGrant /\ granted[k].owner = r /\ k \in Includes[r] \ Current
  /\ \A k \in Keys : granted[k] # NoGrant =>
       k \in owned[granted[k].owner] /\ Claimed(granted[k].owner)

\* A header of a unit that has claimed is extracted by it or by a lower one.
Provided ==
  \A r \in Ranks : Claimed(r) =>
    \A k \in Includes[r] \ Current : granted[k] # NoGrant /\ granted[k].owner <= r

\* The writer has committed every unit with a batch that it has decided.
Persisted ==
  /\ \A r \in committed : outcome[r] = "ok"
  /\ \A r \in Ranks : r < Decided /\ outcome[r] = "ok" => r \in committed

\* What the database held before the run, it still holds.
CurrentKept == \A k \in Current : row[k] # NoRow

SerialInv == Extractors /\ Provided /\ Persisted /\ CurrentKept

-----------------------------------------------------------------------------
(***************************************************************************)
(* Lemmas.                                                                 *)
(***************************************************************************)

\* Every digest is that of the start of the run, so no source is ever stale.
LEMMA Unedited ==
    ASSUME ClaimsStand, TypeOK
    PROVE  /\ \A r \in Ranks, k \in Keys : parsed[r][k] = content[k] /\ content[k] = 0
           /\ \A k \in Keys : granted[k] # NoGrant => granted[k].md5 = 0
           /\ \A r \in Ranks : SourcesCurrent(r)
           /\ \A r \in Ranks : AlreadyIndexed(r) = Includes[r] \cap Current
  <1>1. \A d \in Digests : d = 0
    BY PlanAssumption DEF ClaimsStand
  <1>2. \A k \in Keys : content[k] = 0
    BY <1>1 DEF TypeOK, EnvTypeOK
  <1>3. \A r \in Ranks, k \in Keys : parsed[r][k] = 0
    BY <1>1 DEF TypeOK, ResultsTypeOK
  <1>4. \A k \in Keys : granted[k] # NoGrant => granted[k].md5 = 0
    BY <1>1 DEF TypeOK, ClaimsTypeOK, Grant
  <1>5. \A r \in Ranks : SourcesCurrent(r)
    <2>1. \A r \in Ranks : owned[r] \subseteq Keys
      BY DEF TypeOK, ResultsTypeOK
    <2>2. QED
      BY <1>2, <1>3, <2>1 DEF SourcesCurrent
  <1>6. \A r \in Ranks : AlreadyIndexed(r) = Includes[r] \cap Current
    <2>1. Current \subseteq Keys
      BY PlanAssumption
    <2>2. QED
      BY <1>2, <1>3, <2>1 DEF AlreadyIndexed
  <1>7. QED
    BY <1>2, <1>3, <1>4, <1>5, <1>6

\* The writer's frontier is an integer between the window's ends.
LEMMA DecidedBounds ==
    ASSUME TypeOK, Places, Stages
    PROVE  Decided \in Int /\ 0 <= Decided /\ Decided <= nextPublish /\ Decided <= Count
  <1>1. windowStart \in Nat /\ pos \in Nat /\ nextPublish \in Nat /\ nextPublish <= Count
    BY CountAssumption DEF TypeOK, WindowTypeOK, RunnerTypeOK
  <1>2. Decided \in {nextPublish, pos, windowStart} /\ Decided <= nextPublish
    BY <1>1 DEF Decided, Places, Stages
  <1>3. QED
    BY <1>1, <1>2, CountAssumption

\* A step that neither claims nor ends an extraction.
LEMMA ClaimsStay ==
    ASSUME Extractors, Provided, UNCHANGED <<granted, owned, outcome>>,
           \A v \in Workers : attempt'[v] = 0,
           \A v \in Workers : /\ pc'[v] = "extract" <=> pc[v] = "extract"
                              /\ pc[v] = "extract" => job'[v] = job[v]
    PROVE  Extractors' /\ Provided'
  <1>1. \A r : Claimed(r)' <=> Claimed(r)
    BY DEF Claimed
  <1>2. Extractors'
    BY <1>1 DEF Extractors
  <1>3. Provided'
    BY <1>1 DEF Provided
  <1>4. QED
    BY <1>2, <1>3

\* A unit that fails ahead of its claim holds no grant.
LEMMA FailsUnclaimed ==
    ASSUME TypeOK, GateInv, Extractors, Provided, NEW w \in Workers, pc[w] = "parse",
           Drop(w, "failed"), UNCHANGED <<granted, job, attempt>>, pc'[w] = "admit",
           \A v \in Workers \ {w} : pc'[v] = "extract" <=> pc[v] = "extract"
    PROVE  Extractors' /\ Provided'
  <1>0. job \in [Workers -> Ranks] /\ job[w] \in Ranks
        /\ outcome \in [Ranks -> {"none", "ok", "failed", "changed"}]
        /\ owned \in [Ranks -> SUBSET Keys]
    BY DEF TypeOK, WorkersTypeOK, ResultsTypeOK
  <1>1. BeforeFirstClaim(w)
    BY DEF BeforeFirstClaim, Extractors
  <1>2. \A k \in Keys : granted[k] # NoGrant => granted[k].owner # job[w] /\ granted[k].owner \in Ranks
    <2>1. \A k \in Keys : granted[k] # NoGrant => granted[k].owner < job[w]
      BY <1>1, GateOrdersClaims DEF NoOvertaking
    <2>2. \A k \in Keys : granted[k] # NoGrant => granted[k].owner \in Ranks
      BY DEF TypeOK, ClaimsTypeOK, Grant
    <2>3. QED
      BY <1>0, <2>1, <2>2, Numbers
  <1>3. /\ \A r \in Ranks \ {job[w]} : outcome'[r] = outcome[r] /\ owned'[r] = owned[r]
        /\ outcome'[job[w]] = "failed" /\ owned'[job[w]] = {}
    BY <1>0 DEF Drop
  <1>4. \A v \in Workers : pc'[v] = "extract" <=> pc[v] = "extract"
    OBVIOUS
  <1>5. \A r \in Ranks \ {job[w]} : Claimed(r)' <=> Claimed(r)
    BY <1>3, <1>4 DEF Claimed
  <1>6. Claimed(job[w])' => Claimed(job[w])
    BY <1>3, <1>4 DEF Claimed
  <1>7. Extractors'
    <2>1. \A v \in Workers : attempt'[v] = 0
      BY DEF Extractors
    <2>2. \A r \in Ranks : \A k \in owned'[r] :
            granted'[k] # NoGrant /\ granted'[k].owner = r /\ k \in Includes[r] \ Current
      BY <1>0, <1>3 DEF Extractors
    <2>3. ASSUME NEW k \in Keys, granted'[k] # NoGrant
          PROVE  (k \in owned[granted[k].owner] /\ Claimed(granted[k].owner))'
      <3>1. PICK o \in Ranks : o = granted[k].owner /\ o # job[w]
        BY <1>2, <2>3
      <3>2. k \in owned[o] /\ Claimed(o)
        BY <2>3, <3>1 DEF Extractors
      <3>3. k \in owned'[o] /\ Claimed(o)'
        BY <1>3, <1>5, <3>1, <3>2
      <3>4. QED
        BY <3>1, <3>3 DEF Claimed
    <2>4. QED
      BY <2>1, <2>2, <2>3 DEF Extractors
  <1>8. Provided'
    BY <1>5, <1>6 DEF Provided
  <1>9. QED
    BY <1>7, <1>8

\* A claim takes the headers nobody has, and finds the others with lower ranks.
LEMMA ClaimProvides ==
    ASSUME ClaimsStand, TypeOK, GateInv, Extractors, Provided,
           NEW w \in Workers, ClaimHeaders(w)
    PROVE  Extractors' /\ Provided'
  <1> DEFINE r == job[w]
             mine == OwnedKeys(r, Includes[r], parsed[r], AlreadyIndexed(r))
  <1>0. /\ pc \in [Workers -> WorkerStates] /\ r \in Ranks /\ owned \in [Ranks -> SUBSET Keys]
        /\ UNCHANGED <<job, attempt, outcome>> /\ pc[w] = "gate" /\ Includes[r] \subseteq Keys
        /\ \A k \in Keys : granted[k] # NoGrant => granted[k].owner \in Ranks
    BY PlanAssumption DEF ClaimHeaders, TypeOK, WorkersTypeOK, ResultsTypeOK, ClaimsTypeOK, Grant
  <1>1. ~oracleCancelled
    BY <1>0, BusyNotJoined
  <1>2. CASE ~GateOpen(r)
    <2>1. UNCHANGED <<granted, owned>> /\ pc' = [pc EXCEPT ![w] = "gate_wait"]
      BY <1>2 DEF ClaimHeaders, claimVars
    <2>2. QED
      BY <1>0, <2>1, ClaimsStay DEF Extractors
  <1>3. CASE GateOpen(r)
    <2>1. /\ owned' = [owned EXCEPT ![r] = mine]
          /\ granted' = [k \in Keys |-> IF k \in mine THEN [md5 |-> parsed[r][k], owner |-> r]
                                                      ELSE granted[k]]
          /\ pc' = WakeGate([pc EXCEPT ![w] = "extract"])
      BY <1>1, <1>3 DEF ClaimHeaders, Claim
    <2>2. \A k \in Keys : granted[k] # NoGrant => granted[k].owner < r
      <3>1. BeforeFirstClaim(w)
        BY <1>0 DEF BeforeFirstClaim, Extractors
      <3>2. QED
        BY <3>1, GateOrdersClaims DEF NoOvertaking
    <2>3. \A k \in Keys : granted[k] # NoGrant => granted[k].owner # r
      BY <1>0, <2>2, Numbers
    <2>4. mine = {k \in Includes[r] \ Current : granted[k] = NoGrant}
      <3>1. AlreadyIndexed(r) = Includes[r] \cap Current
        BY <1>0, Unedited
      <3>2. \A k \in Includes[r] : OwnedElsewhere(r, k, parsed[r][k]) <=> granted[k] # NoGrant
        BY <1>0, <2>3, Unedited DEF OwnedElsewhere
      <3>3. QED
        BY <1>1, <3>1, <3>2 DEF OwnedKeys
    <2>5. mine \subseteq Keys
      BY <1>0, <2>4
    <2> HIDE DEF mine
    <2>6. ASSUME NEW k \in mine PROVE granted'[k] # NoGrant /\ granted'[k].owner = r
      <3>1. granted'[k] = [md5 |-> parsed[r][k], owner |-> r]
        BY <2>1, <2>5
      <3>2. parsed[r][k] \in Digests
        BY <1>0, <2>5 DEF TypeOK, ResultsTypeOK
      <3>3. QED
        BY <1>0, <3>1, <3>2, NoGrantAssumption DEF Grant
    <2>7. \A k \in Keys \ mine : granted'[k] = granted[k]
      BY <2>1
    <2>8. \A k \in Keys : granted[k] # NoGrant => k \notin mine
      BY <2>4
    <2>9. owned'[r] = mine /\ \A s \in Ranks \ {r} : owned'[s] = owned[s]
      BY <1>0, <2>1
    <2>10. \A v \in Workers : pc'[v] = "extract" <=> v = w \/ pc[v] = "extract"
      BY <1>0, <2>1 DEF WakeGate
    <2>11. \A s : Claimed(s)' <=> s = r \/ Claimed(s)
      BY <1>0, <2>10 DEF Claimed
    <2>12. Extractors'
      <3>1. \A v \in Workers : attempt'[v] = 0
        BY <1>0 DEF Extractors
      <3>2. ASSUME NEW s \in Ranks, NEW k \in owned'[s]
            PROVE  granted'[k] # NoGrant /\ granted'[k].owner = s /\ k \in Includes[s] \ Current
        <4>1. CASE s = r
          BY <2>4, <2>6, <2>9, <3>2, <4>1
        <4>2. CASE s # r
          <5>1. k \in owned[s] /\ k \in Keys
            BY <1>0, <2>9, <3>2, <4>2
          <5>2. granted[k] # NoGrant /\ granted[k].owner = s /\ k \in Includes[s] \ Current
            BY <5>1 DEF Extractors
          <5>3. QED
            BY <2>7, <2>8, <5>1, <5>2
        <4>3. QED
          BY <4>1, <4>2
      <3>3. ASSUME NEW k \in Keys, granted'[k] # NoGrant
            PROVE  (k \in owned[granted[k].owner] /\ Claimed(granted[k].owner))'
        <4>1. CASE k \in mine
          <5>1. k \in owned'[r] /\ Claimed(r)' /\ granted'[k].owner = r
            BY <1>0, <2>6, <2>9, <2>11, <4>1
          <5>2. QED
            BY <1>0, <5>1 DEF Claimed
        <4>2. CASE k \notin mine
          <5>1. granted'[k] = granted[k]
            BY <2>7, <4>2
          <5>2. PICK o \in Ranks : o = granted[k].owner /\ o # r
            BY <1>0, <2>3, <3>3, <5>1
          <5>3. k \in owned[o] /\ Claimed(o)
            BY <3>3, <5>1, <5>2 DEF Extractors
          <5>4. k \in owned'[o] /\ Claimed(o)'
            BY <2>9, <2>11, <5>2, <5>3
          <5>5. QED
            BY <5>1, <5>2, <5>4 DEF Claimed
        <4>3. QED
          BY <4>1, <4>2
      <3>4. QED
        BY <3>1, <3>2, <3>3 DEF Extractors
    <2>13. Provided'
      <3> SUFFICES ASSUME NEW s \in Ranks, Claimed(s)', NEW k \in Includes[s] \ Current
                   PROVE  granted'[k] # NoGrant /\ granted'[k].owner <= s
        BY DEF Provided
      <3>0. k \in Keys
        BY PlanAssumption
      <3>1. CASE k \in mine
        <4>1. granted[k] = NoGrant
          BY <2>4, <3>1
        <4>2. s = r
          BY <2>11, <4>1 DEF Provided
        <4>3. QED
          BY <1>0, <2>6, <3>1, <4>2, Numbers
      <3>2. CASE k \notin mine
        <4>1. granted'[k] = granted[k]
          BY <2>7, <3>0, <3>2
        <4>2. CASE s = r
          BY <1>0, <2>2, <2>4, <3>0, <3>2, <4>1, <4>2, Numbers
        <4>3. CASE s # r
          BY <2>11, <4>1, <4>3 DEF Provided
        <4>4. QED
          BY <4>2, <4>3
      <3>3. QED
        BY <3>1, <3>2
    <2>14. QED
      BY <2>12, <2>13
  <1>4. QED
    BY <1>2, <1>3

\* The steps of the workers keep what the oracle promised.
LEMMA WorkerClaims ==
    ASSUME ClaimsStand, TypeOK, GateInv, Extractors, Provided,
           NEW w \in Workers, WorkerStep(w)
    PROVE  Extractors' /\ Provided'
  <1>0. /\ pc \in [Workers -> WorkerStates] /\ job \in [Workers -> Ranks] /\ job[w] \in Ranks
        /\ attempt \in [Workers -> 0 .. MaxRetries] /\ \A v \in Workers : attempt[v] = 0
        /\ outcome \in [Ranks -> {"none", "ok", "failed", "changed"}]
    BY DEF TypeOK, WorkersTypeOK, ResultsTypeOK, Extractors
  <1>1. CASE ThrowBeforeClaim(w) \/ PchPreflightFails(w)
    <2>1. /\ pc[w] = "parse" /\ Drop(w, "failed") /\ UNCHANGED <<granted, job, attempt>>
          /\ pc' = [pc EXCEPT ![w] = "admit"]
      BY <1>1 DEF ThrowBeforeClaim, PchPreflightFails, claimVars
    <2>2. pc'[w] = "admit" /\ \A v \in Workers \ {w} : pc'[v] = pc[v]
      BY <1>0, <2>1
    <2>3. QED
      BY <2>1, <2>2, FailsUnclaimed
  <1>2. CASE FrontEndFails(w)
    <2>1. PICK oc \in {"failed", "changed"} :
            /\ oc = "changed" => "parse_changed" \in Faults
            /\ ReleaseUnclaimed(job[w])
            /\ AttemptWithoutBatch(w, oc, WakeGate(pc))
      BY <1>2 DEF FrontEndFails
    <2>2. oc = "failed"
      BY <2>1 DEF ClaimsStand, LosesClaims
    <2>3. /\ Drop(w, "failed") /\ pc' = [WakeGate(pc) EXCEPT ![w] = "admit"]
          /\ UNCHANGED <<attempt, job, granted>> /\ pc[w] = "parse"
      BY <1>2, <2>1, <2>2 DEF FrontEndFails, AttemptWithoutBatch, RetryAllowed, ReleaseUnclaimed,
           claimVars
    <2>4. pc'[w] = "admit" /\ \A v \in Workers \ {w} : pc'[v] = "extract" <=> pc[v] = "extract"
      BY <1>0, <2>3 DEF WakeGate
    <2>5. QED
      BY <2>3, <2>4, FailsUnclaimed
  <1>3. CASE Parse(w)
    <2>1. /\ UNCHANGED <<granted, owned, outcome, job, attempt>> /\ pc[w] = "parse"
          /\ pc' = [pc EXCEPT ![w] = "gate"]
      BY <1>3 DEF Parse, claimVars
    <2>2. QED
      BY <1>0, <2>1, ClaimsStay
  <1>4. CASE ClaimHeaders(w)
    BY <1>4, ClaimProvides
  <1>5. CASE ExtractOk(w)
    <2>1. /\ UNCHANGED <<granted, owned, job, attempt>> /\ pc[w] = "extract"
          /\ pc' = [pc EXCEPT ![w] = "admit"] /\ outcome' = [outcome EXCEPT ![job[w]] = "ok"]
      BY <1>5 DEF ExtractOk, claimVars
    <2>2. \A v \in Workers : pc'[v] = "extract" <=> v # w /\ pc[v] = "extract"
      BY <1>0, <2>1
    <2>3. \A r \in Ranks : outcome'[r] = "ok" <=> r = job[w] \/ outcome[r] = "ok"
      BY <1>0, <2>1
    <2>4. \A r \in Ranks : Claimed(r)' <=> Claimed(r)
      BY <1>0, <2>1, <2>2, <2>3 DEF Claimed
    <2>5. \A k \in Keys : granted[k] # NoGrant => granted[k].owner \in Ranks
      BY DEF TypeOK, ClaimsTypeOK, Grant
    <2>6. ASSUME NEW k \in Keys, granted'[k] # NoGrant
          PROVE  (k \in owned[granted[k].owner] /\ Claimed(granted[k].owner))'
      <3>1. PICK o \in Ranks : o = granted[k].owner
        BY <2>1, <2>5, <2>6
      <3>2. k \in owned[o] /\ Claimed(o)
        BY <2>1, <2>6, <3>1 DEF Extractors
      <3>3. k \in owned'[o] /\ Claimed(o)'
        BY <2>1, <2>4, <3>2
      <3>4. QED
        BY <2>1, <3>1, <3>3 DEF Claimed
    <2>7. Extractors'
      BY <1>0, <2>1, <2>6 DEF Extractors
    <2>8. Provided'
      BY <2>1, <2>4 DEF Provided
    <2>9. QED
      BY <2>7, <2>8
  <1>6. CASE ExtractFails(w)
    <2>1. SourcesCurrent(job[w])
      BY <1>0, Unedited
    <2>2. FALSE
      BY <1>6, <2>1 DEF ExtractFails, ClaimsStand, LosesClaims
    <2>3. QED
      BY <2>2
  <1>7. CASE Dispatch(w)
    <2>1. /\ UNCHANGED <<granted, owned, outcome>> /\ pc[w] = "dispatch"
          /\ \A v \in Workers \ {w} : pc'[v] = pc[v] /\ job'[v] = job[v]
          /\ pc'[w] \in {"done", "parse"}
      BY <1>0, <1>7 DEF Dispatch, claimVars, resultVars
    <2>2. \A v \in Workers : attempt'[v] = 0
      BY <1>0, <1>7 DEF Dispatch
    <2>3. QED
      BY <2>1, <2>2, ClaimsStay
  <1>8. CASE Admit(w)
    <2>1. /\ UNCHANGED <<granted, owned, outcome, job, attempt>> /\ pc[w] = "admit"
          /\ \E p \in {"admit_wait", "abandon", "dispatch"} : pc' = [pc EXCEPT ![w] = p]
      BY <1>8 DEF Admit, claimVars, resultVars
    <2>2. \A v \in Workers : pc'[v] = "extract" <=> pc[v] = "extract"
      BY <1>0, <2>1
    <2>3. QED
      BY <1>0, <2>1, <2>2, ClaimsStay
  <1>9. CASE Abandon(w)
    <2>1. /\ UNCHANGED <<granted, owned, outcome, job, attempt>> /\ pc[w] = "abandon"
          /\ pc' = WakeGate([pc EXCEPT ![w] = "done"])
      BY <1>9 DEF Abandon, ReleaseUnclaimed, claimVars, resultVars
    <2>2. \A v \in Workers : pc'[v] = "extract" <=> pc[v] = "extract"
      BY <1>0, <2>1 DEF WakeGate
    <2>3. QED
      BY <1>0, <2>1, <2>2, ClaimsStay
  <1>10. QED
    BY <1>1, <1>2, <1>3, <1>4, <1>5, <1>6, <1>7, <1>8, <1>9 DEF WorkerStep

\* When the publisher reports, everything it gave to the writer is committed.
LEMMA AllApplied ==
    ASSUME ClaimsStand, TypeOK, PubInv, Persisted, ppc = "settle"
    PROVE  WriterItems \subseteq applied
  <1> SUFFICES ASSUME NEW r \in WriterItems PROVE r \in applied
    OBVIOUS
  <1>1. r \in Ranks /\ windowStart <= r /\ r < nextPublish /\ outcome[r] = "ok"
    BY WindowRanks, Numbers DEF WriterItems, Window
  <1>2. r \in committed
    BY <1>1 DEF Persisted, Decided
  <1>3. "begin" \notin Faults
    BY DEF ClaimsStand, LosesClaims
  <1>4. QED
    BY <1>1, <1>2, <1>3, Numbers DEF PubInv, Results

\* The publisher revokes nothing, and neither claims nor extracts.
LEMMA PublisherClaims ==
    ASSUME ClaimsStand, TypeOK, PubInv, SerialInv, PublisherStep
    PROVE  Extractors' /\ Provided'
  <1>0. pc \in [Workers -> WorkerStates]
    BY DEF TypeOK, WorkersTypeOK
  <1>1. UNCHANGED <<owned, outcome, job, attempt>>
    BY DEF PublisherStep, Spawn, SpawnFails, PollCancelled, Collect, CloseWindow,
         ApplyWindow, ReplayItem, ReplayWindow, RollbackFails, ReplayAborts, ReplayDone, Settle,
         ObserverThrows, WindowPublished, StopPool, JoinPool, DrainReady, Drained, CancelAfterRun,
         workerVars, resultVars
  <1>2. UNCHANGED granted
    <2>1. CASE Settle \/ ObserverThrows
      <3>0. TellObserver
        BY <2>1 DEF Settle, ObserverThrows
      <3>1. pos \notin WriterItems \ applied
        BY <3>0, AllApplied DEF TellObserver, SerialInv
      <3>2. QED
        BY <3>0, <3>1 DEF TellObserver, claimVars
    <2>2. CASE DrainReady \/ CancelAfterRun
      BY <2>2 DEF DrainReady, CancelAfterRun, CancelOracle, ReleaseUnclaimed, claimVars
    <2>3. QED
      BY <2>1, <2>2 DEF PublisherStep, Spawn, SpawnFails, PollCancelled, Collect, CloseWindow,
         ApplyWindow, ReplayItem, ReplayWindow, RollbackFails, ReplayAborts, ReplayDone,
         WindowPublished, StopPool, JoinPool, Drained, claimVars
  <1>3. \/ UNCHANGED pc
        \/ pc' = WakeAdmit(pc)
        \/ pc' = WakeGate(pc)
        \/ \E w \in Workers : pc[w] = "unborn" /\ pc' = [pc EXCEPT ![w] = "dispatch"]
    BY DEF PublisherStep, Spawn, SpawnFails, PollCancelled, Collect, CloseWindow,
         ApplyWindow, ReplayItem, ReplayWindow, RollbackFails, ReplayAborts, ReplayDone, Settle,
         ObserverThrows, WindowPublished, StopPool, JoinPool, DrainReady, Drained, CancelAfterRun,
         workerVars
  <1>4. \A v \in Workers : pc'[v] = "extract" <=> pc[v] = "extract"
    <2>1. CASE pc' = WakeAdmit(pc)
      BY <1>0, <2>1 DEF WakeAdmit
    <2>2. CASE pc' = WakeGate(pc)
      BY <1>0, <2>2 DEF WakeGate
    <2>3. CASE UNCHANGED pc \/ \E w \in Workers : pc[w] = "unborn" /\ pc' = [pc EXCEPT ![w] = "dispatch"]
      BY <1>0, <2>3
    <2>4. QED
      BY <1>3, <2>1, <2>2, <2>3
  <1>5. QED
    BY <1>1, <1>2, <1>4, ClaimsStay DEF SerialInv, Extractors

-----------------------------------------------------------------------------
(***************************************************************************)
(* How the writer moves on.                                                *)
(***************************************************************************)

\* The units with a batch between two positions of the writer.
Batches(from, upto) == {r \in Ranks : from <= r /\ r < upto /\ outcome[r] = "ok"}

\* A step settles the units from Decided to Decided', and commits exactly those
\* that have a batch; what units behind the writer extracted stays.
Moves ==
  /\ Decided <= Decided'
  /\ committed' = committed \cup Batches(Decided, Decided')
  /\ \A r \in Ranks : r < Decided' => outcome'[r] = outcome[r] /\ owned'[r] = owned[r]
  /\ \A k \in Keys : row[k] # NoRow => row'[k] # NoRow

\* A step in which the writer decides nothing.
LEMMA MovesNot ==
    ASSUME TypeOK, PubInv, UNCHANGED <<committed, row>>, Decided' = Decided,
           \A r \in Ranks : r < Decided => outcome'[r] = outcome[r] /\ owned'[r] = owned[r]
    PROVE  Moves
  <1>1. Decided \in Int
    BY DecidedBounds DEF PubInv
  <1>2. Batches(Decided, Decided') = {}
    BY <1>1, Numbers DEF Batches
  <1>3. QED
    BY <1>1, <1>2 DEF Moves

\* Workers are ahead of the writer.
LEMMA WorkerMoves ==
    ASSUME TypeOK, GateInv, PubInv, NEW w \in Workers, WorkerStep(w)
    PROVE  Moves
  <1>0. Decided \in Int /\ Decided <= nextPublish
    BY DecidedBounds DEF PubInv
  <1>1. CASE Inner(w)
    <2>1. /\ UNCHANGED <<runnerVars, windowVars, dbVars>> /\ Busy(w)
          /\ \A r \in Ranks \ {job[w]} : outcome'[r] = outcome[r] /\ owned'[r] = owned[r]
      BY <1>1, InnerStep
    <2>2. Decided' = Decided /\ UNCHANGED <<committed, row>>
      BY <2>1 DEF Decided, runnerVars, windowVars, dbVars
    <2>3. nextPublish <= job[w]
      BY <2>1 DEF PubInv, Places
    <2>4. \A r \in Ranks : r < Decided => r # job[w]
      BY <1>0, <2>3, Numbers
    <2>5. QED
      BY <2>1, <2>2, <2>4, MovesNot
  <1>2. CASE Dispatch(w) \/ Admit(w) \/ Abandon(w)
    <2>1. /\ UNCHANGED <<nextPublish, resultVars, windowStart, pos, dbVars>>
          /\ ppc' = ppc \/ (ppc = "arrive_wait" /\ ppc' = "collect")
      BY <1>2, TurnStep
    <2>2. Decided' = Decided
      BY <2>1 DEF Decided
    <2>3. QED
      BY <2>1, <2>2, MovesNot DEF resultVars, dbVars
  <1>3. QED
    BY <1>1, <1>2 DEF WorkerStep, Inner

\* A row that exists is only ever replaced by another.
LEMMA RowsRemain ==
    ASSUME TypeOK, NEW S \in SUBSET Ranks, row' = RowsWith(S)
    PROVE  \A k \in Keys : row[k] # NoRow => row'[k] # NoRow
  <1>1. \A r \in Ranks, k \in Keys : parsed[r][k] # NoRow
    BY PlanAssumption DEF TypeOK, ResultsTypeOK
  <1>2. QED
    BY <1>1, RowOf

\* Every unit of the window has a batch, and all are committed.
LEMMA ApplyMoves ==
    ASSUME TypeOK, PubInv, ApplyWindow
    PROVE  Moves
  <1> USE Numbers
  <1>1. /\ ppc = "apply" /\ ppc' = "settle" /\ UNCHANGED <<nextPublish, windowStart, outcome, owned>>
        /\ WriterItems = Window /\ committed' = committed \cup Window /\ row' = RowsWith(Window)
    BY DEF ApplyWindow, runnerVars, resultVars
  <1>2. Decided = windowStart /\ Decided' = nextPublish /\ windowStart <= nextPublish
    BY <1>1 DEF Decided, PubInv, Places
  <1>3. Window = {r \in Ranks : windowStart <= r /\ r < nextPublish}
    BY WindowRanks DEF Window
  <1>4. Batches(Decided, Decided') = Window
    BY <1>1, <1>2, <1>3 DEF Batches, WriterItems
  <1>5. QED
    BY <1>1, <1>2, <1>3, <1>4, RowsRemain DEF Moves

\* The window falls back to a replay, or there is nothing in it to replay.
LEMMA FallBackMoves ==
    ASSUME ClaimsStand, TypeOK, PubInv, ReplayWindow \/ RollbackFails
    PROVE  Moves
  <1> USE Numbers
  <1>0. ReplayWindow
    BY DEF RollbackFails, ClaimsStand, LosesClaims
  <1>1. /\ ppc = "apply" /\ ppc' = IF WriterItems = {} THEN "settle" ELSE "replay"
        /\ UNCHANGED <<nextPublish, windowStart, pos, outcome, owned, committed, row>>
    BY <1>0 DEF ReplayWindow, runnerVars, resultVars, dbVars
  <1>2. Decided = windowStart /\ pos = windowStart /\ windowStart <= nextPublish
    BY <1>1 DEF Decided, PubInv, Stages, Places
  <1>3. CASE WriterItems = {}
    <2>1. Decided' = nextPublish
      BY <1>1, <1>3 DEF Decided
    <2>2. Batches(Decided, Decided') = {}
      BY <1>2, <1>3, <2>1 DEF Batches, WriterItems, Window
    <2>3. QED
      BY <1>1, <1>2, <2>1, <2>2 DEF Moves
  <1>4. CASE WriterItems # {}
    <2>1. Decided' = Decided
      BY <1>1, <1>2, <1>4 DEF Decided
    <2>2. QED
      BY <1>1, <2>1, MovesNot
  <1>5. QED
    BY <1>3, <1>4

\* The next item is committed; the units before it have no batch.
LEMMA ReplayMoves ==
    ASSUME ClaimsStand, TypeOK, PubInv, ReplayItem
    PROVE  Moves
  <1> USE Numbers
  <1>1. ppc = "replay" /\ ppc' = ppc /\ UNCHANGED <<outcome, owned, nextPublish, windowStart>>
    BY DEF ReplayItem, resultVars, runnerVars
  <1>2. PICK r \in Unreplayed :
          /\ \A s \in Unreplayed : r <= s
          /\ pos' = r + 1
          /\ \/ committed' = committed \cup {r} /\ row' = RowsWith({r})
             \/ "writer" \in Faults \/ ~SourcesCurrent(r)
    BY DEF ReplayItem
  <1>3. r \in Ranks /\ windowStart <= r /\ r < nextPublish /\ pos <= r /\ outcome[r] = "ok"
    BY WindowRanks DEF Unreplayed, WriterItems, Window
  <1>4. committed' = committed \cup {r} /\ row' = RowsWith({r})
    BY <1>2, <1>3, Unedited DEF ClaimsStand, LosesClaims
  <1>5. Decided = pos /\ Decided' = r + 1 /\ windowStart <= pos
    BY <1>1, <1>2 DEF Decided, PubInv, Stages
  <1>6. ASSUME NEW q \in Ranks, pos <= q, q < r, outcome[q] = "ok" PROVE FALSE
    <2>1. q \in Unreplayed
      BY <1>3, <1>5, <1>6 DEF Unreplayed, WriterItems, Window
    <2>2. QED
      BY <1>2, <1>3, <1>6, <2>1
  <1>7. Batches(Decided, Decided') = {r}
    BY <1>3, <1>5, <1>6 DEF Batches
  <1>8. \A k \in Keys : row[k] # NoRow => row'[k] # NoRow
    BY <1>3, <1>4, RowsRemain
  <1>9. Decided <= Decided'
    BY <1>3, <1>5
  <1>10. QED
    BY <1>1, <1>4, <1>7, <1>8, <1>9 DEF Moves

\* The replay has come to the end of the window.
LEMMA ReplayEndMoves ==
    ASSUME ClaimsStand, TypeOK, PubInv, ReplayDone \/ ReplayAborts
    PROVE  Moves
  <1> USE Numbers
  <1>0. ReplayDone
    BY DEF ReplayAborts, ClaimsStand, LosesClaims
  <1>1. /\ ppc = "replay" /\ ppc' = "settle" /\ Unreplayed = {}
        /\ UNCHANGED <<nextPublish, outcome, owned, committed, row>>
    BY <1>0 DEF ReplayDone, runnerVars, resultVars, dbVars
  <1>2. Decided = pos /\ Decided' = nextPublish /\ pos <= nextPublish /\ windowStart <= pos
    BY <1>1 DEF Decided, PubInv, Stages
  <1>3. ASSUME NEW q \in Batches(Decided, Decided') PROVE FALSE
    <2>1. q \in Unreplayed
      BY <1>2 DEF Batches, Unreplayed, WriterItems, Window
    <2>2. QED
      BY <1>1, <2>1
  <1>4. QED
    BY <1>1, <1>2, <1>3 DEF Moves

\* The rest of the publisher's steps decide nothing.
LEMMA RestMoves ==
    ASSUME TypeOK, PubInv,
           \/ Spawn \/ SpawnFails \/ PollCancelled \/ StopPool \/ JoinPool \/ Drained
           \/ CancelAfterRun \/ DrainReady \/ Collect \/ CloseWindow \/ Settle
           \/ WindowPublished \/ ObserverThrows
    PROVE  Moves
  <1>1. UNCHANGED <<outcome, owned, committed, row>>
    BY DEF Spawn, SpawnFails, PollCancelled, StopPool, JoinPool, Drained, CancelAfterRun,
         DrainReady, Collect, CloseWindow, Settle, WindowPublished, ObserverThrows,
         resultVars, dbVars
  <1>2. CASE WindowPublished \/ ObserverThrows
    <2>1. ppc = "settle" /\ windowStart' = nextPublish /\ ppc' \notin {"settle", "replay"}
      BY <1>2 DEF WindowPublished, ObserverThrows, TellObserver
    <2>2. Decided' = Decided
      BY <2>1 DEF Decided
    <2>3. QED
      BY <1>1, <2>2, MovesNot
  <1>3. CASE Settle
    <2>1. Decided' = Decided
      BY <1>3 DEF Settle, TellObserver, Decided, runnerVars
    <2>2. QED
      BY <1>1, <2>1, MovesNot
  <1>4. CASE ~WindowPublished /\ ~ObserverThrows /\ ~Settle
    <2>1. windowStart' = windowStart /\ ppc \notin {"settle", "replay"} /\ ppc' \notin {"settle", "replay"}
      BY <1>4 DEF Spawn, SpawnFails, PollCancelled, StopPool, JoinPool, Drained, CancelAfterRun,
           DrainReady, Collect, CloseWindow
    <2>2. Decided' = Decided
      BY <2>1 DEF Decided
    <2>3. QED
      BY <1>1, <2>2, MovesNot
  <1>5. QED
    BY <1>2, <1>3, <1>4

\* Every step moves the writer on, or leaves it where it is.
LEMMA NextMoves ==
    ASSUME ClaimsStand, TypeOK, GateInv, PubInv, [Next]_vars
    PROVE  Moves
  <1>1. CASE \E w \in Workers : WorkerStep(w)
    BY <1>1, WorkerMoves
  <1>2. CASE PublisherStep
    BY <1>2, ApplyMoves, FallBackMoves, ReplayMoves, ReplayEndMoves, RestMoves DEF PublisherStep
  <1>3. CASE RequestCancel \/ EditHeader \/ UNCHANGED vars
    <2>1. UNCHANGED <<runnerVars, resultVars, windowVars, dbVars>>
      BY <1>3 DEF RequestCancel, EditHeader, vars
    <2>2. UNCHANGED <<outcome, owned, committed, row>> /\ Decided' = Decided
      BY <2>1 DEF runnerVars, resultVars, windowVars, dbVars, Decided
    <2>3. QED
      BY <2>2, MovesNot
  <1>4. QED
    BY <1>1, <1>2, <1>3 DEF Next, Returned

-----------------------------------------------------------------------------
(***************************************************************************)
(* The invariant.                                                          *)
(***************************************************************************)

\* Initially nothing is claimed, extracted or committed.
LEMMA InitSerialInv == Init => SerialInv
  <1> SUFFICES ASSUME Init PROVE SerialInv
    OBVIOUS
  <1>1. /\ \A w \in Workers : pc[w] = "unborn" /\ attempt[w] = 0
        /\ \A r \in Ranks : owned[r] = {} /\ outcome[r] = "none"
        /\ \A k \in Keys : granted[k] = NoGrant
        /\ committed = {}
    BY DEF Init, ClaimsInit
  <1>2. Extractors /\ Provided /\ Persisted
    BY <1>1 DEF Extractors, Provided, Persisted, Claimed
  <1>3. CurrentKept
    BY PlanAssumption DEF CurrentKept, Init
  <1>4. QED
    BY <1>2, <1>3 DEF SerialInv

\* Every step keeps SerialInv.
LEMMA NextSerialInv ==
    ASSUME ClaimsStand, TypeOK, GateInv, PubInv, SerialInv, [Next]_vars
    PROVE  SerialInv'
  <1>1. Extractors' /\ Provided'
    <2>1. CASE \E w \in Workers : WorkerStep(w)
      BY <2>1, WorkerClaims DEF SerialInv
    <2>2. CASE PublisherStep
      BY <2>2, PublisherClaims
    <2>3. CASE RequestCancel \/ EditHeader \/ UNCHANGED vars
      <3>1. UNCHANGED <<granted, owned, outcome, pc, job, attempt>>
        BY <2>3 DEF RequestCancel, EditHeader, vars, claimVars, resultVars, workerVars
      <3>2. QED
        BY <3>1, ClaimsStay DEF SerialInv, Extractors
    <2>4. QED
      BY <2>1, <2>2, <2>3 DEF Next, Returned
  <1>2. Moves
    BY NextMoves
  <1>3. TypeOK' /\ PubInv'
    BY NextTypeOK, NextPubInv
  <1>4. Decided \in Int /\ Decided' \in Int
    <2>1. Decided \in Int
      BY DecidedBounds DEF PubInv
    <2>2. (TypeOK /\ PubInv => Decided \in Int)'
      BY DecidedBounds, PTL DEF PubInv
    <2>3. QED
      BY <1>3, <2>1, <2>2
  <1>5. \A r \in committed : r \in Ranks /\ r < Decided
    BY DEF PubInv, Behind, TypeOK, DbTypeOK
  <1>6. Persisted'
    <2>1. ASSUME NEW r \in committed' PROVE outcome'[r] = "ok"
      <3>1. r \in Ranks /\ r < Decided' /\ outcome[r] = "ok"
        BY <1>2, <1>4, <1>5, Numbers DEF Moves, Batches, SerialInv, Persisted
      <3>2. QED
        BY <1>2, <3>1 DEF Moves
    <2>2. ASSUME NEW r \in Ranks, r < Decided', outcome'[r] = "ok" PROVE r \in committed'
      <3>1. outcome[r] = "ok"
        BY <1>2, <2>2 DEF Moves
      <3>2. CASE r < Decided
        BY <1>2, <3>1, <3>2 DEF SerialInv, Persisted, Moves
      <3>3. CASE ~(r < Decided)
        BY <1>2, <1>4, <2>2, <3>1, <3>3, Numbers DEF Moves, Batches
      <3>4. QED
        BY <3>2, <3>3
    <2>3. QED
      BY <2>1, <2>2 DEF Persisted
  <1>7. CurrentKept'
    BY <1>2, PlanAssumption DEF SerialInv, CurrentKept, Moves
  <1>8. QED
    BY <1>1, <1>6, <1>7 DEF SerialInv

\* The invariant of every run in which claims stand.
LEMMA SerialRun ==
    ASSUME ClaimsStand
    PROVE  Spec => [](TypeOK /\ GateInv /\ PubInv /\ SerialInv)
  <1>1. SerialInv /\ (TypeOK /\ GateInv /\ PubInv) /\ [Next]_vars => SerialInv'
    BY NextSerialInv
  <1>2. QED
    BY <1>1, InitSerialInv, Publication, PTL DEF Spec

\* Each header of a published unit was extracted by a published unit that is
\* not later than it.
Backed ==
  \A r \in Ranks : r < Decided /\ outcome[r] = "ok" =>
    \A k \in Includes[r] \ Current :
      \E o \in committed : o \in Ranks /\ o <= r /\ k \in owned[o]

\* Whoever extracts a header of a published unit is published, and not later.
LEMMA ExtractorPublished == TypeOK /\ PubInv /\ SerialInv => Backed
  <1> SUFFICES ASSUME TypeOK, PubInv, SerialInv, NEW r \in Ranks, r < Decided, outcome[r] = "ok",
                      NEW k \in Includes[r] \ Current
               PROVE  \E o \in committed : o \in Ranks /\ o <= r /\ k \in owned[o]
    BY DEF Backed
  <1>0. k \in Keys
    BY PlanAssumption
  <1>1. granted[k] # NoGrant /\ granted[k].owner <= r
    BY DEF SerialInv, Provided, Claimed
  <1>2. PICK o \in Ranks : o = granted[k].owner
    BY <1>0, <1>1 DEF TypeOK, ClaimsTypeOK, Grant
  <1>3. k \in owned[o] /\ Claimed(o)
    BY <1>0, <1>1, <1>2 DEF SerialInv, Extractors
  <1>4. o < Decided /\ o < nextPublish
    BY <1>1, <1>2, DecidedBounds, Numbers DEF PubInv
  <1>5. \A w \in Workers : ~(pc[w] = "extract" /\ job[w] = o)
    BY <1>4, Numbers DEF PubInv, Places, Busy
  <1>6. o \in committed
    BY <1>3, <1>4, <1>5 DEF Claimed, SerialInv, Persisted
  <1>7. QED
    BY <1>1, <1>2, <1>3, <1>6

\* A published unit finds the rows of all its headers in the database: the
\* ones it did not extract were extracted by a unit published before it, or
\* were current before the run.  Only where no unit fails after its claim.
THEOREM Covered ==
    ASSUME ClaimsStand
    PROVE  Spec => []HeadersCovered
  <1>1. ASSUME TypeOK, PubInv, SerialInv, NEW r \in committed, NEW k \in Includes[r]
        PROVE  row[k] # NoRow
    <2>1. r \in Ranks /\ r < Decided /\ outcome[r] = "ok"
      BY <1>1 DEF PubInv, Behind, TypeOK, DbTypeOK, SerialInv, Persisted
    <2>2. k \in Keys
      BY <2>1, PlanAssumption
    <2>3. CASE k \in Current
      BY <1>1, <2>3 DEF SerialInv, CurrentKept
    <2>4. CASE k \notin Current
      <3>1. PICK o \in committed : o \in Ranks /\ k \in owned[o]
        BY <1>1, <2>1, <2>4, ExtractorPublished DEF Backed
      <3>2. QED
        BY <1>1, <3>1 DEF PubInv, Recorded
    <2>5. QED
      BY <2>3, <2>4
  <1>2. TypeOK /\ PubInv /\ SerialInv => HeadersCovered
    BY <1>1 DEF HeadersCovered
  <1>3. QED
    BY <1>2, SerialRun, PTL

-----------------------------------------------------------------------------
(***************************************************************************)
(* Refinement.                                                             *)
(***************************************************************************)

\* The unit that IndexedBy names is the only published one that extracted k.
LEMMA IndexedIs ==
    ASSUME Extractors, committed \subseteq Ranks, NEW k \in Keys
    PROVE  /\ \A r \in committed : k \in owned[r] => IndexedBy(k) = r
           /\ ~(\E r \in committed : k \in owned[r]) => IndexedBy(k) = NoGrant
  <1>1. \A r, s \in committed : k \in owned[r] /\ k \in owned[s] => r = s
    BY DEF Extractors
  <1>2. ASSUME NEW r \in committed, k \in owned[r] PROVE IndexedBy(k) = r
    <2>1. IndexedBy(k) = CHOOSE s \in committed : k \in owned[s]
      BY <1>2 DEF IndexedBy
    <2>2. IndexedBy(k) \in committed /\ k \in owned[IndexedBy(k)]
      BY <1>2, <2>1
    <2>3. QED
      BY <1>1, <1>2, <2>2
  <1>3. ~(\E r \in committed : k \in owned[r]) => IndexedBy(k) = NoGrant
    BY DEF IndexedBy
  <1>4. QED
    BY <1>2, <1>3

\* The writer's frontier of the refinement mapping.
LEMMA FrontierIs == Frontier = Decided
  BY DEF Frontier, Decided

\* The serial run starts where the parallel one does.
LEMMA InitSerial == Init => Serial!Init
  <1> SUFFICES ASSUME Init PROVE Serial!Init
    OBVIOUS
  <1>1. Frontier = 0 /\ committed = {}
    BY DEF Init, Frontier
  <1>2. \A k \in Keys : IndexedBy(k) = NoGrant
    BY <1>1 DEF IndexedBy
  <1>3. QED
    BY <1>1, <1>2 DEF Serial!Init

\* The header of a unit that is being published goes to the unit the serial
\* run gives it to: the lowest published one that includes it.
LEMMA SameOwner ==
    ASSUME TypeOK, PubInv, SerialInv, Moves, TypeOK', PubInv', SerialInv', NEW k \in Keys
    PROVE  LET pub == Batches(Decided, Decided')
               indexers == {r \in pub : k \in Includes[r] /\ k \notin Current}
           IN  IndexedBy(k)' = IF IndexedBy(k) # NoGrant \/ indexers = {}
                               THEN IndexedBy(k)
                               ELSE CHOOSE r \in indexers : \A s \in indexers : r <= s
  <1> DEFINE pub == Batches(Decided, Decided')
             indexers == {r \in pub : k \in Includes[r] /\ k \notin Current}
  <1>1. /\ committed \subseteq Ranks /\ committed' \subseteq Ranks
        /\ committed' = committed \cup pub /\ pub \subseteq Ranks
        /\ Decided \in Int /\ Decided' \in Int /\ Decided <= Decided'
    <2>1. Decided \in Int
      BY DecidedBounds DEF PubInv
    <2>2. (TypeOK /\ PubInv => Decided \in Int)'
      BY DecidedBounds, PTL DEF PubInv
    <2>3. QED
      BY <2>1, <2>2 DEF Moves, Batches, TypeOK, DbTypeOK
  <1>2. \A r \in committed' : r < Decided' /\ owned'[r] = owned[r] /\ outcome'[r] = "ok"
    <2>1. \A r \in committed' : r < Decided'
      BY DEF PubInv, Behind
    <2>2. QED
      BY <1>1, <2>1 DEF Moves, SerialInv, Persisted
  <1>3. /\ \A r \in committed : k \in owned[r] => IndexedBy(k) = r
        /\ ~(\E r \in committed : k \in owned[r]) => IndexedBy(k) = NoGrant
    BY <1>1, IndexedIs DEF SerialInv
  <1>4. /\ \A r \in committed' : k \in owned[r] => IndexedBy(k)' = r
        /\ ~(\E r \in committed' : k \in owned[r]) => IndexedBy(k)' = NoGrant
    <2>1. (/\ \A r \in committed : k \in owned[r] => IndexedBy(k) = r
           /\ ~(\E r \in committed : k \in owned[r]) => IndexedBy(k) = NoGrant)'
      <3>1. (Extractors /\ committed \subseteq Ranks =>
               /\ \A r \in committed : k \in owned[r] => IndexedBy(k) = r
               /\ ~(\E r \in committed : k \in owned[r]) => IndexedBy(k) = NoGrant)'
        BY IndexedIs, PTL
      <3>2. QED
        BY <1>1, <3>1 DEF SerialInv
    <2>2. QED
      BY <1>2, <2>1
  <1>5. CASE IndexedBy(k) # NoGrant
    <2>1. PICK r \in committed : k \in owned[r]
      BY <1>3, <1>5
    <2>2. QED
      BY <1>1, <1>3, <1>4, <1>5, <2>1
  <1>6. CASE IndexedBy(k) = NoGrant
    <2>1. \A r \in committed : k \notin owned[r]
      BY <1>1, <1>3, <1>6, NoGrantAssumption
    <2>2. CASE indexers = {}
      <3>1. ASSUME NEW r \in pub PROVE k \notin owned[r]
        <4>1. k \in owned'[r] => k \in Includes[r] \ Current
          BY <1>1 DEF SerialInv, Extractors
        <4>2. QED
          BY <1>1, <1>2, <2>2, <4>1
      <3>2. IndexedBy(k)' = NoGrant
        BY <1>1, <1>4, <2>1, <3>1
      <3>3. QED
        BY <1>6, <2>2, <3>2
    <2>3. CASE indexers # {}
      <3>1. ASSUME NEW r \in indexers
            PROVE  \E o \in indexers : o <= r /\ k \in owned[o]
        <4>1. r \in Ranks /\ r < Decided' /\ outcome'[r] = "ok" /\ k \in Includes[r] \ Current
          BY <1>1, <1>2
        <4>2. Backed'
          BY ExtractorPublished, PTL
        <4>3. PICK o \in committed' : o \in Ranks /\ o <= r /\ k \in owned'[o]
          BY <4>1, <4>2 DEF Backed
        <4>4. k \in owned[o] /\ o \in pub
          BY <1>1, <1>2, <2>1, <4>3
        <4>5. k \in Includes[o] \ Current
          BY <4>3 DEF SerialInv, Extractors
        <4>6. QED
          BY <4>3, <4>4, <4>5
      <3>2. PICK o \in indexers : k \in owned[o]
        BY <2>3, <3>1
      <3>3. IndexedBy(k)' = o
        BY <1>1, <1>4, <3>2
      <3>4. \A r \in indexers : o <= r
        <4> SUFFICES ASSUME NEW r \in indexers PROVE o <= r
          OBVIOUS
        <4>1. PICK q \in indexers : q <= r /\ k \in owned[q]
          BY <3>1
        <4>2. IndexedBy(k)' = q
          BY <1>1, <1>4, <4>1
        <4>3. QED
          BY <3>3, <4>1, <4>2
      <3>5. indexers \subseteq Int
        BY <1>1, Numbers
      <3>6. (CHOOSE r \in indexers : \A s \in indexers : r <= s) = o
        <4> HIDE DEF indexers
        <4>1. \A r \in indexers : (\A s \in indexers : r <= s) => r = o
          BY <3>2, <3>4, <3>5
        <4>2. QED
          BY <3>2, <3>4, <4>1
      <3>7. QED
        BY <1>6, <2>3, <3>3, <3>6
    <2>4. QED
      BY <2>2, <2>3
  <1>7. QED
    BY <1>5, <1>6

\* A step of the parallel run settles the units from Decided to Decided' in
\* the serial one, or none.
LEMMA StepSerial ==
    ASSUME ClaimsStand, TypeOK, GateInv, PubInv, SerialInv, [Next]_vars
    PROVE  [Serial!Next]_(Serial!serialVars)
  <1>1. Moves /\ TypeOK' /\ PubInv' /\ SerialInv'
    BY NextMoves, NextTypeOK, NextPubInv, NextSerialInv
  <1>2. /\ Decided \in Int /\ 0 <= Decided
        /\ Decided' \in Int /\ Decided' <= Count /\ Decided <= Decided'
    <2>1. Decided \in Int /\ 0 <= Decided
      BY DecidedBounds DEF PubInv
    <2>2. (TypeOK /\ PubInv => Decided \in Int /\ Decided <= Count)'
      BY DecidedBounds, PTL DEF PubInv
    <2>3. QED
      BY <1>1, <2>1, <2>2, CountAssumption DEF Moves
  <1> DEFINE pub == Batches(Decided, Decided')
  <1>3. Frontier = Decided /\ Frontier' = Decided'
    BY FrontierIs DEF Frontier, Decided
  <1>4. \A k \in Keys :
          IndexedBy(k)' = IF IndexedBy(k) # NoGrant \/ Serial!Indexers(k, pub) = {}
                          THEN IndexedBy(k)
                          ELSE CHOOSE r \in Serial!Indexers(k, pub) :
                                 \A s \in Serial!Indexers(k, pub) : r <= s
    BY <1>1, SameOwner DEF Serial!Indexers
  <1>5. CASE Decided' = Decided
    <2>1. pub = {}
      BY <1>2, <1>5, Numbers DEF Batches
    <2>2. committed' = committed
      BY <1>1, <2>1 DEF Moves
    <2>3. \A k \in Keys : IndexedBy(k)' = IndexedBy(k)
      BY <1>4, <2>1 DEF Serial!Indexers
    <2>4. [k \in Keys |-> IndexedBy(k)]' = [k \in Keys |-> IndexedBy(k)]
      BY <2>3
    <2>5. QED
      BY <1>3, <1>5, <2>2, <2>4 DEF Serial!serialVars
  <1>6. CASE Decided' # Decided
    <2>1. Decided' \in (Frontier + 1) .. Count
      BY <1>2, <1>3, <1>6, CountAssumption
    <2>2. pub \in SUBSET (Frontier .. (Decided' - 1))
      BY <1>2, <1>3, Numbers DEF Batches
    <2>3. Serial!SettleUnits(Decided', pub)
      <3>1. committed' = committed \cup pub
        BY <1>1 DEF Moves
      <3> HIDE DEF pub
      <3>2. [k \in Keys |-> IndexedBy(k)]' =
              [k \in Keys |-> IF IndexedBy(k) # NoGrant \/ Serial!Indexers(k, pub) = {}
                          THEN IndexedBy(k)
                          ELSE CHOOSE r \in Serial!Indexers(k, pub) :
                                 \A s \in Serial!Indexers(k, pub) : r <= s]
        BY <1>4
      <3>3. QED
        BY <1>3, <3>1, <3>2 DEF Serial!SettleUnits
    <2>4. QED
      BY <2>1, <2>2, <2>3 DEF Serial!Next
  <1>7. QED
    BY <1>5, <1>6

\* The parallel run implements the serial one: it settles units in rank order,
\* publishes the same ones, and gives every header to the unit the serial run
\* gives it to, however the workers, the window and its replay interleave.
THEOREM ImplementsSerial ==
    ASSUME ClaimsStand
    PROVE  Spec => SerialSpec
  <1>1. Init => Serial!Init
    BY InitSerial
  <1>2. (TypeOK /\ GateInv /\ PubInv /\ SerialInv) /\ [Next]_vars => [Serial!Next]_(Serial!serialVars)
    BY StepSerial
  <1>3. QED
    BY <1>1, <1>2, SerialRun, PTL DEF Spec, SerialSpec, Serial!Spec
=============================================================================
