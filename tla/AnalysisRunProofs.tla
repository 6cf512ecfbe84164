-------------------------- MODULE AnalysisRunProofs --------------------------
(***************************************************************************)
(* Proofs about AnalysisRun, for every time, capture and output budget     *)
(* (with none as well), every set of result sizes and every set of faults. *)
(***************************************************************************)
EXTENDS AnalysisRun, FiniteSetTheorems, TLAPS

-----------------------------------------------------------------------------
(***************************************************************************)
(* The inductive invariant.                                                *)
(***************************************************************************)

CallType == [purpose : {"none", "version", "program"}, left : Nat,
             open : SUBSET Sinks, ready : SUBSET Sinks,
             captured : 0..CaptureBudget, timed_out : BOOLEAN,
             output_limited : BOOLEAN, guarded : BOOLEAN]

ChildType == [state : {"none", "running", "zombie", "reaped"},
              code : {"none", "ok", "failed", "killed"},
              writes : SUBSET Sinks, pipe : [Sinks -> 0..1],
              prints : 0..MaxPrints, size : Nat, files : Nat,
              ended : 0..(TimeBudget + 1)]

\* Inside the loop of run() there is one child, running or not yet reaped;
\* outside of it there is none.
Supervised ==
    /\ NoChildLeft
    /\ pc \in Supervising => child.state \in {"running", "zombie"}

\* What the child leaves behind: an exit code once it has ended, all of its
\* result if the code is good, and the time at which it ended.
ChildHonest ==
    /\ child.state = "running" => child.code = "none"
    /\ child.code = "ok" => child.files = child.size
    /\ child.ended <= elapsed

\* A snapshot that is not called stale or unknown has neither a stale or
\* foreign index nor a stale or unknown artifact below it; a foreign artifact
\* is an astgraph that calls itself partial, and so does the snapshot.  One
\* called complete has a complete artifact.
SnapshotHonest ==
    snapshot.completeness \notin {"stale", "unknown"} =>
        /\ request.provider # "artifact" => ~outdated /\ ~Foreign("w1")
        /\ request.provider # "index" =>
              /\ artifact.completeness \notin {"stale", "unknown"}
              /\ Foreign(artifact.workspace) =>
                    /\ artifact.kind = "astgraph" /\ artifact.completeness = "partial"
                    /\ snapshot.completeness = "partial"
        /\ /\ snapshot.completeness = "complete" /\ ~snapshot.truncated
           /\ request.provider # "index"
           => /\ artifact.completeness = "complete" /\ ~artifact.truncated
              /\ request.provider = "composed" => artifact.workspace = "w1"

\* How the snapshot came by its label, step by step.
Provenance ==
    /\ pc \in {"begin", "identity"} /\ outdated => freshness = "stale"
    /\ pc \in {"identity", "load"} => request.provider # "artifact"
    /\ pc \in {"load", "artifact"} /\ request.provider # "artifact" /\ outdated
          => snapshot.completeness \in {"stale", "unknown"}
    /\ pc = "artifact" /\ request.provider # "artifact" /\ Foreign("w1")
          => snapshot.completeness \in {"stale", "unknown"}
    /\ pc \in {"check", "prepare", "judge", "publish"} \cup Supervising
          => SnapshotHonest
    /\ pc \in {"prepare", "judge", "publish"} \cup Supervising
          => snapshot.completeness \in {"complete", "partial"}

\* What Judge has established when it lets a result through.
Judged ==
    /\ child.code = "ok"
    /\ ~OverBudget(child.files)
    /\ child.ended <= TimeBudget
    /\ result.status \in {"complete", "partial"}
    /\ result.status = "complete" =>
          snapshot.completeness = "complete" /\ ~snapshot.truncated
    /\ snapshot.completeness \in {"complete", "partial"}
    /\ SnapshotHonest

\* Only a judged result is on its way to the store or in it.
Earned ==
    /\ pc = "publish" => Judged
    /\ published # {} =>
          /\ pc = "done"
          /\ Judged
          /\ \A a \in published : a.completeness = result.status

IInv == TypeOK /\ Supervised /\ ChildHonest /\ Provenance /\ Earned

-----------------------------------------------------------------------------
(***************************************************************************)
(* Composition of two providers.                                           *)
(***************************************************************************)

\* The assumption on the budgets, one by one.
LEMMA Budgets ==
    /\ TimeBudget \in Nat /\ VersionTimeout \in Nat
    /\ CaptureBudget \in Nat /\ MaxPrints \in Nat
    /\ 0 \in 0..(TimeBudget + 1) /\ 0 \in 0..MaxPrints /\ 0 \in 0..CaptureBudget
  BY BudgetAssumption

\* The worse of two labels is one of them, and is as bad as either.
LEMMA WorseHonest ==
    ASSUME NEW left \in Completeness, NEW right \in Completeness
    PROVE  /\ Worse(left, right) \in Completeness
           /\ Worse(left, right) \notin {"stale", "unknown"} =>
                 /\ left \notin {"stale", "unknown"}
                 /\ right \notin {"stale", "unknown"}
           /\ Worse(left, right) = "complete" => left = "complete" /\ right = "complete"
  <1>1. /\ CompletenessRank["complete"] = 0 /\ CompletenessRank["partial"] = 1
        /\ CompletenessRank["unknown"] = 2 /\ CompletenessRank["stale"] = 3
    BY DEF CompletenessRank
  <1>2. QED
    BY <1>1 DEF Worse, Completeness

-----------------------------------------------------------------------------
(***************************************************************************)
(* Every step keeps the invariant.                                         *)
(***************************************************************************)

\* A return of the service outside of run() is always allowed: nothing is
\* published by it and no child is left.
LEMMA ReturnKeeps ==
    ASSUME IInv, pc \notin Supervising \cup {"done"},
           NEW status \in Statuses, NEW class \in Classes, Return(status, class)
    PROVE  IInv'
  <1>1. published = {} /\ published' = {}
    BY DEF IInv, Earned, Return
  <1>2. TypeOK'
    BY DEF IInv, TypeOK, Return
  <1>3. Supervised' /\ ChildHonest'
    BY DEF IInv, Supervised, NoChildLeft, ChildHonest, Return, Supervising
  <1>4. Provenance' /\ Earned'
    BY <1>1 DEF IInv, Provenance, Earned, Return, Supervising
  <1>5. QED
    BY <1>2, <1>3, <1>4 DEF IInv

\* A step inside the loop of run(), or of the child, may do what it likes to
\* the call and the child so long as the child stays honest.
LEMMA SuperviseKeeps ==
    ASSUME IInv, pc \in Supervising, pc' \in Supervising, Supervise,
           call' \in CallType, child' \in ChildType,
           child'.state \in {"running", "zombie"}, ChildHonest'
    PROVE  IInv'
  <1>1. published = {} /\ published' = {}
    BY DEF IInv, Earned, Supervise, Supervising
  <1>2. TypeOK'
    BY DEF IInv, TypeOK, Supervise, Supervising, CallType, ChildType
  <1>3. Supervised'
    BY DEF Supervised, NoChildLeft
  <1>4. Provenance' /\ Earned'
    BY <1>1 DEF IInv, Provenance, SnapshotHonest, Foreign, Earned, Supervise, Supervising
  <1>5. QED
    BY <1>2, <1>3, <1>4 DEF IInv

\* SIGKILL ends a running child with a bad code, and leaves a zombie alone.
LEMMA KilledHonest ==
    ASSUME IInv, pc \in Supervising, NEW c \in Killed
    PROVE  /\ c \in ChildType
           /\ c.state = "zombie"
           /\ c.code = "ok" => c.files = c.size
           /\ c.ended <= elapsed
           /\ c.pipe = child.pipe
  <1>1. child \in ChildType /\ elapsed \in 0..(TimeBudget + 1) /\ elapsed <= elapsed
    BY BudgetAssumption DEF IInv, TypeOK, ChildType
  <1>2. \A kept \in Kept : kept \in SUBSET Sinks
    BY <1>1 DEF Kept, ChildType
  <1>3. CASE child.state = "running"
    <2>1. PICK kept \in Kept :
            c = [child EXCEPT !.state = "zombie", !.code = "killed",
                              !.writes = kept, !.ended = elapsed]
      BY <1>3 DEF Killed
    <2>2. QED
      BY <1>1, <1>2, <2>1 DEF ChildType
  <1>4. CASE child.state # "running"
    BY <1>1, <1>4 DEF Killed, IInv, Supervised, ChildHonest
  <1>5. QED
    BY <1>3, <1>4

\* The environment of the service.
LEMMA WorldStep ==
    ASSUME IInv, EditSource \/ Reindex \/ Tick
    PROVE  IInv'
  <1>1. CASE EditSource
    <2>1. TypeOK'
      BY <1>1 DEF IInv, TypeOK, EditSource, Freshness
    <2>2. QED
      BY <1>1, <2>1 DEF IInv, Supervised, NoChildLeft, ChildHonest, Provenance,
         SnapshotHonest, Foreign, Earned, Judged, OverBudget, EditSource, FreshnessMatters, Supervising
  <1>2. CASE Reindex
    <2>0. outdated' \in BOOLEAN
      BY <1>2 DEF Reindex
    <2>1. TypeOK'
      BY <1>2, <2>0 DEF IInv, TypeOK, Reindex, Freshness
    <2>2. published = {}
      BY <1>2 DEF IInv, Earned, Reindex, FreshnessMatters
    <2>3. QED
      BY <1>2, <2>1, <2>2 DEF IInv, Supervised, NoChildLeft, ChildHonest, Provenance,
         SnapshotHonest, Foreign, Earned, Judged, OverBudget, Reindex, FreshnessMatters, Supervising
  <1>3. CASE Tick
    <2>1. /\ elapsed \in Nat /\ elapsed' \in 0..(TimeBudget + 1) /\ elapsed <= elapsed'
      BY <1>3, BudgetAssumption DEF IInv, TypeOK, Tick
    <2>2. call' \in CallType
      BY <1>3 DEF IInv, TypeOK, Tick, CallType
    <2>3. TypeOK'
      BY <1>3, <2>1, <2>2 DEF IInv, TypeOK, Tick, CallType
    <2>4. child.ended \in Nat
      BY BudgetAssumption DEF IInv, TypeOK
    <2>5. ChildHonest'
      BY <1>3, <2>1, <2>4 DEF IInv, ChildHonest, Tick
    <2>6. QED
      BY <1>3, <2>3, <2>5 DEF IInv, Supervised, NoChildLeft, Provenance,
         SnapshotHonest, Foreign, Earned, Judged, OverBudget, Tick, Supervising
  <1>4. QED
    BY <1>1, <1>2, <1>3

\* The child, running only while run() supervises it.
LEMMA ChildStepKeeps ==
    ASSUME IInv, Child
    PROVE  IInv'
  <1>1. /\ ChildStep /\ Supervise /\ pc' = pc /\ call' = call
        /\ pc \in Supervising /\ pc' \in Supervising /\ call' \in CallType
        /\ child \in ChildType /\ child.state = "running" /\ child.code = "none"
    BY DEF Child, ChildPrints, ChildEmits, ChildCloses, ChildExits, ChildStep, Supervise,
           IInv, Supervised, NoChildLeft, ChildHonest, TypeOK, CallType, ChildType
  <1>2. /\ elapsed \in 0..(TimeBudget + 1) /\ elapsed' = elapsed /\ elapsed <= elapsed
        /\ child.ended <= elapsed
    BY <1>1, BudgetAssumption DEF IInv, TypeOK, ChildHonest, ChildStep
  <1>3. CASE ChildPrints
    <2>a. PICK s \in child.writes :
            child' = [child EXCEPT !.pipe[s] = 1, !.prints = @ + 1]
      BY <1>3 DEF ChildPrints
    <2> DEFINE filled == [child.pipe EXCEPT ![s] = 1]
    <2>b. child' = [child EXCEPT !.pipe = filled, !.prints = @ + 1]
      BY <2>a
    <2>c. filled \in [Sinks -> 0..1]
      BY <1>1 DEF ChildType
    <2> HIDE DEF filled
    <2>d. child.prints + 1 \in 0..MaxPrints
      BY <1>1, <1>3, BudgetAssumption DEF ChildPrints, ChildType
    <2>1. child' \in ChildType /\ child'.state = "running" /\ child'.code = "none"
      BY <1>1, <2>b, <2>c, <2>d DEF ChildType
    <2>2. child'.ended = child.ended
      BY <1>1, <2>b DEF ChildType
    <2>3. QED
      BY <1>1, <1>2, <2>1, <2>2, SuperviseKeeps DEF ChildHonest
  <1>4. CASE ChildEmits
    <2>1. child' \in ChildType /\ child'.state = "running" /\ child'.code = "none"
      BY <1>1, <1>4 DEF ChildEmits, ChildType
    <2>2. child'.ended = child.ended
      BY <1>1, <1>4 DEF ChildEmits, ChildType
    <2>3. QED
      BY <1>1, <1>2, <2>1, <2>2, SuperviseKeeps DEF ChildHonest
  <1>5. CASE ChildCloses
    <2>1. child' \in ChildType /\ child'.state = "running" /\ child'.code = "none"
      BY <1>1, <1>5 DEF ChildCloses, ChildType
    <2>2. child'.ended = child.ended
      BY <1>1, <1>5 DEF ChildCloses, ChildType
    <2>3. QED
      BY <1>1, <1>2, <2>1, <2>2, SuperviseKeeps DEF ChildHonest
  <1>6. CASE ChildExits
    <2>1. PICK code \in {"ok", "failed"}, kept \in Kept :
             /\ code = "ok" => child.files = child.size
             /\ child' = [child EXCEPT !.state = "zombie", !.code = code,
                                       !.writes = kept, !.ended = elapsed]
      BY <1>6 DEF ChildExits
    <2>2. kept \in SUBSET Sinks
      BY <1>1 DEF Kept, ChildType
    <2>3. child' \in ChildType /\ child'.state = "zombie"
      BY <1>1, <1>2, <2>1, <2>2 DEF ChildType
    <2>4. ChildHonest'
      BY <1>1, <1>2, <2>1 DEF ChildHonest, ChildType
    <2>5. QED
      BY <1>1, <2>3, <2>4, SuperviseKeeps
  <1>7. QED
    BY <1>3, <1>4, <1>5, <1>6 DEF Child

\* AnalysisService::run up to the provider, and the providers: the label of
\* the snapshot follows the freshness of what is read.
LEMMA LoadKeeps ==
    ASSUME IInv, Begin \/ Load
    PROVE  IInv'
  <1>0. snapshot \in [completeness : Completeness, truncated : BOOLEAN]
    BY DEF IInv, TypeOK
  <1>1. CASE Begin
    <2>1. TypeOK'
      BY <1>1 DEF IInv, TypeOK, Begin
    <2>2. Supervised' /\ ChildHonest' /\ Earned'
      BY <1>1 DEF IInv, Supervised, NoChildLeft, ChildHonest, Earned, Begin, Supervising
    <2>3. Provenance'
      BY <1>1 DEF IInv, Provenance, Foreign, Begin, Supervising
    <2>4. QED
      BY <2>1, <2>2, <2>3 DEF IInv
  <1>2. CASE ReadIdentity
    <2>1. /\ snapshot' \in [completeness : Completeness, truncated : BOOLEAN]
          /\ freshness = "stale" => snapshot'.completeness = "stale"
      BY <1>0, <1>2 DEF ReadIdentity, Completeness
    <2>2. TypeOK'
      BY <1>2, <2>1 DEF IInv, TypeOK, ReadIdentity
    <2>3. Supervised' /\ ChildHonest' /\ Earned'
      BY <1>2 DEF IInv, Supervised, NoChildLeft, ChildHonest, Earned, ReadIdentity,
                  Supervising
    <2>4. Provenance'
      BY <1>2, <2>1 DEF IInv, Provenance, ReadIdentity, Supervising
    <2>5. QED
      BY <2>2, <2>3, <2>4 DEF IInv
  <1>3. CASE LoadIndex
    <2>1. /\ snapshot' \in [completeness : Completeness, truncated : BOOLEAN]
          /\ snapshot' = snapshot \/ snapshot'.completeness = "unknown"
          /\ Foreign("w1") => snapshot'.completeness = "unknown"
      BY <1>0, <1>3 DEF LoadIndex, Completeness
    <2>2. TypeOK'
      BY <1>3, <2>1 DEF IInv, TypeOK, LoadIndex
    <2>3. Supervised' /\ ChildHonest' /\ Earned'
      BY <1>3 DEF IInv, Supervised, NoChildLeft, ChildHonest, Earned, LoadIndex,
                  Supervising
    <2>4. request \in Requests
      BY DEF IInv, TypeOK
    <2>5. Provenance'
      BY <1>3, <2>1, <2>4
      DEF IInv, Provenance, SnapshotHonest, Foreign, LoadIndex, Supervising, Requests
    <2>6. QED
      BY <2>2, <2>3, <2>5 DEF IInv
  <1>4. CASE ReadArtifact
    <2> DEFINE right == Label(artifact')
               made(u) == Composed(snapshot.completeness, right,
                                   artifact'.workspace = "w1", artifact'.truncated, u)
    <2>1. artifact' \in Artifacts
      BY <1>4 DEF ReadArtifact
    <2>2. PICK unresolved \in BOOLEAN :
            snapshot' = [snapshot EXCEPT
                           !.completeness = IF request.provider = "artifact"
                                            THEN right ELSE made(unresolved),
                           !.truncated = artifact'.truncated]
      BY <1>4 DEF ReadArtifact
    <2>3. /\ right \in Completeness
          /\ artifact'.truncated \in BOOLEAN
          /\ (artifact'.workspace = "w1") \in BOOLEAN
          /\ snapshot.completeness \in Completeness
      BY <1>0, <2>1 DEF Artifacts, Completeness, Label
    <2>4. /\ made(unresolved) \in Completeness
          /\ made(unresolved) \notin {"stale", "unknown"} =>
                /\ snapshot.completeness \notin {"stale", "unknown"}
                /\ right \notin {"stale", "unknown"}
          /\ made(unresolved) = "complete" =>
                /\ right = "complete"
                /\ artifact'.workspace = "w1" /\ ~artifact'.truncated
      <3>1. /\ Worse(snapshot.completeness, right) \in Completeness
            /\ Worse(snapshot.completeness, right) \notin {"stale", "unknown"} =>
                  /\ snapshot.completeness \notin {"stale", "unknown"}
                  /\ right \notin {"stale", "unknown"}
            /\ Worse(snapshot.completeness, right) = "complete" => right = "complete"
        BY <2>3, WorseHonest
      <3> HIDE DEF right
      <3>2. QED
        BY <2>3, <3>1 DEF Composed, Completeness
    <2>5. right \notin {"stale", "unknown"} =>
             /\ right = artifact'.completeness
             /\ Foreign(artifact'.workspace) =>
                   artifact'.kind = "astgraph" /\ artifact'.completeness = "partial"
      <3>1. artifact'.kind \in {"astgraph", "extension"}
            /\ artifact'.completeness \in {"complete", "partial", "unknown", "stale"}
        BY <2>1 DEF Artifacts, Completeness
      <3>2. QED
        BY <3>1 DEF Label
    <2> HIDE DEF right, made
    <2>6. /\ snapshot' \in [completeness : Completeness, truncated : BOOLEAN]
          /\ snapshot'.completeness = IF request.provider = "artifact"
                                      THEN right ELSE made(unresolved)
          /\ snapshot'.truncated = artifact'.truncated
      BY <1>0, <2>2, <2>3, <2>4
    <2>7. TypeOK'
      BY <1>4, <2>1, <2>6 DEF IInv, TypeOK, ReadArtifact
    <2>8. Supervised' /\ ChildHonest' /\ Earned'
      BY <1>4 DEF IInv, Supervised, NoChildLeft, ChildHonest, Earned, ReadArtifact,
                  Supervising
    <2>9. request' = request /\ outdated' = outdated /\ pc = "artifact" /\ pc' = "check"
      BY <1>4 DEF ReadArtifact
    <2>10. SnapshotHonest'
      <3> SUFFICES ASSUME snapshot'.completeness \notin {"stale", "unknown"}
                   PROVE  SnapshotHonest'
        BY DEF SnapshotHonest
      <3>1. request.provider # "artifact" => ~outdated /\ ~Foreign("w1")
        BY <2>4, <2>6, <2>9 DEF IInv, Provenance
      <3>2. right \notin {"stale", "unknown"} /\ right = artifact'.completeness
        BY <2>4, <2>5, <2>6
      <3>5. Foreign(artifact'.workspace) =>
               /\ artifact'.kind = "astgraph" /\ artifact'.completeness = "partial"
               /\ snapshot'.completeness = "partial"
        BY <2>4, <2>5, <2>6, <3>2 DEF Completeness
      <3>3. snapshot'.completeness = "complete" /\ ~snapshot'.truncated
            => /\ right = "complete" /\ ~artifact'.truncated
               /\ request.provider = "composed" => artifact'.workspace = "w1"
        BY <2>4, <2>6
      <3>4. QED
        BY <2>9, <3>1, <3>2, <3>3, <3>5 DEF SnapshotHonest, Foreign
    <2>11. Provenance'
      BY <2>9, <2>10 DEF Provenance, Supervising
    <2>12. QED
      BY <2>7, <2>8, <2>11 DEF IInv
  <1>5. QED
    BY <1>1, <1>2, <1>3, <1>4 DEF Load

\* The checks between the provider and the engine, and the start of a child.
LEMMA CheckKeeps ==
    ASSUME IInv, CheckRefuses \/ CheckPasses \/ Spawn
    PROVE  IInv'
  <1>1. CASE CheckRefuses
    BY <1>1, ReturnKeeps DEF CheckRefuses, Statuses, Classes, Supervising
  <1>2. CASE CheckPasses
    <2>1. TypeOK'
      BY <1>2 DEF IInv, TypeOK, CheckPasses
    <2>2. Supervised' /\ ChildHonest' /\ Earned'
      BY <1>2 DEF IInv, Supervised, NoChildLeft, ChildHonest, Earned, CheckPasses,
                  Supervising
    <2>3. Provenance'
      BY <1>2 DEF IInv, Provenance, SnapshotHonest, Foreign, CheckPasses, Supervising
    <2>4. QED
      BY <2>1, <2>2, <2>3 DEF IInv
  <1>3. CASE Spawn
    <2>1. PICK size \in Nat, purpose \in {"version", "program"} :
            /\ child' = [NoChild EXCEPT !.state = "running", !.writes = Sinks,
                                        !.size = size]
            /\ call' = [NoCall EXCEPT
                          !.purpose = purpose, !.open = Sinks,
                          !.left = IF purpose = "version" THEN VersionTimeout
                                                          ELSE TimeBudget]
      BY <1>3, BudgetAssumption DEF Spawn
    <2> DEFINE silent == [s \in Sinks |-> 0]
    <2>a. silent \in [Sinks -> 0..1]
      OBVIOUS
    <2>b. child' = [state |-> "running", code |-> "none", writes |-> Sinks,
                    pipe |-> silent, prints |-> 0, size |-> size,
                    files |-> 0, ended |-> 0]
      BY <2>1 DEF NoChild
    <2> HIDE DEF silent
    <2>2. /\ child' \in ChildType /\ child'.state = "running" /\ child'.code = "none"
          /\ child'.ended = 0
      BY <2>a, <2>b, Budgets DEF ChildType
    <2>c. PICK left \in Nat :
            call' = [purpose |-> purpose, left |-> left, open |-> Sinks, ready |-> {},
                     captured |-> 0, timed_out |-> FALSE, output_limited |-> FALSE,
                     guarded |-> FALSE]
      BY <2>1, Budgets DEF NoCall
    <2>3. call' \in CallType
      BY <2>c, Budgets DEF CallType
    <2>4. TypeOK'
      BY <1>3, <2>2, <2>3 DEF IInv, TypeOK, Spawn, Supervising, CallType, ChildType
    <2>5. Supervised'
      BY <1>3, <2>2 DEF Supervised, NoChildLeft, Spawn, Supervising
    <2>6. ChildHonest'
      <3>1. elapsed' \in 0..(TimeBudget + 1)
        BY <1>3 DEF IInv, TypeOK, Spawn
      <3>2. 0 <= elapsed'
        BY <3>1, Budgets
      <3>3. QED
        BY <2>2, <3>2 DEF ChildHonest
    <2>7. Provenance' /\ Earned'
      BY <1>3 DEF IInv, Provenance, SnapshotHonest, Foreign, Earned, Spawn, Supervising
    <2>8. QED
      BY <2>4, <2>5, <2>6, <2>7 DEF IInv
  <1>4. QED
    BY <1>1, <1>2, <1>3

\* The loop of run().
LEMMA RunLoopKeeps ==
    ASSUME IInv, Guard \/ Deadline \/ Poll \/ PollFails \/ Read
    PROVE  IInv'
  <1>1. /\ call \in CallType /\ child \in ChildType
        /\ pc \in Supervising /\ Supervise /\ elapsed' = elapsed
        /\ child.state \in {"running", "zombie"} /\ ChildHonest
    BY DEF IInv, TypeOK, CallType, ChildType, Guard, Deadline, Poll, PollFails, Read,
           Supervise, Supervised, Supervising
  <1>2. ASSUME UNCHANGED child, call' \in CallType, pc' \in Supervising
        PROVE  IInv'
    BY <1>1, <1>2, SuperviseKeeps DEF ChildHonest
  <1>3. ASSUME child' \in Killed, call' \in CallType, pc' \in Supervising
        PROVE  IInv'
    BY <1>1, <1>3, KilledHonest, SuperviseKeeps DEF ChildHonest
  <1>4. CASE Guard
    BY <1>1, <1>2, <1>3, <1>4 DEF Guard, CallType, Supervising
  <1>5. CASE Deadline
    BY <1>1, <1>2, <1>3, <1>5 DEF Deadline, CallType, Supervising
  <1>6. CASE Poll
    <2>1. call' \in CallType
      BY <1>1, <1>6 DEF Poll, CallType
    <2>2. QED
      BY <1>2, <1>6, <2>1 DEF Poll, Supervising
  <1>7. CASE PollFails
    BY <1>1, <1>2, <1>7 DEF PollFails, CallType, Supervising
  <1>8. CASE Read
    <2>a. PICK s \in Sinks : s = NextSink
      BY DEF NextSink, Sinks
    <2>1. pc' \in Supervising
      BY <1>8 DEF Read, Supervising
    <2>2. CASE child.pipe[s] = 0
      <3>1. call' \in CallType /\ UNCHANGED child
        <4>1. /\ call' = [call EXCEPT !.open = call.open \ {s}, !.ready = call.ready \ {s}]
              /\ UNCHANGED child
          BY <1>8, <2>a, <2>2 DEF Read
        <4>2. QED
          BY <1>1, <4>1 DEF CallType
      <3>2. QED
        BY <1>2, <2>1, <3>1
    <2> DEFINE emptied == [child.pipe EXCEPT ![s] = 0]
    <2>3. emptied \in [Sinks -> 0..1]
      BY <1>1 DEF ChildType
    <2>4. CASE child.pipe[s] # 0 /\ call.captured < CaptureBudget
      <3>1. call' \in CallType
        <4>1. call' = [call EXCEPT !.captured = call.captured + 1,
                                   !.ready = call.ready \ {s}]
          BY <1>8, <2>a, <2>4 DEF Read
        <4>2. call.captured + 1 \in 0..CaptureBudget
          BY <1>1, <2>4, Budgets DEF CallType
        <4>3. QED
          BY <1>1, <4>1, <4>2 DEF CallType
      <3>2. child' = [child EXCEPT !.pipe = emptied]
        BY <1>8, <2>a, <2>4 DEF Read
      <3> HIDE DEF emptied
      <3>3. /\ child' \in ChildType /\ child'.state = child.state
            /\ child'.code = child.code /\ child'.files = child.files
            /\ child'.size = child.size /\ child'.ended = child.ended
        BY <1>1, <2>3, <3>2 DEF ChildType
      <3>4. ChildHonest'
        BY <1>1, <3>3 DEF ChildHonest
      <3>5. QED
        BY <1>1, <2>1, <3>1, <3>3, <3>4, SuperviseKeeps
    <2>5. CASE child.pipe[s] # 0 /\ ~(call.captured < CaptureBudget)
      <3>1. call' \in CallType
        BY <1>1, <1>8, <2>a, <2>5 DEF Read, CallType
      <3>2. PICK c \in Killed : child' = [c EXCEPT !.pipe[s] = 0]
        BY <1>8, <2>a, <2>5 DEF Read
      <3>3. /\ c \in ChildType /\ c.state = "zombie"
            /\ c.code = "ok" => c.files = c.size
            /\ c.ended <= elapsed
        BY <1>1, KilledHonest
      <3>4. [c.pipe EXCEPT ![s] = 0] \in [Sinks -> 0..1]
        BY <3>3 DEF ChildType
      <3>5. child' = [c EXCEPT !.pipe = [c.pipe EXCEPT ![s] = 0]]
        BY <3>2
      <3>6. /\ child' \in ChildType /\ child'.state = "zombie"
            /\ child'.code = c.code /\ child'.files = c.files
            /\ child'.size = c.size /\ child'.ended = c.ended
        BY <3>3, <3>4, <3>5 DEF ChildType
      <3>7. ChildHonest'
        BY <1>1, <3>3, <3>6 DEF ChildHonest
      <3>8. QED
        BY <1>1, <2>1, <3>1, <3>6, <3>7, SuperviseKeeps
    <2>6. QED
      BY <2>2, <2>4, <2>5
  <1>9. QED
    BY <1>4, <1>5, <1>6, <1>7, <1>8

\* waitpid() reaps the child, and only then is run() left.
LEMMA WaitKeeps ==
    ASSUME IInv, Wait
    PROVE  IInv'
  <1>1. /\ child' \in ChildType /\ child'.state = "reaped" /\ child'.code = child.code
        /\ child'.files = child.files /\ child'.size = child.size
        /\ child'.ended = child.ended
    BY DEF IInv, TypeOK, Wait, ChildType
  <1>2. call' \in CallType
    BY DEF IInv, TypeOK, Wait, CallType
  <1>3. TypeOK'
    BY <1>1, <1>2 DEF IInv, TypeOK, Wait, Supervise, CallType, ChildType
  <1>4. Supervised'
    BY <1>1 DEF Supervised, NoChildLeft, Wait, Supervising
  <1>5. ChildHonest'
    BY <1>1 DEF IInv, ChildHonest, Wait, Supervise
  <1>6. Provenance' /\ Earned'
    BY DEF IInv, Provenance, SnapshotHonest, Foreign, Earned, Wait, Supervise, Supervising
  <1>7. QED
    BY <1>3, <1>4, <1>5, <1>6 DEF IInv

\* Judge lets a result through only if the child ended well, in time and
\* inside the output budget.
LEMMA JudgeKeeps ==
    ASSUME IInv, Judge
    PROVE  IInv'
  <1>0. pc = "judge" /\ pc \notin Supervising \cup {"done"}
    BY DEF Judge, Supervising
  <1>1. CASE EngineError # "none"
    <2>1. EngineError \in Classes
      BY <1>1 DEF EngineError, Classes
    <2>2. QED
      BY <1>0, <1>1, <2>1, ReturnKeeps DEF Judge, Statuses
  <1>2. CASE EngineError = "none" /\ OverBudget(CanonicalSize)
    BY <1>0, <1>2, ReturnKeeps DEF Judge, Statuses, Classes
  <1>3. CASE EngineError = "none" /\ ~OverBudget(CanonicalSize) /\ Outlasted
    BY <1>0, <1>3, ReturnKeeps DEF Judge, Statuses, Classes
  <1>4. CASE EngineError = "none" /\ ~OverBudget(CanonicalSize) /\ ~Outlasted
    <2>1. /\ result' = IF snapshot.truncated
                       THEN [status |-> "partial", class |-> "truncated_input"]
                       ELSE [status |-> snapshot.completeness,
                             class |-> snapshot.completeness]
          /\ pc' \in {"publish", "done"}
          /\ UNCHANGED <<freshness, outdated, artifact, request, elapsed,
                         snapshot, call, child, published>>
      BY <1>4 DEF Judge
    <2>2. /\ snapshot.completeness \in {"complete", "partial"} /\ SnapshotHonest
          /\ published = {}
      BY <1>0 DEF IInv, Provenance, Earned
    <2>3. /\ result' \in [status : Statuses, class : Classes]
          /\ result'.status \in {"complete", "partial"}
          /\ result'.status = "complete" =>
                snapshot.completeness = "complete" /\ ~snapshot.truncated
      BY <2>1, <2>2 DEF Statuses, Classes
    <2>4. child.code = "ok" /\ ~OverBudget(child.files)
      BY <1>4 DEF EngineError
    <2>6. child.ended <= TimeBudget
      <3>1. elapsed \in 0..(TimeBudget + 1) /\ child.ended \in 0..(TimeBudget + 1)
        BY DEF IInv, TypeOK
      <3>2. child.ended <= elapsed /\ ~(elapsed > TimeBudget)
        BY <1>4 DEF IInv, ChildHonest, Outlasted
      <3>3. QED
        BY <3>1, <3>2, Budgets
    <2>7. Judged'
      BY <2>1, <2>2, <2>3, <2>4, <2>6 DEF Judged, SnapshotHonest, OverBudget, Foreign
    <2>8. TypeOK'
      BY <2>1, <2>3 DEF IInv, TypeOK
    <2>9. Supervised' /\ ChildHonest'
      BY <1>0, <2>1 DEF IInv, Supervised, NoChildLeft, ChildHonest, Supervising
    <2>10. Provenance' /\ Earned'
      BY <2>1, <2>2, <2>7 DEF Provenance, SnapshotHonest, Foreign, Earned, Supervising
    <2>11. QED
      BY <2>8, <2>9, <2>10 DEF IInv
  <1>5. QED
    BY <1>1, <1>2, <1>3, <1>4

\* AnalysisPublisher::publish stores the judged result under its own label.
LEMMA PublishKeeps ==
    ASSUME IInv, Publish
    PROVE  IInv'
  <1> DEFINE a == [completeness |-> result.status,
                   truncated |-> result.class = "truncated_input"]
  <1>1. published' = {a} /\ a.completeness = result.status
    BY DEF Publish
  <1>2. Judged
    BY DEF IInv, Earned, Publish
  <1>3. a \in [completeness : {"complete", "partial"}, truncated : BOOLEAN]
    BY <1>2 DEF Judged
  <1> HIDE DEF a
  <1>4. Cardinality(published') <= 1
    <2>1. Cardinality({a}) = 1
      BY FS_Singleton
    <2>2. QED
      BY <1>1, <2>1
  <1>5. TypeOK'
    BY <1>1, <1>3, <1>4 DEF IInv, TypeOK, Publish
  <1>6. Supervised' /\ ChildHonest' /\ Provenance'
    BY DEF IInv, Supervised, NoChildLeft, ChildHonest, Provenance, SnapshotHonest, Foreign, Publish,
           Supervising
  <1>7. Judged'
    BY <1>2 DEF Judged, SnapshotHonest, OverBudget, Foreign, Publish
  <1>8. Earned'
    BY <1>1, <1>7 DEF Earned, Publish
  <1>9. QED
    BY <1>5, <1>6, <1>8 DEF IInv

\* Every failure outside of run() is a return.
LEMMA FailureKeeps ==
    ASSUME IInv, Failure
    PROVE  IInv'
  <1>1. CASE InvalidPackage
    BY <1>1, ReturnKeeps DEF InvalidPackage, Statuses, Classes, Supervising
  <1>2. CASE ProviderFails
    BY <1>2, ReturnKeeps DEF ProviderFails, Statuses, Classes, Supervising
  <1>3. CASE RequirementsFail
    BY <1>3, ReturnKeeps DEF RequirementsFail, Statuses, Classes, Supervising
  <1>4. CASE EngineFails
    BY <1>4, ReturnKeeps DEF EngineFails, Statuses, Classes, Supervising
  <1>5. CASE PollFails
    BY <1>5, RunLoopKeeps
  <1>6. CASE OutputFails
    BY <1>6, ReturnKeeps DEF OutputFails, Statuses, Classes, Supervising
  <1>7. CASE PublishFails
    BY <1>7, ReturnKeeps DEF PublishFails, Statuses, Classes, Supervising
  <1>8. QED
    BY <1>1, <1>2, <1>3, <1>4, <1>5, <1>6, <1>7 DEF Failure

-----------------------------------------------------------------------------
\* A request that has just come satisfies the invariant.
LEMMA InitInvariant == Init => IInv
  <1> SUFFICES ASSUME Init PROVE IInv
    OBVIOUS
  <1>1. call \in CallType
    BY Budgets DEF Init, NoCall, CallType
  <1>2. child \in ChildType
    <2> DEFINE silent == [s \in Sinks |-> 0]
    <2>1. silent \in [Sinks -> 0..1]
      OBVIOUS
    <2>2. child = [state |-> "none", code |-> "none", writes |-> {}, pipe |-> silent,
                   prints |-> 0, size |-> 0, files |-> 0, ended |-> 0]
      BY DEF Init, NoChild
    <2> HIDE DEF silent
    <2>3. QED
      BY <2>1, <2>2, Budgets DEF ChildType
  <1>3. /\ artifact \in Artifacts
        /\ snapshot \in [completeness : Completeness, truncated : BOOLEAN]
        /\ result \in [status : Statuses, class : Classes]
    BY DEF Init, Unread, Artifacts, Completeness, Workspaces, Statuses, Classes
  <1>4. outdated \in BOOLEAN /\ (outdated => freshness = "stale")
    BY DEF Init
  <1>5. published = {} /\ Cardinality(published) <= 1
    BY FS_EmptySet DEF Init
  <1>6. TypeOK
    BY <1>1, <1>2, <1>3, <1>4, <1>5, Budgets DEF Init, TypeOK, CallType, ChildType
  <1>7. Supervised /\ ChildHonest
    BY DEF Init, NoChild, Supervised, NoChildLeft, ChildHonest, Supervising
  <1>8. Provenance /\ Earned
    BY <1>4, <1>5 DEF Init, Provenance, Earned, Supervising
  <1>9. QED
    BY <1>6, <1>7, <1>8 DEF IInv

\* Every step of the service, its child and the world keeps it.
LEMMA StepInvariant == IInv /\ [Next]_vars => IInv'
  <1> SUFFICES ASSUME IInv, [Next]_vars PROVE IInv'
    OBVIOUS
  <1>1. CASE Service
    BY <1>1, LoadKeeps, CheckKeeps, RunLoopKeeps, WaitKeeps, JudgeKeeps, PublishKeeps
    DEF Service
  <1>2. CASE Failure
    BY <1>2, FailureKeeps
  <1>3. CASE Child
    BY <1>3, ChildStepKeeps
  <1>4. CASE EditSource \/ Reindex \/ Tick
    BY <1>4, WorldStep
  <1>5. CASE UNCHANGED vars
    <2>1. TypeOK'
      BY <1>5 DEF IInv, TypeOK, vars
    <2>2. QED
      BY <1>5, <2>1 DEF IInv, Supervised, NoChildLeft, ChildHonest, Provenance,
         SnapshotHonest, Foreign, Earned, Judged, OverBudget, vars
  <1>6. QED
    BY <1>1, <1>2, <1>3, <1>4, <1>5 DEF Next

\* The invariant says what a published result promises.
LEMMA InvariantImplies ==
    IInv => NoChildLeft /\ PublishedInTime /\ PublishedHonest
  <1> SUFFICES ASSUME IInv PROVE NoChildLeft /\ PublishedInTime /\ PublishedHonest
    OBVIOUS
  <1>1. NoChildLeft
    BY DEF IInv, Supervised
  <1>2. PublishedInTime
    BY DEF IInv, Earned, Judged, PublishedInTime
  <1>3. ASSUME NEW a \in published
        PROVE  /\ child.code = "ok" /\ child.files = child.size
               /\ ~OverBudget(child.files)
               /\ request.provider # "artifact" => ~outdated /\ ~Foreign("w1")
               /\ request.provider # "index" =>
                     /\ artifact.completeness \notin {"stale", "unknown"}
                     /\ Foreign(artifact.workspace) =>
                           /\ artifact.kind = "astgraph"
                           /\ artifact.completeness = "partial"
                           /\ a.completeness = "partial"
               /\ a.completeness = "complete" /\ request.provider # "index" =>
                     /\ artifact.completeness = "complete" /\ ~artifact.truncated
                     /\ request.provider = "composed" => artifact.workspace = "w1"
    <2>1. Judged /\ a.completeness = result.status
      BY <1>3 DEF IInv, Earned
    <2>2. child.files = child.size
      BY <2>1 DEF IInv, ChildHonest, Judged
    <2>3. QED
      BY <2>1, <2>2 DEF Judged, SnapshotHonest
  <1>4. PublishedHonest
    BY <1>3 DEF PublishedHonest
  <1>5. QED
    BY <1>1, <1>2, <1>4

\* Hence it always holds.
LEMMA Invariance == Spec => []IInv
  BY InitInvariant, StepInvariant, PTL DEF Spec

\* The state of a request is well typed: what is captured of the child's
\* output stays within the capture budget, and at most one artifact, labelled
\* complete or partial, is published.
THEOREM TypeCorrect == Spec => []TypeOK
  BY Invariance, PTL DEF IInv

\* run() never leaves a child behind: whichever of exit, guard, deadline,
\* capture limit and poll error comes first, the child is reaped.
THEOREM Reaped == Spec => []NoChildLeft
  BY Invariance, InvariantImplies, PTL

\* A result is published only if its child ended within the time budget of
\* the request, although run() gives the child a full budget of its own.
THEOREM InTime == Spec => []PublishedInTime
  BY Invariance, InvariantImplies, PTL

\* What is published as complete rests on complete, current facts of one
\* workspace and on the whole output of a child that ended well, within the
\* output budget if there is one.  Nothing published rests on a stale index or
\* artifact, and only facts of an astgraph artifact that calls itself partial
\* can be of another workspace than the one asked for: the result is then
\* partial as well.
THEOREM Honest == Spec => []PublishedHonest
  BY Invariance, InvariantImplies, PTL
=============================================================================
