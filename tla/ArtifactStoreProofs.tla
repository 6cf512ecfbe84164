------------------------- MODULE ArtifactStoreProofs -------------------------
(***************************************************************************)
(* Proofs about ArtifactStore, for every number of processes, artifacts,   *)
(* rows, tokens and accidents.                                             *)
(***************************************************************************)
EXTENDS ArtifactStore, TLAPS

-----------------------------------------------------------------------------
(***************************************************************************)
(* The inductive invariant.                                                *)
(***************************************************************************)

Jobs == [path : Paths \cup {<<>>}, row : RowIds \cup {0}, paths : SUBSET Paths,
         todo : SUBSET (RowIds \cup Paths)]

Shape ==
  /\ DOMAIN rows = Databases /\ DOMAIN holds = Databases
  /\ job \in [Procs -> Jobs]
  /\ opened \in [Procs -> BOOLEAN]

\* The operations that hold .artifact-publication.lock from their first step to
\* their last, so that no two processes are inside one of them.
Locked == {"staged", "installed", "recorded", "sweep", "erase", "walk", "clear"}
LockHeld == \A p \in Procs : pc[p] \in Locked => lock = p

\* What the local values of an operation stand for while it runs.
PublisherJob ==
  \A p \in Procs :
    pc[p] \in {"staged", "installed", "recorded", "attaching"} => job[p].path \in Paths
SweeperJob ==
  \A p \in Procs :
    /\ pc[p] = "sweep" => job[p].row = 0
    /\ pc[p] = "erase" =>
         /\ job[p].todo \subseteq DOMAIN rows[DbOf[p]] \ CurrentRows(DbOf[p])
         /\ job[p].row # 0 => job[p].row \in job[p].todo
WalkerJob ==
  \A p \in Procs :
    /\ pc[p] = "walk" => DOMAIN files \subseteq job[p].paths \cup job[p].todo
    /\ pc[p] = "clear" => DOMAIN files \subseteq job[p].paths

\* A connection with attachments remembers the mode it was opened with.
ModeKept == \A p \in Procs : attached[p] # {} => before[p] = opened[p]

\* A generation has one row in a database: its digest names it.
RowsDistinct ==
  \A d \in Databases : \A r, s \in DOMAIN rows[d] :
    rows[d][r].path = rows[d][s].path => r = s

IInv ==
  /\ TypeOK /\ Shape /\ LockHeld /\ RowsDistinct
  /\ PublisherJob /\ SweeperJob /\ WalkerJob
  /\ ModeKept /\ QueryOnlyRestored

-----------------------------------------------------------------------------
(***************************************************************************)
(* Operators.                                                              *)
(***************************************************************************)

\* A new row gets one id, which no row has.
LEMMA FreshRowIsNew ==
    ASSUME NEW d, DOMAIN rows[d] \subseteq RowIds,
           NEW n \in FreshRow(d), NEW m \in FreshRow(d)
    PROVE  n \in RowIds /\ n \notin DOMAIN rows[d] /\ n = m
  BY StoreAssumption DEF FreshRow, RowIds

\* A holder of the lock is the only process inside a locked operation.
LEMMA Exclusive ==
    ASSUME LockHeld, NEW p \in Procs, NEW q \in Procs,
           pc[p] \in Locked, pc[q] \in Locked
    PROVE  p = q
  BY DEF LockHeld

-----------------------------------------------------------------------------
(***************************************************************************)
(* Steps that leave the manifest and the files alone.                      *)
(***************************************************************************)

\* A process that enters, leaves or restarts an operation without touching
\* files, rows, leases or pins.
LEMMA ProcessStep ==
    ASSUME IInv, NEW p \in Procs, NEW where \in Locations, NEW what \in Jobs,
           pc' = [pc EXCEPT ![p] = where], job' = [job EXCEPT ![p] = what],
           UNCHANGED <<files, damaged, rows, holds, attached, queryOnly, before,
                       opened, accidents>>,
           staging' \subseteq Procs \cup {Left},
           lock' \in {lock, p, None},
           lock # p => lock' \in {lock, p} /\ (lock' = p => lock = None),
           where \in Locked => lock' = p,
           where \in {"staged", "installed", "recorded", "attaching"} => what.path \in Paths,
           where = "sweep" => what.row = 0,
           where = "erase" =>
             /\ what.todo \subseteq DOMAIN rows[DbOf[p]] \ CurrentRows(DbOf[p])
             /\ what.row # 0 => what.row \in what.todo,
           where = "walk" => DOMAIN files \subseteq what.paths \cup what.todo,
           where = "clear" => DOMAIN files \subseteq what.paths
    PROVE  IInv'
  <1>1. TypeOK'
    BY DEF IInv, TypeOK
  <1>2. Shape'
    BY DEF IInv, Shape
  <1>3. LockHeld'
    BY StoreAssumption DEF IInv, TypeOK, LockHeld, Locked
  <1>4. \A q \in Procs : q # p => pc'[q] = pc[q] /\ job'[q] = job[q]
    BY DEF IInv, TypeOK, Shape
  <1>5. pc'[p] = where /\ job'[p] = what
    BY DEF IInv, TypeOK, Shape
  <1>6. PublisherJob'
    BY <1>4, <1>5 DEF IInv, PublisherJob
  <1>7. SweeperJob'
    BY <1>4, <1>5 DEF IInv, SweeperJob, CurrentRows
  <1>8. WalkerJob'
    BY <1>4, <1>5 DEF IInv, WalkerJob
  <1>9. ModeKept' /\ QueryOnlyRestored'
    BY DEF IInv, ModeKept, QueryOnlyRestored
  <1>10. RowsDistinct'
    BY DEF IInv, RowsDistinct
  <1>11. QED
    BY <1>1, <1>2, <1>3, <1>6, <1>7, <1>8, <1>9, <1>10 DEF IInv

\* A process between operations has no local values.
LEMMA IdleJob == Idle \in Jobs
  BY DEF Idle, Jobs

\* Every way out of a locked operation, by a result or by an exception.
LEMMA AbortKeeps ==
    ASSUME IInv, NEW p \in Procs, pc[p] \in Locked, Abort(p),
           UNCHANGED <<files, damaged, rows, holds, attached, queryOnly, before,
                       opened, accidents>>
    PROVE  IInv'
  <1>1. lock = p
    BY DEF IInv, LockHeld
  <1>2. "idle" \in Locations
    BY DEF Locations
  <1>3. /\ pc' = [pc EXCEPT ![p] = "idle"] /\ job' = [job EXCEPT ![p] = Idle]
        /\ staging' \subseteq Procs \cup {Left} /\ lock' = None
    BY DEF Abort, Unstage, Orphaned, Finish, IInv, TypeOK
  <1>4. "idle" \notin Locked
    BY DEF Locked
  <1>5. QED
    BY <1>1, <1>2, <1>3, <1>4, IdleJob, ProcessStep

\* A publisher takes the lock and stages a payload.
LEMMA PublishKeeps ==
    ASSUME IInv, NEW p \in Procs, NEW id \in Ids, NEW c \in Payloads, Publish(p, id, c)
    PROVE  IInv'
  <1> DEFINE what == [Idle EXCEPT !.path = <<id, c>>]
  <1>1. what \in Jobs /\ what.path \in Paths
    BY DEF Idle, Jobs, Paths
  <1>2. /\ pc' = [pc EXCEPT ![p] = "staged"] /\ job' = [job EXCEPT ![p] = what]
        /\ staging' \subseteq Procs \cup {Left} /\ lock' = p /\ lock = None
        /\ UNCHANGED <<files, damaged, rows, holds, attached, queryOnly, before,
                       opened, accidents>>
    BY DEF Publish, IInv, TypeOK, dbVars, connVars
  <1> HIDE DEF what
  <1>3. "staged" \in Locations
    BY DEF Locations
  <1>4. QED
    BY <1>1, <1>2, <1>3, ProcessStep

\* A publication ends: its writer or its record fails, or it is done.
LEMMA FailuresKeep ==
    ASSUME IInv, NEW p \in Procs, WriterFails(p) \/ RecordFails(p) \/ PublishDone(p)
    PROVE  IInv'
  <1>1. /\ pc[p] \in Locked /\ Abort(p)
        /\ UNCHANGED <<files, damaged, rows, holds, attached, queryOnly, before,
                       opened, accidents>>
    BY DEF WriterFails, RecordFails, PublishDone, Locked, dbVars, connVars
  <1>2. QED
    BY <1>1, AbortKeeps

\* Nobody walks the files while somebody else holds the lock.
LEMMA InstallKeeps ==
    ASSUME IInv, NEW p \in Procs, Install(p)
    PROVE  IInv'
  <1> DEFINE f == job[p].path
  <1>1. pc[p] = "staged" /\ f \in Paths
    BY DEF Install, IInv, PublisherJob
  <1>2. UNCHANGED <<rows, holds, attached, queryOnly, before, opened, accidents>>
    BY DEF Install, dbVars, connVars
  <1>3. CASE Abort(p) /\ UNCHANGED <<files, damaged>>
    BY <1>1, <1>2, <1>3, AbortKeeps DEF Locked
  <1>4. CASE /\ files' = With(files, f, "good")
             /\ damaged' = damaged \ {f}
             /\ IF f \in DOMAIN files THEN Unstage(p) ELSE staging' = staging \ {p}
             /\ \/ /\ pc' = [pc EXCEPT ![p] = "installed"]
                   /\ UNCHANGED <<lock, job>>
                \/ Finish(p)
    <2>0. files' = [g \in DOMAIN files \cup {f} |-> IF g = f THEN "good" ELSE files[g]]
      BY <1>4 DEF With
    <2>1. DOMAIN files' = DOMAIN files \cup {f} /\ files'[f] = "good"
      BY <2>0
    <2>2. \A g \in DOMAIN files : g # f => files'[g] = files[g]
      BY <2>0
    <2>3. pc[p] \in Locked
      BY <1>1 DEF Locked
    <2>4. \E where \in {"idle", "installed"} : pc' = [pc EXCEPT ![p] = where]
      BY <1>4 DEF Finish
    <2>5. /\ job' = job \/ job' = [job EXCEPT ![p] = Idle]
          /\ lock' = lock \/ lock' = None
          /\ pc'[p] = "installed" => job' = job /\ lock' = lock
          /\ staging' \subseteq Procs \cup {Left}
      BY <1>4 DEF Finish, Unstage, Orphaned, IInv, TypeOK
    <2>6. /\ pc' \in [Procs -> Locations] /\ job' \in [Procs -> Jobs]
          /\ pc'[p] \in {"idle", "installed"}
          /\ \A q \in Procs : q # p => pc'[q] = pc[q] /\ job'[q] = job[q]
      BY <2>4, <2>5, IdleJob DEF IInv, TypeOK, Shape, Locations
    <2>7. \A q \in Procs : q # p => pc[q] \notin Locked
      BY <2>3, Exclusive DEF IInv
    <2>8. TypeOK'
      <3>1. \A g \in DOMAIN files' : files'[g] \in {"good", "bad"}
        BY <2>1, <2>2 DEF IInv, TypeOK
      <3>2. DOMAIN files' \subseteq Paths /\ damaged' \subseteq Paths
        BY <1>1, <1>4, <2>1 DEF IInv, TypeOK
      <3>3. lock' \in Procs \cup {None}
        BY <2>5 DEF IInv, TypeOK
      <3>4. QED
        BY <1>2, <2>5, <2>6, <3>1, <3>2, <3>3 DEF IInv, TypeOK
    <2>9. Shape'
      BY <1>2, <2>6 DEF IInv, Shape
    <2>10. LockHeld'
      BY <2>3, <2>5, <2>6, <2>7 DEF IInv, LockHeld, Locked
    <2>11. PublisherJob'
      BY <1>1, <2>5, <2>6 DEF IInv, PublisherJob
    <2>12. SweeperJob'
      BY <1>2, <2>6, <2>7 DEF SweeperJob, Locked
    <2>13. WalkerJob'
      BY <2>6, <2>7 DEF WalkerJob, Locked
    <2>14. ModeKept' /\ QueryOnlyRestored'
      BY <1>2 DEF IInv, ModeKept, QueryOnlyRestored
    <2>15. RowsDistinct'
      BY <1>2 DEF IInv, RowsDistinct
    <2>16. QED
      BY <2>8, <2>9, <2>10, <2>11, <2>12, <2>13, <2>14, <2>15 DEF IInv
  <1>5. QED
    BY <1>3, <1>4 DEF Install

\* What the transaction of publish_staged does to the manifest: one row, the
\* only one of its path, becomes current; rows of the same artifact become
\* stale; nothing else changes.
LEMMA RecordFacts ==
    ASSUME IInv, NEW p \in Procs, Record(p)
    PROVE  /\ job[p].path \in Paths /\ DbOf[p] \in Databases
           /\ DOMAIN rows' = Databases
           /\ \A e \in Databases : e # DbOf[p] => rows'[e] = rows[e]
           /\ \E n \in RowIds :
                /\ DOMAIN rows'[DbOf[p]] = DOMAIN rows[DbOf[p]] \cup {n}
                /\ rows'[DbOf[p]][n] = [path |-> job[p].path, state |-> "current"]
                /\ n \in DOMAIN rows[DbOf[p]] => rows[DbOf[p]][n].path = job[p].path
                /\ \A r \in DOMAIN rows[DbOf[p]] : r # n =>
                     /\ rows[DbOf[p]][r].path # job[p].path
                     /\ rows'[DbOf[p]][r] \in [path : Paths, state : {"current", "stale"}]
                     /\ rows'[DbOf[p]][r].path = rows[DbOf[p]][r].path
                     /\ rows'[DbOf[p]][r].state # rows[DbOf[p]][r].state =>
                          /\ rows'[DbOf[p]][r].state = "stale"
                          /\ rows[DbOf[p]][r].path[1] = job[p].path[1]
  <1> DEFINE d == DbOf[p]
             f == job[p].path
             same == {r \in DOMAIN rows[d] : rows[d][r].path = f}
             own == IF same = {} THEN FreshRow(d) ELSE same
             changed == [r \in DOMAIN rows[d] \cup own |->
                IF r \in own
                THEN [path |-> f, state |-> IF same = {} THEN "current" ELSE "current"]
                ELSE IF r \in RowsOf(d, f[1]) THEN [rows[d][r] EXCEPT !.state = "stale"]
                ELSE rows[d][r]]
  <1>1. f \in Paths /\ d \in Databases
    BY StoreAssumption DEF Record, RecordAs, IInv, PublisherJob
  <1>2. own # {} /\ rows' = [rows EXCEPT ![d] = changed]
    BY DEF Record, RecordAs
  <1>3. DOMAIN rows[d] \subseteq RowIds
    BY <1>1 DEF IInv, TypeOK
  <1>4. PICK n \in RowIds : own = {n} /\ (n \in DOMAIN rows[d] => n \in same) /\
                            \A r \in same : r = n
    <2>1. CASE same = {}
      <3>1. PICK n \in FreshRow(d) : TRUE
        BY <1>2, <2>1
      <3>2. own = {n} /\ n \in RowIds /\ n \notin DOMAIN rows[d]
        BY <1>3, <2>1, <3>1, FreshRowIsNew
      <3>3. QED
        BY <2>1, <3>2
    <2>2. CASE same # {}
      <3>1. PICK n \in same : TRUE
        BY <2>2
      <3>2. \A r \in same : r = n
        BY <1>1, <3>1 DEF IInv, RowsDistinct
      <3>3. own = {n}
        BY <2>2, <3>1, <3>2
      <3>4. QED
        BY <1>3, <3>1, <3>2, <3>3
    <2>3. QED
      BY <2>1, <2>2
  <1>5. \A r \in DOMAIN rows[d] : r # n => rows[d][r].path # f
    BY <1>4
  <1>6. n \in DOMAIN rows[d] => rows[d][n].path = f
    BY <1>4
  <1> HIDE DEF same
  <1>7. /\ DOMAIN changed = DOMAIN rows[d] \cup {n}
        /\ changed[n] = [path |-> f, state |-> "current"]
        /\ \A r \in DOMAIN rows[d] : r # n =>
              changed[r] = IF r \in RowsOf(d, f[1])
                           THEN [rows[d][r] EXCEPT !.state = "stale"] ELSE rows[d][r]
    BY <1>4
  <1> HIDE DEF own, changed
  <1>8. \A r \in DOMAIN rows[d] : rows[d][r] \in [path : Paths, state : {"current", "stale"}]
    BY <1>1 DEF IInv, TypeOK
  <1>9. \A r \in DOMAIN rows[d] : r # n =>
          /\ changed[r] \in [path : Paths, state : {"current", "stale"}]
          /\ changed[r].path = rows[d][r].path
          /\ changed[r].state # rows[d][r].state =>
               changed[r].state = "stale" /\ rows[d][r].path[1] = f[1]
    BY <1>7, <1>8 DEF RowsOf
  <1>10. /\ DOMAIN rows' = Databases /\ rows'[d] = changed
         /\ \A e \in Databases : e # d => rows'[e] = rows[e]
    BY <1>1, <1>2 DEF IInv, Shape
  <1>11. QED
    BY <1>1, <1>5, <1>6, <1>7, <1>9, <1>10

\* Record keeps the invariant: nobody else is inside a locked operation.
LEMMA RecordKeeps ==
    ASSUME IInv, NEW p \in Procs, Record(p)
    PROVE  IInv'
  <1> DEFINE d == DbOf[p]
  <1>0. /\ pc[p] = "installed" /\ pc' = [pc EXCEPT ![p] = "recorded"]
        /\ UNCHANGED <<files, staging, damaged, holds, lock, job, attached, queryOnly,
                       before, opened, accidents>>
    BY DEF Record, RecordAs, fileVars, connVars
  <1>1. /\ job[p].path \in Paths /\ d \in Databases
        /\ DOMAIN rows' = Databases
        /\ \A e \in Databases : e # d => rows'[e] = rows[e]
    BY RecordFacts
  <1>2. PICK n \in RowIds :
          /\ DOMAIN rows'[d] = DOMAIN rows[d] \cup {n}
          /\ rows'[d][n] = [path |-> job[p].path, state |-> "current"]
          /\ \A r \in DOMAIN rows[d] : r # n =>
               /\ rows[d][r].path # job[p].path
               /\ rows'[d][r] \in [path : Paths, state : {"current", "stale"}]
               /\ rows'[d][r].path = rows[d][r].path
    BY RecordFacts
  <1>3. /\ pc' \in [Procs -> Locations] /\ pc'[p] = "recorded"
        /\ \A q \in Procs : q # p => pc'[q] = pc[q]
    BY <1>0 DEF IInv, TypeOK, Locations
  <1>4. pc[p] \in Locked /\ \A q \in Procs : q # p => pc[q] \notin Locked
    BY <1>0, Exclusive DEF IInv, Locked
  <1>5. rows'[d][n] \in [path : Paths, state : {"current", "stale"}]
    BY <1>1, <1>2
  <1>6. \A e \in Databases :
          /\ DOMAIN rows'[e] \subseteq RowIds
          /\ \A r \in DOMAIN rows'[e] :
               rows'[e][r] \in [path : Paths, state : {"current", "stale"}]
          /\ holds'[e] \subseteq (DOMAIN rows'[e]) \X Tokens
    <2> TAKE e \in Databases
    <2>1. CASE e = d
      BY <1>0, <1>1, <1>2, <1>5, <2>1 DEF IInv, TypeOK
    <2>2. CASE e # d
      BY <1>0, <1>1, <2>2 DEF IInv, TypeOK
    <2>3. QED
      BY <2>1, <2>2
  <1>7. TypeOK'
    BY <1>0, <1>3, <1>6 DEF IInv, TypeOK
  <1>8. Shape'
    BY <1>0, <1>1 DEF IInv, Shape
  <1>9. LockHeld'
    BY <1>0, <1>3, <1>4 DEF IInv, LockHeld
  <1>10. PublisherJob'
    BY <1>0, <1>1, <1>3 DEF IInv, PublisherJob
  <1>11. SweeperJob' /\ WalkerJob'
    BY <1>3, <1>4 DEF SweeperJob, WalkerJob, Locked
  <1>12. ModeKept' /\ QueryOnlyRestored'
    BY <1>0 DEF IInv, ModeKept, QueryOnlyRestored
  <1>13. RowsDistinct'
    <2> SUFFICES ASSUME NEW e \in Databases, NEW r \in DOMAIN rows'[e],
                        NEW s \in DOMAIN rows'[e],
                        rows'[e][r].path = rows'[e][s].path
                 PROVE  r = s
      BY DEF RowsDistinct
    <2>1. CASE e = d
      <3>1. rows'[d][n].path = job[p].path
        BY <1>2
      <3>2. \A x \in DOMAIN rows[d] : x # n =>
              rows'[d][x].path # job[p].path /\ rows'[d][x].path = rows[d][x].path
        BY <1>2
      <3>3. r = n \/ r \in DOMAIN rows[d]
        BY <1>2, <2>1
      <3>4. s = n \/ s \in DOMAIN rows[d]
        BY <1>2, <2>1
      <3>5. QED
        BY <1>1, <2>1, <3>1, <3>2, <3>3, <3>4 DEF IInv, RowsDistinct
    <2>2. CASE e # d
      BY <1>1, <2>2 DEF IInv, RowsDistinct
    <2>3. QED
      BY <2>1, <2>2
  <1>14. QED
    BY <1>7, <1>8, <1>9, <1>10, <1>11, <1>12, <1>13 DEF IInv

-----------------------------------------------------------------------------
(***************************************************************************)
(* Leases and pins.                                                        *)
(***************************************************************************)

\* A reader picks the current row it is going to lease.
LEMMA LeaseKeeps ==
    ASSUME IInv, NEW p \in Procs, NEW id \in Ids, Lease(p, id)
    PROVE  IInv'
  <1> DEFINE r == CHOOSE r \in Current(DbOf[p], id) : TRUE
             what == [Idle EXCEPT !.row = r]
  <1>1. r \in Current(DbOf[p], id)
    BY DEF Lease
  <1>2. r \in RowIds
    BY <1>1, StoreAssumption DEF Current, CurrentRows, IInv, TypeOK
  <1> HIDE DEF r
  <1>3. what \in Jobs
    BY <1>2 DEF Idle, Jobs
  <1>4. /\ pc' = [pc EXCEPT ![p] = "leasing"] /\ job' = [job EXCEPT ![p] = what]
        /\ staging' \subseteq Procs \cup {Left} /\ lock' = lock /\ pc[p] = "idle"
        /\ UNCHANGED <<files, damaged, rows, holds, attached, queryOnly, before,
                       opened, accidents>>
    BY DEF Lease, IInv, TypeOK, fileVars, dbVars, connVars, r
  <1> HIDE DEF what
  <1>5. "leasing" \in Locations /\ "leasing" \notin Locked
    BY DEF Locations, Locked
  <1>6. QED
    BY <1>3, <1>4, <1>5, ProcessStep

\* A step that changes which rows are held, and perhaps ends a lease.
LEMMA HoldsStep ==
    ASSUME IInv, NEW p \in Procs, NEW held,
           pc' = [pc EXCEPT ![p] = "idle"], job' = job \/ job' = [job EXCEPT ![p] = Idle],
           pc[p] \notin Locked,
           holds' = [holds EXCEPT ![DbOf[p]] = held],
           held \subseteq (DOMAIN rows[DbOf[p]]) \X Tokens,
           UNCHANGED <<files, staging, damaged, rows, lock, attached, queryOnly, before,
                       opened, accidents>>
    PROVE  IInv'
  <1>1. /\ pc' \in [Procs -> Locations] /\ pc'[p] = "idle"
        /\ \A q \in Procs : q # p => pc'[q] = pc[q] /\ job'[q] = job[q]
        /\ job' \in [Procs -> Jobs]
    BY IdleJob DEF IInv, TypeOK, Shape, Locations
  <1>2. DOMAIN holds' = Databases
    BY DEF IInv, Shape
  <1>3. \A d \in Databases : holds'[d] \subseteq (DOMAIN rows'[d]) \X Tokens
    BY DEF IInv, Shape, TypeOK
  <1>4. TypeOK'
    BY <1>1, <1>3 DEF IInv, TypeOK
  <1>5. Shape' /\ LockHeld' /\ RowsDistinct'
    BY <1>1, <1>2 DEF IInv, Shape, LockHeld, RowsDistinct, Locked
  <1>6. PublisherJob' /\ WalkerJob'
    BY <1>1 DEF IInv, PublisherJob, WalkerJob
  <1>7. SweeperJob'
    BY <1>1 DEF IInv, SweeperJob, CurrentRows
  <1>8. ModeKept' /\ QueryOnlyRestored'
    BY DEF IInv, ModeKept, QueryOnlyRestored
  <1>9. QED
    BY <1>4, <1>5, <1>6, <1>7, <1>8 DEF IInv

\* Leases and pins are taken and dropped.
LEMMA HolderKeeps ==
    ASSUME IInv, NEW p \in Procs, HolderStep(p)
    PROVE  IInv'
  <1>0. DbOf[p] \in Databases
    BY StoreAssumption
  <1>1. ASSUME NEW id \in Ids, Lease(p, id)
        PROVE  IInv'
    BY <1>1, LeaseKeeps
  <1>2. ASSUME NEW t \in Tokens, LeaseInsert(p, t)
        PROVE  IInv'
    <2> DEFINE held == IF job[p].row \in DOMAIN rows[DbOf[p]] /\ ~queryOnly[p]
                       THEN holds[DbOf[p]] \cup {<<job[p].row, t>>} ELSE holds[DbOf[p]]
    <2>1. held \subseteq (DOMAIN rows[DbOf[p]]) \X Tokens
      BY <1>0, <1>2 DEF IInv, TypeOK
    <2>2. holds' = [holds EXCEPT ![DbOf[p]] = held]
      BY <1>2 DEF LeaseInsert
    <2> HIDE DEF held
    <2>3. /\ pc' = [pc EXCEPT ![p] = "idle"] /\ job' = [job EXCEPT ![p] = Idle]
          /\ pc[p] \notin Locked
          /\ UNCHANGED <<files, staging, damaged, rows, lock, attached, queryOnly, before,
                         opened, accidents>>
      BY <1>2 DEF LeaseInsert, fileVars, connVars, Locked
    <2>4. QED
      BY <2>1, <2>2, <2>3, HoldsStep
  <1>3. ASSUME NEW id \in Ids, NEW t \in Tokens, Unlease(p, id, t)
        PROVE  IInv'
    <2> DEFINE held == {h \in holds[DbOf[p]] : ~(h[1] \in RowsOf(DbOf[p], id) /\ h[2] = t)}
    <2>1. held \subseteq (DOMAIN rows[DbOf[p]]) \X Tokens
      BY <1>0 DEF IInv, TypeOK
    <2>2. holds' = [holds EXCEPT ![DbOf[p]] = held]
      BY <1>3 DEF Unlease
    <2> HIDE DEF held
    <2>3. /\ pc' = [pc EXCEPT ![p] = "idle"] /\ job' = job
          /\ pc[p] \notin Locked
          /\ UNCHANGED <<files, staging, damaged, rows, lock, attached, queryOnly, before,
                         opened, accidents>>
      BY <1>3 DEF Unlease, fileVars, connVars, Locked, IInv, TypeOK
    <2>4. QED
      BY <2>1, <2>2, <2>3, HoldsStep
  <1>4. QED
    BY <1>1, <1>2, <1>3 DEF HolderStep

-----------------------------------------------------------------------------
(***************************************************************************)
(* Recovery.                                                               *)
(***************************************************************************)

\* The manifest refers to payload paths only.
LEMMA ReferencedPaths ==
    ASSUME IInv, NEW d \in Databases
    PROVE  Referenced(d) \subseteq Paths
  BY DEF Referenced, IInv, TypeOK

\* The recovering process moves on without touching a file or a row.
LEMMA RecoveryMoves ==
    ASSUME IInv, NEW p \in Procs,
           RecoverStart(p) \/ SweepOpen(p) \/ WalkStart(p) \/ ClearStaging(p)
    PROVE  IInv'
  <1>0. DbOf[p] \in Databases /\ job[p] \in Jobs
    BY StoreAssumption DEF IInv, Shape
  <1>1. CASE RecoverStart(p)
    <2> DEFINE what == [Idle EXCEPT !.paths = Referenced(DbOf[p])]
    <2>1. what \in Jobs /\ what.row = 0
      BY <1>0, ReferencedPaths DEF Idle, Jobs
    <2>2. /\ pc' = [pc EXCEPT ![p] = "sweep"] /\ job' = [job EXCEPT ![p] = what]
          /\ staging' \subseteq Procs \cup {Left} /\ lock' = p /\ lock = None
          /\ UNCHANGED <<files, damaged, rows, holds, attached, queryOnly, before,
                         opened, accidents>>
      BY <1>1 DEF RecoverStart, IInv, TypeOK, fileVars, dbVars, connVars
    <2> HIDE DEF what
    <2>3. "sweep" \in Locations
      BY DEF Locations
    <2>4. QED
      BY <2>1, <2>2, <2>3, ProcessStep
  <1>2. CASE SweepOpen(p)
    <2> DEFINE what == [job[p] EXCEPT !.todo = Expendable(DbOf[p]), !.row = 0]
    <2>0. lock = p /\ "erase" \in Locations
      BY <1>2 DEF SweepOpen, IInv, LockHeld, Locked, Locations
    <2>1. Expendable(DbOf[p]) \subseteq DOMAIN rows[DbOf[p]] \ CurrentRows(DbOf[p])
      BY DEF Expendable, CurrentRows
    <2>2. Expendable(DbOf[p]) \subseteq RowIds
      BY <1>0, <2>1 DEF IInv, TypeOK
    <2>3. what \in Jobs /\ what.todo = Expendable(DbOf[p]) /\ what.row = 0
      BY <1>0, <2>2 DEF Jobs
    <2>4. job[p].row = 0
      BY <1>2 DEF SweepOpen, IInv, SweeperJob
    <2>5. job' = [job EXCEPT ![p] = what]
      BY <1>2, <2>4 DEF SweepOpen, IInv, Shape, Jobs
    <2> HIDE DEF what
    <2>6. /\ pc' = [pc EXCEPT ![p] = "erase"]
          /\ staging' \subseteq Procs \cup {Left} /\ lock' = lock
          /\ UNCHANGED <<files, damaged, rows, holds, attached, queryOnly, before,
                         opened, accidents>>
      BY <1>2 DEF SweepOpen, IInv, TypeOK, fileVars, dbVars, connVars
    <2>7. QED
      BY <2>0, <2>1, <2>3, <2>5, <2>6, ProcessStep
  <1>3. CASE WalkStart(p)
    <2> DEFINE what == [job[p] EXCEPT !.todo = DOMAIN files \ job[p].paths]
    <2>0. lock = p /\ "walk" \in Locations
      BY <1>3 DEF WalkStart, IInv, LockHeld, Locked, Locations
    <2>1. DOMAIN files \ job[p].paths \subseteq Paths
      BY DEF IInv, TypeOK
    <2>2. what \in Jobs /\ DOMAIN files \subseteq what.paths \cup what.todo
      BY <1>0, <2>1 DEF Jobs
    <2>3. job' = [job EXCEPT ![p] = what]
      BY <1>3 DEF WalkStart
    <2> HIDE DEF what
    <2>4. /\ pc' = [pc EXCEPT ![p] = "walk"]
          /\ staging' \subseteq Procs \cup {Left} /\ lock' = lock
          /\ UNCHANGED <<files, damaged, rows, holds, attached, queryOnly, before,
                         opened, accidents>>
      BY <1>3 DEF WalkStart, IInv, TypeOK, fileVars, dbVars, connVars
    <2>5. QED
      BY <2>0, <2>2, <2>3, <2>4, ProcessStep
  <1>4. CASE ClearStaging(p)
    <2>1. lock = p /\ "idle" \in Locations /\ "idle" \notin Locked
      BY <1>4 DEF ClearStaging, IInv, LockHeld, Locked, Locations
    <2>2. /\ pc' = [pc EXCEPT ![p] = "idle"] /\ job' = [job EXCEPT ![p] = Idle]
          /\ staging' \subseteq Procs \cup {Left} /\ lock' = None
          /\ UNCHANGED <<files, damaged, rows, holds, attached, queryOnly, before,
                         opened, accidents>>
      BY <1>4 DEF ClearStaging, Finish, dbVars, connVars, IInv, TypeOK
    <2>3. QED
      BY <2>1, <2>2, IdleJob, ProcessStep
  <1>5. QED
    BY <1>1, <1>2, <1>3, <1>4

\* Removing a file from under the lock: only the process that removes it is
\* inside a locked operation, and only its own job may change.
LEMMA RemoveFile ==
    ASSUME IInv, NEW p \in Procs, NEW f, NEW what \in Jobs, pc[p] \in {"erase", "walk"},
           files' = Without(files, {f}), job' = [job EXCEPT ![p] = what], pc' = pc,
           UNCHANGED <<staging, damaged, rows, holds, lock, attached, queryOnly, before,
                       opened, accidents>>,
           pc[p] = "erase" =>
             /\ what.todo \subseteq DOMAIN rows[DbOf[p]] \ CurrentRows(DbOf[p])
             /\ what.row # 0 => what.row \in what.todo,
           pc[p] = "walk" => DOMAIN files \ {f} \subseteq what.paths \cup what.todo
    PROVE  IInv'
  <1>1. DOMAIN files' = DOMAIN files \ {f} /\ \A g \in DOMAIN files' : files'[g] = files[g]
    BY DEF Without, Restrict
  <1>2. /\ job' \in [Procs -> Jobs] /\ job'[p] = what
        /\ \A q \in Procs : q # p => job'[q] = job[q]
    BY DEF IInv, Shape
  <1>3. \A q \in Procs : q # p => pc[q] \notin Locked
    BY Exclusive DEF IInv, Locked
  <1>4. TypeOK'
    BY <1>1 DEF IInv, TypeOK
  <1>5. Shape' /\ LockHeld' /\ RowsDistinct'
    BY <1>2 DEF IInv, Shape, LockHeld, RowsDistinct
  <1>6. PublisherJob'
    BY <1>2 DEF IInv, PublisherJob
  <1>7. SweeperJob'
    BY <1>2, <1>3 DEF SweeperJob, CurrentRows, Locked
  <1>8. WalkerJob'
    BY <1>1, <1>2, <1>3 DEF WalkerJob, Locked
  <1>9. ModeKept' /\ QueryOnlyRestored'
    BY DEF IInv, ModeKept, QueryOnlyRestored
  <1>10. QED
    BY <1>4, <1>5, <1>6, <1>7, <1>8, <1>9 DEF IInv

\* The sweep unlinks the file of a retired row.
LEMMA SweepFileKeeps ==
    ASSUME IInv, NEW p \in Procs, NEW r \in RowIds, SweepFile(p, r)
    PROVE  IInv'
  <1>0. /\ pc[p] = "erase" /\ pc' = pc /\ job[p].row = 0 /\ r \in job[p].todo
        /\ UNCHANGED <<staging, damaged, rows, holds, lock, attached, queryOnly, before,
                       opened, accidents>>
    BY DEF SweepFile, dbVars, connVars
  <1>1. /\ job[p] \in Jobs
        /\ job[p].todo \subseteq DOMAIN rows[DbOf[p]] \ CurrentRows(DbOf[p])
    BY <1>0 DEF IInv, Shape, SweeperJob
  <1>2. CASE /\ files' = Without(files, {rows[DbOf[p]][r].path})
             /\ job' = [job EXCEPT ![p].row = r]
    <2> DEFINE what == [job[p] EXCEPT !.row = r]
    <2>1. what \in Jobs /\ what.todo = job[p].todo /\ what.row = r
      BY <1>1 DEF Jobs
    <2>2. job' = [job EXCEPT ![p] = what]
      BY <1>2
    <2> HIDE DEF what
    <2>3. QED
      BY <1>0, <1>1, <1>2, <2>1, <2>2, RemoveFile
  <1>3. CASE job' = [job EXCEPT ![p].todo = @ \ {r}] /\ UNCHANGED files
    <2> DEFINE what == [job[p] EXCEPT !.todo = job[p].todo \ {r}]
    <2>1. what \in Jobs /\ what.todo = job[p].todo \ {r} /\ what.row = 0
      BY <1>0, <1>1 DEF Jobs
    <2>2. job' = [job EXCEPT ![p] = what]
      BY <1>3
    <2> HIDE DEF what
    <2>3. pc' = [pc EXCEPT ![p] = "erase"] /\ lock = p /\ "erase" \in Locations
      BY <1>0 DEF IInv, TypeOK, LockHeld, Locked, Locations
    <2>4. staging' \subseteq Procs \cup {Left}
      BY <1>0 DEF IInv, TypeOK
    <2>5. QED
      BY <1>0, <1>1, <1>3, <2>1, <2>2, <2>3, <2>4, ProcessStep
  <1>4. QED
    BY <1>2, <1>3 DEF SweepFile

\* What deleting a manifest row does: the row was not current, and its leases
\* and pins go with it.
LEMMA SweepRowFacts ==
    ASSUME IInv, NEW p \in Procs, SweepRow(p), ~queryOnly[p]
    PROVE  /\ pc[p] = "erase" /\ DbOf[p] \in Databases
           /\ job[p].row \in DOMAIN rows[DbOf[p]] \ CurrentRows(DbOf[p])
           /\ DOMAIN rows' = Databases /\ DOMAIN holds' = Databases
           /\ DOMAIN rows'[DbOf[p]] = DOMAIN rows[DbOf[p]] \ {job[p].row}
           /\ \A r \in DOMAIN rows'[DbOf[p]] : rows'[DbOf[p]][r] = rows[DbOf[p]][r]
           /\ holds'[DbOf[p]] = {h \in holds[DbOf[p]] : h[1] # job[p].row}
           /\ \A e \in Databases : e # DbOf[p] => rows'[e] = rows[e] /\ holds'[e] = holds[e]
           /\ job' = [job EXCEPT ![p].row = 0, ![p].todo = @ \ {job[p].row}]
           /\ UNCHANGED <<files, staging, damaged, lock, pc, attached, queryOnly, before,
                          opened, accidents>>
  <1> DEFINE d == DbOf[p]
             n == job[p].row
             kept == [r \in DOMAIN rows[d] \ {n} |-> rows[d][r]]
             held == {h \in holds[d] : h[1] # n}
  <1>1. d \in Databases /\ pc[p] = "erase" /\ n # 0
    BY StoreAssumption DEF SweepRow
  <1>2. n \in DOMAIN rows[d] \ CurrentRows(d)
    BY <1>1 DEF IInv, SweeperJob
  <1>3. /\ rows' = [rows EXCEPT ![d] = kept]
        /\ holds' = [holds EXCEPT ![d] = held]
        /\ job' = [job EXCEPT ![p].row = 0, ![p].todo = @ \ {job[p].row}]
        /\ UNCHANGED <<files, staging, damaged, lock, pc, attached, queryOnly, before,
                       opened, accidents>>
    BY DEF SweepRow, Without, Restrict, connVars
  <1>4. DOMAIN kept = DOMAIN rows[d] \ {n} /\ \A r \in DOMAIN kept : kept[r] = rows[d][r]
    OBVIOUS
  <1> HIDE DEF kept, held
  <1>5. /\ DOMAIN rows' = Databases /\ rows'[d] = kept
        /\ DOMAIN holds' = Databases /\ holds'[d] = held
        /\ \A e \in Databases : e # d => rows'[e] = rows[e] /\ holds'[e] = holds[e]
    BY <1>1, <1>3 DEF IInv, Shape
  <1>6. QED
    BY <1>1, <1>2, <1>3, <1>4, <1>5 DEF held

\* The sweep deletes the row whose file it has unlinked.
LEMMA SweepRowKeeps ==
    ASSUME IInv, NEW p \in Procs, SweepRow(p)
    PROVE  IInv'
  <1>1. CASE queryOnly[p]
    <2>1. /\ pc[p] \in Locked /\ Abort(p)
          /\ UNCHANGED <<files, damaged, rows, holds, attached, queryOnly, before,
                         opened, accidents>>
      BY <1>1 DEF SweepRow, Locked, dbVars, connVars
    <2>2. QED
      BY <2>1, AbortKeeps
  <1>2. CASE ~queryOnly[p]
    <2> DEFINE d == DbOf[p]
               n == job[p].row
               what == [job[p] EXCEPT !.row = 0, !.todo = job[p].todo \ {n}]
    <2>1. /\ pc[p] = "erase" /\ d \in Databases
          /\ n \in DOMAIN rows[d] \ CurrentRows(d)
          /\ DOMAIN rows' = Databases /\ DOMAIN holds' = Databases
          /\ DOMAIN rows'[d] = DOMAIN rows[d] \ {n}
          /\ \A r \in DOMAIN rows'[d] : rows'[d][r] = rows[d][r]
          /\ holds'[d] = {h \in holds[d] : h[1] # n}
          /\ \A e \in Databases : e # d => rows'[e] = rows[e] /\ holds'[e] = holds[e]
          /\ UNCHANGED <<files, staging, damaged, lock, pc, attached, queryOnly, before,
                         opened, accidents>>
      BY <1>2, SweepRowFacts
    <2>2. job[p] \in Jobs
      BY DEF IInv, Shape
    <2>3. what \in Jobs /\ what.todo = job[p].todo \ {n} /\ what.row = 0
      BY <2>2 DEF Jobs
    <2>4. job' = [job EXCEPT ![p] = what]
      BY <1>2, SweepRowFacts DEF IInv, Shape, Jobs
    <2> HIDE DEF what
    <2>5. /\ job' \in [Procs -> Jobs] /\ job'[p] = what
          /\ \A q \in Procs : q # p => job'[q] = job[q]
      BY <2>3, <2>4 DEF IInv, Shape
    <2>6. \A q \in Procs : q # p => pc[q] \notin Locked
      BY <2>1, Exclusive DEF IInv, Locked
    <2>7. \A e \in Databases :
            /\ DOMAIN rows'[e] \subseteq RowIds
            /\ \A r \in DOMAIN rows'[e] :
                 rows'[e][r] \in [path : Paths, state : {"current", "stale"}]
            /\ holds'[e] \subseteq (DOMAIN rows'[e]) \X Tokens
      <3> TAKE e \in Databases
      <3>1. CASE e = d
        <4>1. holds[d] \subseteq (DOMAIN rows[d]) \X Tokens
          BY <2>1 DEF IInv, TypeOK
        <4>2. holds'[d] \subseteq (DOMAIN rows'[d]) \X Tokens
          BY <2>1, <4>1
        <4>3. QED
          BY <2>1, <3>1, <4>2 DEF IInv, TypeOK
      <3>2. CASE e # d
        BY <2>1, <3>2 DEF IInv, TypeOK
      <3>3. QED
        BY <3>1, <3>2
    <2>8. TypeOK'
      BY <2>1, <2>7 DEF IInv, TypeOK
    <2>9. Shape' /\ LockHeld'
      BY <2>1, <2>5 DEF IInv, Shape, LockHeld
    <2>10. RowsDistinct'
      <3> SUFFICES ASSUME NEW e \in Databases, NEW r \in DOMAIN rows'[e],
                          NEW s \in DOMAIN rows'[e],
                          rows'[e][r].path = rows'[e][s].path
                   PROVE  r = s
        BY DEF RowsDistinct
      <3>1. /\ r \in DOMAIN rows[e] /\ s \in DOMAIN rows[e]
            /\ rows'[e][r] = rows[e][r] /\ rows'[e][s] = rows[e][s]
        BY <2>1
      <3>2. QED
        BY <3>1 DEF IInv, RowsDistinct
    <2>11. PublisherJob'
      BY <2>1, <2>5 DEF IInv, PublisherJob
    <2>12. SweeperJob'
      <3>1. job[p].todo \subseteq DOMAIN rows[d] \ CurrentRows(d)
        BY <2>1 DEF IInv, SweeperJob
      <3>2. what.todo \subseteq DOMAIN rows'[d] \ CurrentRows(d)'
        BY <2>1, <2>3, <3>1 DEF CurrentRows
      <3>3. QED
        BY <2>1, <2>3, <2>5, <2>6, <3>2 DEF SweeperJob, Locked
    <2>13. WalkerJob'
      BY <2>1, <2>6 DEF WalkerJob, Locked
    <2>14. ModeKept' /\ QueryOnlyRestored'
      BY <2>1 DEF IInv, ModeKept, QueryOnlyRestored
    <2>15. QED
      BY <2>8, <2>9, <2>10, <2>11, <2>12, <2>13, <2>14 DEF IInv
  <1>3. QED
    BY <1>1, <1>2

\* The walk keeps a referenced file and unlinks an orphan.
LEMMA WalkFileKeeps ==
    ASSUME IInv, NEW p \in Procs, WalkFile(p)
    PROVE  IInv'
  <1>0. /\ pc[p] = "walk" /\ job[p] \in Jobs
        /\ UNCHANGED <<staging, damaged, rows, holds, lock, attached, queryOnly, before,
                       opened, accidents>>
    BY DEF WalkFile, IInv, Shape, dbVars, connVars
  <1>1. /\ DOMAIN files \subseteq job[p].paths \cup job[p].todo
        /\ lock = p /\ staging' \subseteq Procs \cup {Left}
    BY <1>0 DEF IInv, TypeOK, WalkerJob, LockHeld, Locked
  <1>2. ASSUME NEW f \in job[p].todo, files' = Without(files, {f}),
               job' = [job EXCEPT ![p].todo = @ \ {f}], UNCHANGED pc
        PROVE  IInv'
    <2> DEFINE what == [job[p] EXCEPT !.todo = job[p].todo \ {f}]
    <2>1. /\ what \in Jobs /\ what.todo = job[p].todo \ {f} /\ what.paths = job[p].paths
      BY <1>0 DEF Jobs
    <2>2. job' = [job EXCEPT ![p] = what]
      BY <1>2
    <2> HIDE DEF what
    <2>3. QED
      BY <1>0, <1>1, <1>2, <2>1, <2>2, RemoveFile
  <1>3. ASSUME NEW f \in job[p].todo \cap DOMAIN files, UNCHANGED <<files, pc>>,
               job' = [job EXCEPT ![p].todo = @ \ {f}, ![p].paths = @ \cup {f}]
        PROVE  IInv'
    <2> DEFINE what == [job[p] EXCEPT !.todo = job[p].todo \ {f},
                                      !.paths = job[p].paths \cup {f}]
    <2>1. f \in Paths
      BY <1>3 DEF IInv, TypeOK
    <2>2. /\ what \in Jobs /\ what.todo = job[p].todo \ {f}
          /\ what.paths = job[p].paths \cup {f}
      BY <1>0, <2>1 DEF Jobs
    <2>3. job' = [job EXCEPT ![p] = what]
      BY <1>0, <1>3 DEF IInv, Shape, Jobs
    <2> HIDE DEF what
    <2>4. pc' = [pc EXCEPT ![p] = "walk"] /\ "walk" \in Locations
      BY <1>0, <1>3 DEF IInv, TypeOK, Locations
    <2>5. QED
      BY <1>0, <1>1, <1>3, <2>2, <2>3, <2>4, ProcessStep
  <1>4. CASE /\ job[p].todo = {}
             /\ pc' = [pc EXCEPT ![p] = "clear"]
             /\ UNCHANGED <<files, job>>
    <2>1. job' = [job EXCEPT ![p] = job[p]] /\ "clear" \in Locations
      BY <1>4 DEF IInv, Shape, Locations
    <2>2. QED
      BY <1>0, <1>1, <1>4, <2>1, ProcessStep
  <1>5. QED
    BY <1>2, <1>3, <1>4 DEF WalkFile

-----------------------------------------------------------------------------
(***************************************************************************)
(* Attachments, kills and damage.                                          *)
(***************************************************************************)

\* Attaching and detaching switch query_only and restore it.
LEMMA ReaderKeeps ==
    ASSUME IInv, NEW p \in Procs, ReaderStep(p)
    PROVE  IInv'
  <1>0. DbOf[p] \in Databases
    BY StoreAssumption
  <1>1. ASSUME NEW id \in Ids, Attach(p, id)
        PROVE  IInv'
    <2> DEFINE r == CHOOSE r \in Current(DbOf[p], id) : TRUE
               what == [Idle EXCEPT !.path = rows[DbOf[p]][r].path]
    <2>1. r \in Current(DbOf[p], id)
      BY <1>1 DEF Attach, Usable
    <2>2. rows[DbOf[p]][r].path \in Paths
      BY <1>0, <2>1 DEF Current, CurrentRows, IInv, TypeOK
    <2> HIDE DEF r
    <2>3. what \in Jobs /\ what.path \in Paths
      BY <2>2 DEF Idle, Jobs
    <2>4. /\ pc' = [pc EXCEPT ![p] = "attaching"] /\ job' = [job EXCEPT ![p] = what]
          /\ staging' \subseteq Procs \cup {Left} /\ lock' = lock /\ pc[p] = "idle"
          /\ UNCHANGED <<files, damaged, rows, holds, attached, queryOnly, before,
                         opened, accidents>>
      BY <1>1 DEF Attach, IInv, TypeOK, fileVars, dbVars, connVars, r
    <2> HIDE DEF what
    <2>5. "attaching" \in Locations /\ "attaching" \notin Locked
      BY DEF Locations, Locked
    <2>6. QED
      BY <2>3, <2>4, <2>5, ProcessStep
  <1>2. CASE AttachOpen(p) /\ job[p].path \notin DOMAIN files
    <2>1. /\ pc' = [pc EXCEPT ![p] = "idle"] /\ job' = [job EXCEPT ![p] = Idle]
          /\ staging' \subseteq Procs \cup {Left} /\ lock' = lock
          /\ UNCHANGED <<files, damaged, rows, holds, attached, queryOnly, before,
                         opened, accidents>>
      BY <1>2 DEF AttachOpen, IInv, TypeOK, fileVars, dbVars, connVars
    <2>2. "idle" \in Locations /\ "idle" \notin Locked
      BY DEF Locations, Locked
    <2>3. QED
      BY <2>1, <2>2, IdleJob, ProcessStep
  <1>3. ASSUME pc' = [pc EXCEPT ![p] = "idle"],
               job' = job \/ job' = [job EXCEPT ![p] = Idle],
               UNCHANGED <<files, staging, damaged, rows, holds, lock, opened, accidents>>,
               attached' \in [Procs -> SUBSET Ids],
               queryOnly' \in [Procs -> BOOLEAN], before' \in [Procs -> BOOLEAN],
               ModeKept', QueryOnlyRestored'
        PROVE  IInv'
    <2>1. /\ pc' \in [Procs -> Locations] /\ pc'[p] = "idle"
          /\ \A q \in Procs : q # p => pc'[q] = pc[q] /\ job'[q] = job[q]
          /\ job' \in [Procs -> Jobs]
      BY <1>3, IdleJob DEF IInv, TypeOK, Shape, Locations
    <2>2. TypeOK'
      BY <1>3, <2>1 DEF IInv, TypeOK
    <2>3. Shape' /\ LockHeld' /\ RowsDistinct'
      BY <1>3, <2>1 DEF IInv, Shape, LockHeld, RowsDistinct, Locked
    <2>4. PublisherJob' /\ WalkerJob'
      BY <1>3, <2>1 DEF IInv, PublisherJob, WalkerJob
    <2>5. SweeperJob'
      BY <1>3, <2>1 DEF IInv, SweeperJob, CurrentRows
    <2>6. QED
      BY <1>3, <2>2, <2>3, <2>4, <2>5 DEF IInv
  <1>4. CASE AttachOpen(p) /\ job[p].path \in DOMAIN files
    <2>1. /\ pc' = [pc EXCEPT ![p] = "idle"] /\ job' = [job EXCEPT ![p] = Idle]
          /\ UNCHANGED <<files, staging, damaged, rows, holds, lock, opened, accidents>>
          /\ attached' = [attached EXCEPT ![p] = @ \cup {job[p].path[1]}]
          /\ before' = [before EXCEPT ![p] = IF attached[p] = {} THEN queryOnly[p] ELSE @]
          /\ queryOnly' = [queryOnly EXCEPT ![p] = TRUE]
      BY <1>4 DEF AttachOpen, fileVars, dbVars
    <2>2. job[p].path \in Paths
      BY <1>4 DEF AttachOpen, IInv, PublisherJob
    <2>3. job[p].path[1] \in Ids
      BY <2>2 DEF Paths
    <2>4. /\ attached' \in [Procs -> SUBSET Ids]
          /\ queryOnly' \in [Procs -> BOOLEAN] /\ before' \in [Procs -> BOOLEAN]
      BY <2>1, <2>3 DEF IInv, TypeOK
    <2>5. /\ attached'[p] # {}
          /\ before'[p] = IF attached[p] = {} THEN queryOnly[p] ELSE before[p]
          /\ \A q \in Procs : q # p => /\ attached'[q] = attached[q]
                                       /\ before'[q] = before[q]
                                       /\ queryOnly'[q] = queryOnly[q]
      BY <2>1 DEF IInv, TypeOK
    <2>6. ModeKept' /\ QueryOnlyRestored'
      BY <2>1, <2>5 DEF IInv, ModeKept, QueryOnlyRestored
    <2>7. QED
      BY <1>3, <2>1, <2>4, <2>6
  <1>5. ASSUME NEW id \in Ids, Detach(p, id)
        PROVE  IInv'
    <2>1. /\ pc' = [pc EXCEPT ![p] = "idle"] /\ job' = job
          /\ UNCHANGED <<files, staging, damaged, rows, holds, lock, before, opened,
                         accidents>>
          /\ attached' = [attached EXCEPT ![p] = @ \ {id}]
          /\ queryOnly' = [queryOnly EXCEPT
                             ![p] = IF attached[p] = {id} THEN before[p] ELSE @]
          /\ id \in attached[p]
      BY <1>5 DEF Detach, fileVars, dbVars, IInv, TypeOK
    <2>2. /\ attached' \in [Procs -> SUBSET Ids]
          /\ queryOnly' \in [Procs -> BOOLEAN] /\ before' \in [Procs -> BOOLEAN]
      BY <2>1 DEF IInv, TypeOK
    <2>3. /\ attached'[p] = attached[p] \ {id}
          /\ queryOnly'[p] = IF attached[p] = {id} THEN before[p] ELSE queryOnly[p]
          /\ \A q \in Procs : q # p => /\ attached'[q] = attached[q]
                                       /\ queryOnly'[q] = queryOnly[q]
      BY <2>1 DEF IInv, TypeOK
    <2>4. before[p] = opened[p]
      BY <2>1 DEF IInv, ModeKept
    <2>5. ModeKept' /\ QueryOnlyRestored'
      BY <2>1, <2>3, <2>4 DEF IInv, ModeKept, QueryOnlyRestored
    <2>6. QED
      BY <1>3, <2>1, <2>2, <2>5
  <1>6. QED
    BY <1>1, <1>2, <1>4, <1>5 DEF ReaderStep

\* A process that is killed loses its locals, its lock and its connection.
LEMMA CrashKeeps ==
    ASSUME IInv, NEW p \in Procs, Crash(p)
    PROVE  IInv'
  <1>1. /\ pc' \in [Procs -> Locations] /\ pc'[p] = "idle"
        /\ \A q \in Procs : q # p => pc'[q] = pc[q] /\ job'[q] = job[q]
        /\ job' \in [Procs -> Jobs]
    BY IdleJob DEF Crash, IInv, TypeOK, Shape, Locations
  <1>2. /\ attached' \in [Procs -> SUBSET Ids] /\ attached'[p] = {}
        /\ queryOnly' \in [Procs -> BOOLEAN] /\ queryOnly'[p] = opened[p]
        /\ before' \in [Procs -> BOOLEAN]
        /\ \A q \in Procs : q # p => /\ attached'[q] = attached[q]
                                     /\ before'[q] = before[q]
                                     /\ queryOnly'[q] = queryOnly[q]
    BY DEF Crash, IInv, TypeOK, Shape
  <1>3. accidents' \in 0..MaxAccidents
    BY StoreAssumption DEF Crash, IInv, TypeOK
  <1>4. /\ UNCHANGED <<files, damaged, rows, holds, opened>>
        /\ staging' \subseteq Procs \cup {Left}
    BY DEF Crash, Orphaned, dbVars, IInv, TypeOK
  <1>5. lock' \in Procs \cup {None} /\ \A q \in Procs : q # p /\ lock = q => lock' = q
    BY DEF Crash, IInv, TypeOK
  <1>6. TypeOK'
    BY <1>1, <1>2, <1>3, <1>4, <1>5 DEF IInv, TypeOK
  <1>7. Shape' /\ LockHeld' /\ RowsDistinct'
    BY <1>1, <1>4, <1>5 DEF IInv, Shape, LockHeld, RowsDistinct, Locked
  <1>8. PublisherJob' /\ WalkerJob'
    BY <1>1, <1>4 DEF IInv, PublisherJob, WalkerJob
  <1>9. SweeperJob'
    BY <1>1, <1>4 DEF IInv, SweeperJob, CurrentRows
  <1>10. ModeKept' /\ QueryOnlyRestored'
    BY <1>2, <1>4 DEF IInv, ModeKept, QueryOnlyRestored
  <1>11. QED
    BY <1>6, <1>7, <1>8, <1>9, <1>10 DEF IInv

\* A payload on disk is damaged or lost.
LEMMA DamageKeeps ==
    ASSUME IInv, NEW f \in DOMAIN files, Damage(f)
    PROVE  IInv'
  <1>1. /\ DOMAIN files' \subseteq DOMAIN files
        /\ \A g \in DOMAIN files' : files'[g] \in {"good", "bad"}
    <2>1. CASE files' = Without(files, {f})
      BY <2>1 DEF Without, Restrict, IInv, TypeOK
    <2>2. CASE files' = [files EXCEPT ![f] = "bad"]
      BY <2>2 DEF IInv, TypeOK
    <2>3. QED
      BY <2>1, <2>2 DEF Damage
  <1>2. UNCHANGED <<staging, rows, holds, lock, pc, job, attached, queryOnly, before, opened>>
    BY DEF Damage, dbVars, connVars
  <1>3. accidents' \in 0..MaxAccidents /\ damaged' \subseteq Paths
    BY StoreAssumption DEF Damage, IInv, TypeOK
  <1>4. TypeOK'
    BY <1>1, <1>2, <1>3 DEF IInv, TypeOK
  <1>5. Shape' /\ LockHeld' /\ RowsDistinct' /\ PublisherJob'
    BY <1>2 DEF IInv, Shape, LockHeld, RowsDistinct, PublisherJob
  <1>6. SweeperJob' /\ WalkerJob'
    BY <1>1, <1>2 DEF IInv, SweeperJob, WalkerJob, CurrentRows
  <1>7. ModeKept' /\ QueryOnlyRestored'
    BY <1>2 DEF IInv, ModeKept, QueryOnlyRestored
  <1>8. QED
    BY <1>4, <1>5, <1>6, <1>7 DEF IInv

-----------------------------------------------------------------------------
\* Initially the store is empty and every process idle.
LEMMA InitInvariant == Init => IInv
  <1> SUFFICES ASSUME Init PROVE IInv
    OBVIOUS
  <1>1. /\ DOMAIN files = {} /\ staging = {} /\ damaged = {} /\ lock = None
        /\ accidents \in 0..MaxAccidents
    BY StoreAssumption DEF Init
  <1>2. /\ DOMAIN rows = Databases /\ DOMAIN holds = Databases
        /\ \A d \in Databases : DOMAIN rows[d] = {} /\ holds[d] = {}
    BY DEF Init
  <1>3. pc \in [Procs -> {"idle"}] /\ job \in [Procs -> Jobs]
    BY IdleJob DEF Init
  <1>4. /\ attached \in [Procs -> SUBSET Ids] /\ opened \in [Procs -> BOOLEAN]
        /\ queryOnly = opened /\ before = opened
        /\ \A p \in Procs : attached[p] = {}
    BY DEF Init
  <1>5. TypeOK
    BY <1>1, <1>2, <1>3, <1>4 DEF TypeOK, Locations
  <1>6. Shape /\ LockHeld /\ RowsDistinct
    BY <1>2, <1>3, <1>4 DEF Shape, LockHeld, RowsDistinct, Locked
  <1>7. PublisherJob /\ SweeperJob /\ WalkerJob
    BY <1>3 DEF PublisherJob, SweeperJob, WalkerJob
  <1>8. ModeKept /\ QueryOnlyRestored
    BY <1>4 DEF ModeKept, QueryOnlyRestored
  <1>9. QED
    BY <1>5, <1>6, <1>7, <1>8 DEF IInv

\* Every step keeps IInv.
LEMMA StepInvariant == IInv /\ [Next]_vars => IInv'
  <1> SUFFICES ASSUME IInv, [Next]_vars PROVE IInv'
    OBVIOUS
  <1>1. ASSUME NEW p \in Procs, PublisherStep(p) PROVE IInv'
    BY <1>1, PublishKeeps, FailuresKeep, InstallKeeps, RecordKeeps DEF PublisherStep
  <1>2. ASSUME NEW p \in Procs, RecoveryStep(p) PROVE IInv'
    BY <1>2, RecoveryMoves, SweepFileKeeps, SweepRowKeeps, WalkFileKeeps DEF RecoveryStep
  <1>3. CASE UNCHANGED vars
    <2>1. TypeOK'
      BY <1>3 DEF vars, IInv, TypeOK
    <2>2. Shape' /\ LockHeld' /\ RowsDistinct' /\ PublisherJob'
      BY <1>3 DEF vars, IInv, Shape, LockHeld, RowsDistinct, PublisherJob
    <2>3. SweeperJob' /\ WalkerJob' /\ ModeKept' /\ QueryOnlyRestored'
      BY <1>3 DEF vars, IInv, SweeperJob, WalkerJob, CurrentRows, ModeKept,
                  QueryOnlyRestored
    <2>4. QED
      BY <2>1, <2>2, <2>3 DEF IInv
  <1>4. QED
    BY <1>1, <1>2, <1>3, HolderKeeps, ReaderKeeps, CrashKeeps, DamageKeeps DEF Next

\* Hence the invariant always holds.
LEMMA Invariance == Spec => []IInv
  BY InitInvariant, StepInvariant, PTL DEF Spec

\* The store's state is well typed: in particular no lease or pin ever names a
\* row that the manifest no longer has.
THEOREM TypeCorrect == Spec => []TypeOK
  BY Invariance, PTL DEF IInv

\* However attachments nest and in whatever order they are released, a
\* connection without one has the query_only mode it was opened with.
THEOREM ModeRestored == Spec => []QueryOnlyRestored
  BY Invariance, PTL DEF IInv

-----------------------------------------------------------------------------
(***************************************************************************)
(* Action properties.                                                      *)
(***************************************************************************)

\* Only two steps change the manifest.
LEMMA ManifestSteps ==
    ASSUME Next
    PROVE  \/ UNCHANGED rows
           \/ \E p \in Procs : Record(p) \/ (SweepRow(p) /\ ~queryOnly[p])
  <1>1. ASSUME NEW p \in Procs, PublisherStep(p), ~Record(p) PROVE UNCHANGED rows
    BY <1>1 DEF PublisherStep, Publish, WriterFails, Install, RecordFails, PublishDone, dbVars
  <1>2. ASSUME NEW p \in Procs, HolderStep(p) PROVE UNCHANGED rows
    BY <1>2 DEF HolderStep, Lease, LeaseInsert, Unlease, dbVars
  <1>3. ASSUME NEW p \in Procs, RecoveryStep(p), ~(SweepRow(p) /\ ~queryOnly[p])
        PROVE  UNCHANGED rows
    BY <1>3 DEF RecoveryStep, RecoverStart, SweepOpen, SweepRow, SweepFile, WalkStart,
                WalkFile, ClearStaging, dbVars
  <1>4. ASSUME NEW p \in Procs, ReaderStep(p) PROVE UNCHANGED rows
    BY <1>4 DEF ReaderStep, Attach, Detach, AttachOpen, dbVars
  <1>5. ASSUME NEW p \in Procs, Crash(p) PROVE UNCHANGED rows
    BY <1>5 DEF Crash, dbVars
  <1>6. ASSUME NEW f \in DOMAIN files, Damage(f) PROVE UNCHANGED rows
    BY <1>6 DEF Damage, dbVars
  <1>7. QED
    BY <1>1, <1>2, <1>3, <1>4, <1>5, <1>6 DEF Next

\* No step takes the last current row of an artifact away.
LEMMA CurrentKept ==
    ASSUME IInv, [Next]_vars, NEW d \in Databases, NEW id \in Ids, Current(d, id) # {}
    PROVE  Current(d, id)' # {}
  <1>1. CASE UNCHANGED rows
    BY <1>1 DEF Current, RowsOf, CurrentRows
  <1>2. ASSUME NEW p \in Procs, Record(p)
        PROVE  Current(d, id)' # {}
    <2>1. CASE d # DbOf[p]
      <3>1. rows'[d] = rows[d]
        BY <1>2, <2>1, RecordFacts
      <3>2. QED
        BY <3>1 DEF Current, RowsOf, CurrentRows
    <2>2. CASE d = DbOf[p]
      <3> DEFINE f == job[p].path
      <3>1. PICK n \in RowIds :
              /\ DOMAIN rows'[d] = DOMAIN rows[d] \cup {n}
              /\ rows'[d][n] = [path |-> f, state |-> "current"]
              /\ n \in DOMAIN rows[d] => rows[d][n].path = f
              /\ \A r \in DOMAIN rows[d] : r # n =>
                   /\ rows'[d][r].path = rows[d][r].path
                   /\ rows'[d][r].state # rows[d][r].state =>
                        rows'[d][r].state = "stale" /\ rows[d][r].path[1] = f[1]
        BY <1>2, <2>2, RecordFacts
      <3>2. CASE f[1] = id
        <4>1. n \in Current(d, id)'
          BY <3>1, <3>2 DEF Current, RowsOf, CurrentRows
        <4>2. QED
          BY <4>1
      <3>3. CASE f[1] # id
        <4>1. PICK r \in DOMAIN rows[d] :
                rows[d][r].path[1] = id /\ rows[d][r].state = "current"
          BY DEF Current, RowsOf, CurrentRows
        <4>2. r # n
          BY <3>1, <3>3, <4>1
        <4>3. r \in Current(d, id)'
          BY <3>1, <3>3, <4>1, <4>2 DEF Current, RowsOf, CurrentRows
        <4>4. QED
          BY <4>3
      <3>4. QED
        BY <3>2, <3>3
    <2>3. QED
      BY <2>1, <2>2
  <1>3. ASSUME NEW p \in Procs, SweepRow(p), ~queryOnly[p]
        PROVE  Current(d, id)' # {}
    <2>1. PICK r \in DOMAIN rows[d] :
            rows[d][r].path[1] = id /\ rows[d][r].state = "current"
      BY DEF Current, RowsOf, CurrentRows
    <2>2. r \in DOMAIN rows'[d] /\ rows'[d][r] = rows[d][r]
      BY <1>3, <2>1, SweepRowFacts DEF CurrentRows
    <2>3. r \in Current(d, id)'
      BY <2>1, <2>2 DEF Current, RowsOf, CurrentRows
    <2>4. QED
      BY <2>3
  <1>4. CASE UNCHANGED vars
    BY <1>1, <1>4 DEF vars
  <1>5. QED
    BY <1>1, <1>2, <1>3, <1>4, ManifestSteps

\* An artifact that was published once has a current generation ever after:
\* through failing publications, recoveries and kills.
THEOREM CurrentStays == Spec => CurrentNeverVanishes
  <1>1. IInv /\ [Next]_vars =>
          [\A d \in Databases, id \in Ids : Current(d, id) # {} => Current(d, id)' # {}]_vars
    BY CurrentKept
  <1>2. QED
    BY <1>1, Invariance, PTL DEF Spec, CurrentNeverVanishes

\* Once a recovery has ended, every remaining file is one that a row named when
\* it began or that could not be removed, and no publication under way has lost
\* its staged file: there is none, because the recovery holds the lock.
THEOREM Collected == Spec => RecoveryCollects
  <1>1. ASSUME IInv, [Next]_vars, NEW p \in Procs,
               pc[p] = "clear", pc'[p] = "idle", accidents' = accidents
        PROVE  /\ DOMAIN files \subseteq job[p].paths
               /\ \A q \in Procs : pc[q] = "staged" => q \in staging'
    <2>1. DOMAIN files \subseteq job[p].paths
      BY <1>1 DEF IInv, WalkerJob
    <2>2. \A q \in Procs : pc[q] # "staged"
      BY <1>1, Exclusive DEF IInv, Locked
    <2>3. QED
      BY <2>1, <2>2
  <1>2. IInv /\ [Next]_vars =>
          [\A p \in Procs : pc[p] = "clear" /\ pc'[p] = "idle" /\ accidents' = accidents
             => /\ DOMAIN files \subseteq job[p].paths
                /\ \A q \in Procs : pc[q] = "staged" => q \in staging']_vars
    BY <1>1
  <1>3. QED
    BY <1>2, Invariance, PTL DEF Spec, RecoveryCollects

-----------------------------------------------------------------------------
(***************************************************************************)
(* Nothing that is current, leased or pinned loses its file.  This needs    *)
(* two things of the deployment that the code does not enforce: that all    *)
(* processes that share the root use one index database, and that nothing   *)
(* happens between the two statements of a lease or a pin.                  *)
(***************************************************************************)

SingleDatabase == \A p, q \in Procs : DbOf[p] = DbOf[q]

\* A database that no process has open has no rows.
ClosedEmpty ==
  \A d \in Databases : DOMAIN rows[d] # {} => \E p \in Procs : DbOf[p] = d

\* A lease under way is alone, and the row it has read is still current.
LeaseAtomic ==
  \A p \in Procs : pc[p] = "leasing" =>
    /\ lock = None
    /\ job[p].row \in CurrentRows(DbOf[p])
    /\ \A q \in Procs : pc[q] = "leasing" => q = p

\* The file of a publication is in place before its row is written.
InPlace ==
  \A p \in Procs : pc[p] = "installed" => job[p].path \in DOMAIN files \cup damaged

\* What recovery has read at its start covers what is referenced until it ends,
\* and the rows and files it has marked for removal are not referenced.
RecoverySpares ==
  \A p \in Procs :
    /\ pc[p] \in {"sweep", "erase", "walk"} => Referenced(DbOf[p]) \subseteq job[p].paths
    /\ pc[p] = "erase" => \A r \in job[p].todo : ~Held(DbOf[p], r)
    /\ pc[p] = "walk" => job[p].todo \cap job[p].paths = {}

RInv == ClosedEmpty /\ LeaseAtomic /\ InPlace /\ RecoverySpares /\ ReferencedHasFile

\* As long as no row, lease or pin changes and no file is lost, it is enough to
\* look at the process that moves.
LEMMA RProcessStep ==
    ASSUME IInv, RInv, NEW p \in Procs, NEW where \in Locations, NEW what \in Jobs,
           pc' = [pc EXCEPT ![p] = where], job' = [job EXCEPT ![p] = what],
           UNCHANGED <<rows, holds>>,
           DOMAIN files \cup damaged \subseteq DOMAIN files' \cup damaged',
           lock' = lock \/ \A q \in Procs : pc'[q] # "leasing",
           where = "leasing" =>
             /\ lock' = None
             /\ what.row \in CurrentRows(DbOf[p])
             /\ \A q \in Procs : pc[q] # "leasing",
           where = "installed" => what.path \in DOMAIN files \cup damaged,
           where \in {"sweep", "erase", "walk"} => Referenced(DbOf[p]) \subseteq what.paths,
           where = "erase" => \A r \in what.todo : ~Held(DbOf[p], r),
           where = "walk" => what.todo \cap what.paths = {}
    PROVE  RInv'
  <1>1. /\ pc'[p] = where /\ job'[p] = what
        /\ \A q \in Procs : q # p => pc'[q] = pc[q] /\ job'[q] = job[q]
    BY DEF IInv, TypeOK, Shape
  <1>2. ClosedEmpty' /\ ReferencedHasFile'
    BY DEF RInv, ClosedEmpty, ReferencedHasFile, CurrentRows, Held
  <1>3. LeaseAtomic'
    BY <1>1 DEF RInv, LeaseAtomic, CurrentRows
  <1>4. InPlace'
    BY <1>1 DEF RInv, InPlace
  <1>5. \A d : Referenced(d)' = Referenced(d) /\ \A r : Held(d, r)' = Held(d, r)
    BY DEF Referenced, CurrentRows, Held
  <1>6. RecoverySpares'
    BY <1>1, <1>5 DEF RInv, RecoverySpares
  <1>7. QED
    BY <1>2, <1>3, <1>4, <1>6 DEF RInv

\* The lock and a lease under way exclude each other.
LEMMA NoLeaseUnderLock ==
    ASSUME IInv, RInv, NEW p \in Procs, pc[p] \in Locked
    PROVE  \A q \in Procs : pc[q] # "leasing"
  BY StoreAssumption DEF IInv, LockHeld, RInv, LeaseAtomic

\* Ending a locked operation leaves files and references alone.
LEMMA RAbort ==
    ASSUME IInv, RInv, NEW p \in Procs, pc[p] \in Locked, Abort(p),
           UNCHANGED <<files, damaged, rows, holds>>
    PROVE  RInv'
  <1>1. pc' = [pc EXCEPT ![p] = "idle"] /\ job' = [job EXCEPT ![p] = Idle]
    BY DEF Abort, Finish
  <1>2. \A q \in Procs : pc'[q] # "leasing"
    BY <1>1, NoLeaseUnderLock DEF IInv, TypeOK
  <1>3. "idle" \in Locations
    BY DEF Locations
  <1>4. QED
    BY <1>1, <1>2, <1>3, IdleJob, RProcessStep

\* A publication refers to a file only once it is in place.
LEMMA RPublisher ==
    ASSUME IInv, RInv, ~LeaseRaces, NEW p \in Procs, PublisherStep(p)
    PROVE  RInv'
  <1>0. pc \in [Procs -> Locations] /\ job[p] \in Jobs /\ DbOf[p] \in Databases
    BY StoreAssumption DEF IInv, TypeOK, Shape
  <1>1. ASSUME NEW id \in Ids, NEW c \in Payloads, Publish(p, id, c)
        PROVE  RInv'
    <2> DEFINE what == [Idle EXCEPT !.path = <<id, c>>]
    <2>1. what \in Jobs
      BY DEF Idle, Jobs, Paths
    <2>2. /\ pc' = [pc EXCEPT ![p] = "staged"] /\ job' = [job EXCEPT ![p] = what]
          /\ UNCHANGED <<files, damaged, rows, holds>>
          /\ \A q \in Procs : pc[q] # "leasing"
      BY <1>1 DEF Publish, LeaseAlone, dbVars
    <2> HIDE DEF what
    <2>3. "staged" \in Locations /\ \A q \in Procs : pc'[q] # "leasing"
      BY <1>0, <2>2 DEF Locations
    <2>4. QED
      BY <2>1, <2>2, <2>3, RProcessStep
  <1>2. CASE WriterFails(p) \/ RecordFails(p) \/ PublishDone(p)
    <2>1. pc[p] \in Locked /\ Abort(p) /\ UNCHANGED <<files, damaged, rows, holds>>
      BY <1>2 DEF WriterFails, RecordFails, PublishDone, Locked, dbVars
    <2>2. QED
      BY <2>1, RAbort
  <1>3. CASE Install(p)
    <2> DEFINE f == job[p].path
    <2>0. pc[p] \in Locked /\ UNCHANGED <<rows, holds>>
      BY <1>3 DEF Install, Locked, dbVars
    <2>1. CASE Abort(p) /\ UNCHANGED <<files, damaged>>
      BY <2>0, <2>1, RAbort
    <2>2. CASE /\ files' = With(files, f, "good")
               /\ damaged' = damaged \ {f}
               /\ \/ /\ pc' = [pc EXCEPT ![p] = "installed"]
                     /\ UNCHANGED <<lock, job>>
                  \/ Finish(p)
      <3>1. files' = [g \in DOMAIN files \cup {f} |-> IF g = f THEN "good" ELSE files[g]]
        BY <2>2 DEF With
      <3>2. DOMAIN files' = DOMAIN files \cup {f}
        BY <3>1
      <3>3. /\ f \in DOMAIN files' /\ f \in DOMAIN files' \cup damaged'
            /\ DOMAIN files \cup damaged \subseteq DOMAIN files' \cup damaged'
        BY <2>2, <3>2
      <3>4. PICK where \in {"idle", "installed"} :
              /\ pc' = [pc EXCEPT ![p] = where]
              /\ where = "installed" => job' = job
              /\ where = "idle" => job' = [job EXCEPT ![p] = Idle]
        BY <2>2 DEF Finish
      <3>5. \A q \in Procs : pc'[q] # "leasing"
        BY <1>0, <2>0, <3>4, NoLeaseUnderLock
      <3>6. /\ pc'[p] = where
            /\ \A q \in Procs : q # p => pc'[q] = pc[q] /\ job'[q] = job[q]
        BY <1>0, <3>4 DEF IInv, Shape
      <3>7. ClosedEmpty' /\ ReferencedHasFile'
        BY <2>0, <3>3 DEF RInv, ClosedEmpty, ReferencedHasFile, CurrentRows, Held
      <3>8. LeaseAtomic'
        BY <3>5 DEF LeaseAtomic
      <3>9. \A q \in Procs : q # p => pc[q] \notin Locked
        BY <2>0, Exclusive DEF IInv
      <3>10. InPlace' /\ RecoverySpares'
        BY <3>3, <3>4, <3>6, <3>9 DEF InPlace, RecoverySpares, Locked
      <3>11. QED
        BY <3>7, <3>8, <3>10 DEF RInv
    <2>3. QED
      BY <1>3, <2>1, <2>2 DEF Install
  <1>4. CASE Record(p)
    <2> DEFINE d == DbOf[p]
               f == job[p].path
    <2>0. /\ pc[p] = "installed" /\ pc' = [pc EXCEPT ![p] = "recorded"]
          /\ UNCHANGED <<files, damaged, holds, lock, job>>
      BY <1>4 DEF Record, RecordAs, fileVars
    <2>1. pc[p] \in Locked /\ f \in DOMAIN files \cup damaged
      BY <2>0 DEF RInv, InPlace, Locked
    <2>2. /\ pc'[p] = "recorded"
          /\ \A q \in Procs : q # p => pc'[q] = pc[q] /\ pc'[q] \notin Locked
          /\ \A q \in Procs : pc'[q] # "leasing"
      BY <1>0, <2>0, <2>1, Exclusive, NoLeaseUnderLock DEF IInv
    <2>3. LeaseAtomic' /\ InPlace' /\ RecoverySpares'
      BY <2>2 DEF LeaseAtomic, InPlace, RecoverySpares, Locked
    <2>4. \A e \in Databases : e # d => rows'[e] = rows[e]
      BY <1>4, RecordFacts
    <2>5. ClosedEmpty'
      BY <2>4 DEF RInv, ClosedEmpty
    <2>6. PICK n \in RowIds :
            /\ DOMAIN rows'[d] = DOMAIN rows[d] \cup {n}
            /\ rows'[d][n] = [path |-> f, state |-> "current"]
            /\ \A r \in DOMAIN rows[d] : r # n =>
                 /\ rows'[d][r].path = rows[d][r].path
                 /\ rows'[d][r].state # rows[d][r].state => rows'[d][r].state = "stale"
      BY <1>4, RecordFacts
    <2>7. ASSUME NEW e \in Databases, NEW r \in DOMAIN rows'[e],
                 rows'[e][r].state = "current" \/ Held(e, r)'
          PROVE  rows'[e][r].path \in DOMAIN files' \cup damaged'
      <3>0. Held(e, r)' <=> Held(e, r)
        BY <2>0 DEF Held
      <3>1. CASE e # d
        BY <2>0, <2>4, <2>7, <3>0, <3>1 DEF RInv, ReferencedHasFile, CurrentRows
      <3>2. CASE e = d /\ r = n
        BY <2>0, <2>1, <2>6, <3>2
      <3>3. CASE e = d /\ r # n
        <4>1. /\ r \in DOMAIN rows[d] /\ rows'[d][r].path = rows[d][r].path
              /\ rows[d][r].state = "current" \/ Held(d, r)
          BY <2>6, <2>7, <3>0, <3>3
        <4>2. QED
          BY <1>0, <2>0, <3>3, <4>1 DEF RInv, ReferencedHasFile, CurrentRows
      <3>4. QED
        BY <3>1, <3>2, <3>3
    <2>8. ReferencedHasFile'
      BY <2>7 DEF ReferencedHasFile, CurrentRows
    <2>9. QED
      BY <2>3, <2>5, <2>8 DEF RInv
  <1>5. QED
    BY <1>1, <1>2, <1>3, <1>4 DEF PublisherStep

\* A lease or a pin is taken on a row that has its file.
LEMMA RHolder ==
    ASSUME IInv, RInv, ~LeaseRaces, NEW p \in Procs, HolderStep(p)
    PROVE  RInv'
  <1>0. pc \in [Procs -> Locations] /\ job[p] \in Jobs /\ DbOf[p] \in Databases
    BY StoreAssumption DEF IInv, TypeOK, Shape
  <1>1. ASSUME NEW id \in Ids, Lease(p, id)
        PROVE  RInv'
    <2> DEFINE r == CHOOSE r \in Current(DbOf[p], id) : TRUE
               what == [Idle EXCEPT !.row = r]
    <2>1. r \in Current(DbOf[p], id)
      BY <1>1 DEF Lease
    <2>2. r \in RowIds /\ r \in CurrentRows(DbOf[p])
      BY <1>0, <2>1 DEF Current, CurrentRows, IInv, TypeOK
    <2> HIDE DEF r
    <2>3. what \in Jobs /\ what.row = r
      BY <2>2 DEF Idle, Jobs
    <2>4. /\ pc' = [pc EXCEPT ![p] = "leasing"] /\ job' = [job EXCEPT ![p] = what]
          /\ lock' = lock /\ lock = None
          /\ UNCHANGED <<files, damaged, rows, holds>>
          /\ \A q \in Procs : pc[q] # "leasing"
      BY <1>1 DEF Lease, LeaseAlone, fileVars, dbVars, r
    <2> HIDE DEF what
    <2>5. "leasing" \in Locations
      BY DEF Locations
    <2>6. QED
      BY <2>2, <2>3, <2>4, <2>5, RProcessStep
  <1>2. ASSUME NEW t \in Tokens, LeaseInsert(p, t)
        PROVE  RInv'
    <2> DEFINE d == DbOf[p]
    <2>1. /\ pc[p] = "leasing" /\ pc' = [pc EXCEPT ![p] = "idle"]
          /\ UNCHANGED <<files, damaged, rows, lock>>
          /\ \A h \in holds'[d] : h \in holds[d] \/ h = <<job[p].row, t>>
          /\ \A e \in Databases : e # d => holds'[e] = holds[e]
      BY <1>0, <1>2 DEF LeaseInsert, fileVars, IInv, Shape
    <2>2. lock = None /\ job[p].row \in CurrentRows(d)
      BY <2>1 DEF RInv, LeaseAtomic
    <2>3. /\ \A q \in Procs : pc'[q] # "leasing"
          /\ \A q \in Procs : pc'[q] \notin Locked
      BY <1>0, <2>1, <2>2, StoreAssumption DEF RInv, LeaseAtomic, IInv, LockHeld, Locked
    <2>4. LeaseAtomic' /\ InPlace' /\ RecoverySpares'
      BY <2>3 DEF LeaseAtomic, InPlace, RecoverySpares, Locked
    <2>5. ClosedEmpty'
      BY <2>1 DEF RInv, ClosedEmpty
    <2>6. ASSUME NEW e \in Databases, NEW r \in DOMAIN rows[e],
                 r \in CurrentRows(e) \/ Held(e, r)'
          PROVE  r \in CurrentRows(e) \/ Held(e, r)
      <3>1. CASE e # d
        BY <2>1, <2>6, <3>1 DEF Held
      <3>2. CASE e = d /\ r = job[p].row
        BY <2>2, <3>2
      <3>3. CASE e = d /\ r # job[p].row
        BY <2>1, <2>6, <3>3 DEF Held
      <3>4. QED
        BY <3>1, <3>2, <3>3
    <2>7. ReferencedHasFile'
      BY <2>1, <2>6 DEF RInv, ReferencedHasFile, CurrentRows
    <2>8. QED
      BY <2>4, <2>5, <2>7 DEF RInv
  <1>3. ASSUME NEW id \in Ids, NEW t \in Tokens, Unlease(p, id, t)
        PROVE  RInv'
    <2>1. /\ UNCHANGED <<files, damaged, rows, lock, pc, job>>
          /\ \A e \in Databases : holds'[e] \subseteq holds[e]
      BY <1>0, <1>3 DEF Unlease, fileVars, IInv, Shape
    <2>2. \A e \in Databases : \A r : Held(e, r)' => Held(e, r)
      BY <2>1 DEF Held
    <2>3. \A e \in Databases : Referenced(e)' \subseteq Referenced(e)
      BY <2>1, <2>2 DEF Referenced, CurrentRows
    <2>4. ClosedEmpty' /\ LeaseAtomic' /\ InPlace'
      BY <2>1 DEF RInv, ClosedEmpty, LeaseAtomic, InPlace, CurrentRows
    <2>5. \A q \in Procs : DbOf[q] \in Databases
      BY StoreAssumption
    <2>6. RecoverySpares'
      BY <2>1, <2>2, <2>3, <2>5 DEF RInv, RecoverySpares
    <2>7. ReferencedHasFile'
      BY <2>1, <2>2 DEF RInv, ReferencedHasFile, CurrentRows
    <2>8. QED
      BY <2>4, <2>6, <2>7 DEF RInv
  <1>4. QED
    BY <1>1, <1>2, <1>3 DEF HolderStep

\* Removing a file that no referenced row of the one database names.
LEMMA RRemoveFile ==
    ASSUME IInv, RInv, SingleDatabase, NEW p \in Procs, NEW f, NEW what \in Jobs,
           pc[p] \in {"erase", "walk"}, pc' = pc, job' = [job EXCEPT ![p] = what],
           files' = Without(files, {f}), UNCHANGED <<damaged, rows, holds, lock>>,
           \A r \in DOMAIN rows[DbOf[p]] :
             r \in CurrentRows(DbOf[p]) \/ Held(DbOf[p], r) => rows[DbOf[p]][r].path # f,
           what.paths = job[p].paths,
           pc[p] = "erase" => what.todo = job[p].todo,
           pc[p] = "walk" => what.todo \subseteq job[p].todo
    PROVE  RInv'
  <1>1. DOMAIN files' = DOMAIN files \ {f}
    BY DEF Without, Restrict
  <1>2. job'[p] = what
    BY DEF IInv, Shape
  <1>3. pc[p] \in Locked /\ \A q \in Procs : q # p => pc[q] \notin Locked
    BY Exclusive DEF IInv, Locked
  <1>4. \A q \in Procs : pc[q] # "leasing"
    BY <1>3, NoLeaseUnderLock
  <1>5. ClosedEmpty' /\ LeaseAtomic'
    BY <1>4 DEF RInv, ClosedEmpty, LeaseAtomic
  <1>6. InPlace'
    BY <1>3 DEF InPlace, Locked
  <1>7. \A d : Referenced(d)' = Referenced(d) /\ \A r : Held(d, r)' = Held(d, r)
    BY DEF Referenced, CurrentRows, Held
  <1>8. RecoverySpares'
    BY <1>2, <1>3, <1>7 DEF RInv, RecoverySpares, Locked
  <1>9. \A d \in Databases : DOMAIN rows[d] # {} => d = DbOf[p]
    BY DEF RInv, ClosedEmpty, SingleDatabase
  <1>10. ReferencedHasFile'
    BY <1>1, <1>9 DEF RInv, ReferencedHasFile, CurrentRows, Held
  <1>11. QED
    BY <1>5, <1>6, <1>8, <1>10 DEF RInv

\* Recovery unlinks no file that a row it keeps refers to.
LEMMA RRecovery ==
    ASSUME IInv, RInv, SingleDatabase, ~LeaseRaces, NEW p \in Procs, RecoveryStep(p)
    PROVE  RInv'
  <1>0. pc \in [Procs -> Locations] /\ job[p] \in Jobs /\ DbOf[p] \in Databases
    BY StoreAssumption DEF IInv, TypeOK, Shape
  <1>1. CASE RecoverStart(p)
    <2> DEFINE what == [Idle EXCEPT !.paths = Referenced(DbOf[p])]
    <2>1. what \in Jobs /\ what.paths = Referenced(DbOf[p])
      BY <1>0, ReferencedPaths DEF Idle, Jobs
    <2>2. /\ pc' = [pc EXCEPT ![p] = "sweep"] /\ job' = [job EXCEPT ![p] = what]
          /\ UNCHANGED <<files, damaged, rows, holds>>
          /\ \A q \in Procs : pc[q] # "leasing"
      BY <1>1 DEF RecoverStart, LeaseAlone, fileVars, dbVars
    <2> HIDE DEF what
    <2>3. "sweep" \in Locations /\ \A q \in Procs : pc'[q] # "leasing"
      BY <1>0, <2>2 DEF Locations
    <2>4. QED
      BY <2>1, <2>2, <2>3, RProcessStep
  <1>2. CASE SweepOpen(p)
    <2> DEFINE what == [job[p] EXCEPT !.todo = Expendable(DbOf[p])]
    <2>1. Expendable(DbOf[p]) \subseteq RowIds
      BY <1>0 DEF Expendable, IInv, TypeOK
    <2>2. /\ what \in Jobs /\ what.todo = Expendable(DbOf[p]) /\ what.paths = job[p].paths
      BY <1>0, <2>1 DEF Jobs
    <2>3. /\ pc' = [pc EXCEPT ![p] = "erase"] /\ job' = [job EXCEPT ![p] = what]
          /\ lock' = lock /\ UNCHANGED <<files, damaged, rows, holds>>
      BY <1>2 DEF SweepOpen, fileVars, dbVars
    <2> HIDE DEF what
    <2>4. /\ "erase" \in Locations /\ Referenced(DbOf[p]) \subseteq what.paths
          /\ \A r \in what.todo : ~Held(DbOf[p], r)
      BY <1>2, <2>2 DEF SweepOpen, Locations, RInv, RecoverySpares, Expendable
    <2>5. QED
      BY <2>2, <2>3, <2>4, RProcessStep
  <1>3. CASE SweepRow(p) /\ queryOnly[p]
    <2>1. pc[p] \in Locked /\ Abort(p) /\ UNCHANGED <<files, damaged, rows, holds>>
      BY <1>3 DEF SweepRow, Locked, dbVars
    <2>2. QED
      BY <2>1, RAbort
  <1>4. CASE SweepRow(p) /\ ~queryOnly[p]
    <2> DEFINE d == DbOf[p]
               n == job[p].row
               what == [job[p] EXCEPT !.row = 0, !.todo = job[p].todo \ {n}]
    <2>1. /\ pc[p] = "erase" /\ d \in Databases
          /\ DOMAIN rows'[d] = DOMAIN rows[d] \ {n}
          /\ \A r \in DOMAIN rows'[d] : rows'[d][r] = rows[d][r]
          /\ holds'[d] = {h \in holds[d] : h[1] # n}
          /\ \A e \in Databases : e # d => rows'[e] = rows[e] /\ holds'[e] = holds[e]
          /\ UNCHANGED <<files, damaged, lock, pc>>
      BY <1>4, SweepRowFacts
    <2>2. job' = [job EXCEPT ![p] = what]
      BY <1>4, SweepRowFacts DEF IInv, Shape, Jobs
    <2>3. what.todo = job[p].todo \ {n} /\ what.paths = job[p].paths
      BY <1>0 DEF Jobs
    <2> HIDE DEF what
    <2>4. job'[p] = what
      BY <2>2 DEF IInv, Shape
    <2>5. pc[p] \in Locked /\ \A q \in Procs : q # p => pc[q] \notin Locked
      BY <2>1, Exclusive DEF IInv, Locked
    <2>6. \A q \in Procs : pc[q] # "leasing"
      BY <2>5, NoLeaseUnderLock
    <2>7. /\ \A e \in Databases : \A r : Held(e, r)' => Held(e, r)
          /\ \A e \in Databases : DOMAIN rows'[e] \subseteq DOMAIN rows[e]
          /\ \A e \in Databases : \A r \in DOMAIN rows'[e] : rows'[e][r] = rows[e][r]
      BY <2>1 DEF Held
    <2>8. Referenced(d)' \subseteq Referenced(d)
      BY <2>1, <2>7 DEF Referenced, CurrentRows
    <2>9. ClosedEmpty' /\ LeaseAtomic' /\ InPlace'
      BY <2>1, <2>5, <2>6, <2>7 DEF RInv, ClosedEmpty, LeaseAtomic, InPlace, Locked
    <2>10. RecoverySpares'
      BY <2>1, <2>3, <2>4, <2>5, <2>7, <2>8 DEF RInv, RecoverySpares, Locked
    <2>11. ReferencedHasFile'
      BY <2>1, <2>7 DEF RInv, ReferencedHasFile, CurrentRows
    <2>12. QED
      BY <2>9, <2>10, <2>11 DEF RInv
  <1>5. ASSUME NEW r \in RowIds, SweepFile(p, r)
        PROVE  RInv'
    <2> DEFINE d == DbOf[p]
    <2>0. /\ pc[p] = "erase" /\ pc' = pc /\ job[p].row = 0 /\ r \in job[p].todo
          /\ UNCHANGED <<damaged, rows, holds, lock>>
      BY <1>5 DEF SweepFile, dbVars
    <2>1. /\ r \in DOMAIN rows[d] \ CurrentRows(d) /\ ~Held(d, r)
      BY <2>0 DEF IInv, SweeperJob, RInv, RecoverySpares
    <2>2. CASE /\ files' = Without(files, {rows[d][r].path})
               /\ job' = [job EXCEPT ![p].row = r]
      <3> DEFINE what == [job[p] EXCEPT !.row = r]
      <3>1. what \in Jobs /\ what.todo = job[p].todo /\ what.paths = job[p].paths
        BY <1>0 DEF Jobs
      <3>2. job' = [job EXCEPT ![p] = what]
        BY <2>2
      <3> HIDE DEF what
      <3>3. \A s \in DOMAIN rows[d] :
              s \in CurrentRows(d) \/ Held(d, s) => rows[d][s].path # rows[d][r].path
        BY <1>0, <2>1 DEF IInv, RowsDistinct
      <3>4. QED
        BY <2>0, <2>2, <3>1, <3>2, <3>3, RRemoveFile
    <2>3. CASE job' = [job EXCEPT ![p].todo = @ \ {r}] /\ UNCHANGED files
      <3> DEFINE what == [job[p] EXCEPT !.todo = job[p].todo \ {r}]
      <3>1. what \in Jobs /\ what.todo = job[p].todo \ {r} /\ what.paths = job[p].paths
        BY <1>0 DEF Jobs
      <3>2. job' = [job EXCEPT ![p] = what]
        BY <2>3
      <3> HIDE DEF what
      <3>3. /\ pc' = [pc EXCEPT ![p] = "erase"] /\ "erase" \in Locations
            /\ Referenced(d) \subseteq what.paths /\ \A s \in what.todo : ~Held(d, s)
        BY <1>0, <2>0, <3>1 DEF Locations, RInv, RecoverySpares
      <3>4. QED
        BY <2>0, <2>3, <3>1, <3>2, <3>3, RProcessStep
    <2>4. QED
      BY <1>5, <2>2, <2>3 DEF SweepFile
  <1>6. CASE WalkStart(p)
    <2> DEFINE what == [job[p] EXCEPT !.todo = DOMAIN files \ job[p].paths]
    <2>1. /\ what \in Jobs /\ what.todo = DOMAIN files \ job[p].paths
          /\ what.paths = job[p].paths
      BY <1>0 DEF Jobs, IInv, TypeOK
    <2>2. /\ pc' = [pc EXCEPT ![p] = "walk"] /\ job' = [job EXCEPT ![p] = what]
          /\ lock' = lock /\ UNCHANGED <<files, damaged, rows, holds>>
      BY <1>6 DEF WalkStart, fileVars, dbVars
    <2> HIDE DEF what
    <2>3. /\ "walk" \in Locations /\ Referenced(DbOf[p]) \subseteq what.paths
          /\ what.todo \cap what.paths = {}
      BY <1>6, <2>1 DEF WalkStart, Locations, RInv, RecoverySpares
    <2>4. QED
      BY <2>1, <2>2, <2>3, RProcessStep
  <1>7. CASE WalkFile(p)
    <2> DEFINE d == DbOf[p]
    <2>0. /\ pc[p] = "walk" /\ UNCHANGED <<damaged, rows, holds, lock>>
      BY <1>7 DEF WalkFile, dbVars
    <2>1. Referenced(d) \subseteq job[p].paths /\ job[p].todo \cap job[p].paths = {}
      BY <2>0 DEF RInv, RecoverySpares
    <2>2. ASSUME NEW f \in job[p].todo, files' = Without(files, {f}),
                 job' = [job EXCEPT ![p].todo = @ \ {f}], UNCHANGED pc
          PROVE  RInv'
      <3> DEFINE what == [job[p] EXCEPT !.todo = job[p].todo \ {f}]
      <3>1. /\ what \in Jobs /\ what.todo = job[p].todo \ {f} /\ what.paths = job[p].paths
        BY <1>0 DEF Jobs
      <3>2. job' = [job EXCEPT ![p] = what]
        BY <2>2
      <3> HIDE DEF what
      <3>3. \A s \in DOMAIN rows[d] :
              s \in CurrentRows(d) \/ Held(d, s) => rows[d][s].path # f
        BY <2>1, <2>2 DEF Referenced
      <3>4. QED
        BY <2>0, <2>2, <3>1, <3>2, <3>3, RRemoveFile
    <2>3. ASSUME NEW f \in job[p].todo \cap DOMAIN files, UNCHANGED <<files, pc>>,
                 job' = [job EXCEPT ![p].todo = @ \ {f}, ![p].paths = @ \cup {f}]
          PROVE  RInv'
      <3> DEFINE what == [job[p] EXCEPT !.todo = job[p].todo \ {f},
                                        !.paths = job[p].paths \cup {f}]
      <3>1. f \in Paths
        BY <2>3 DEF IInv, TypeOK
      <3>2. /\ what \in Jobs /\ what.todo = job[p].todo \ {f}
            /\ what.paths = job[p].paths \cup {f}
        BY <1>0, <3>1 DEF Jobs
      <3>3. job' = [job EXCEPT ![p] = what]
        BY <2>3 DEF IInv, Shape, Jobs
      <3> HIDE DEF what
      <3>4. /\ pc' = [pc EXCEPT ![p] = "walk"] /\ "walk" \in Locations
            /\ Referenced(d) \subseteq what.paths /\ what.todo \cap what.paths = {}
        BY <1>0, <2>0, <2>1, <2>3, <3>2 DEF Locations
      <3>5. QED
        BY <2>0, <2>3, <3>2, <3>3, <3>4, RProcessStep
    <2>4. CASE /\ job[p].todo = {}
               /\ pc' = [pc EXCEPT ![p] = "clear"]
               /\ UNCHANGED <<files, job>>
      <3>1. job' = [job EXCEPT ![p] = job[p]] /\ "clear" \in Locations
        BY <2>4 DEF IInv, Shape, Locations
      <3>2. QED
        BY <1>0, <2>0, <2>4, <3>1, RProcessStep
    <2>5. QED
      BY <1>7, <2>2, <2>3, <2>4 DEF WalkFile
  <1>8. CASE ClearStaging(p)
    <2>1. /\ pc' = [pc EXCEPT ![p] = "idle"] /\ job' = [job EXCEPT ![p] = Idle]
          /\ UNCHANGED <<files, damaged, rows, holds>> /\ pc[p] \in Locked
      BY <1>8 DEF ClearStaging, Finish, dbVars, Locked
    <2>2. "idle" \in Locations /\ \A q \in Procs : pc'[q] # "leasing"
      BY <1>0, <2>1, NoLeaseUnderLock DEF Locations
    <2>3. QED
      BY <2>1, <2>2, IdleJob, RProcessStep
  <1>9. QED
    BY <1>1, <1>2, <1>3, <1>4, <1>5, <1>6, <1>7, <1>8 DEF RecoveryStep

\* Readers, kills and damage leave the references alone.
LEMMA REnvironment ==
    ASSUME IInv, RInv
    PROVE  /\ \A p \in Procs : ReaderStep(p) \/ Crash(p) => RInv'
           /\ \A f \in DOMAIN files : Damage(f) => RInv'
  <1>0. pc \in [Procs -> Locations] /\ job \in [Procs -> Jobs]
    BY DEF IInv, TypeOK, Shape
  <1>1. ASSUME NEW p \in Procs, NEW id \in Ids, Attach(p, id)
        PROVE  RInv'
    <2> DEFINE r == CHOOSE r \in Current(DbOf[p], id) : TRUE
               what == [Idle EXCEPT !.path = rows[DbOf[p]][r].path]
    <2>1. r \in Current(DbOf[p], id) /\ DbOf[p] \in Databases
      BY <1>1, StoreAssumption DEF Attach, Usable
    <2>2. rows[DbOf[p]][r].path \in Paths
      BY <2>1 DEF Current, CurrentRows, IInv, TypeOK
    <2> HIDE DEF r
    <2>3. what \in Jobs
      BY <2>2 DEF Idle, Jobs
    <2>4. /\ pc' = [pc EXCEPT ![p] = "attaching"] /\ job' = [job EXCEPT ![p] = what]
          /\ lock' = lock /\ UNCHANGED <<files, damaged, rows, holds>>
      BY <1>1 DEF Attach, fileVars, dbVars, r
    <2> HIDE DEF what
    <2>5. "attaching" \in Locations
      BY DEF Locations
    <2>6. QED
      BY <2>3, <2>4, <2>5, RProcessStep
  <1>2. ASSUME NEW p \in Procs, AttachOpen(p)
        PROVE  RInv'
    <2>1. /\ pc' = [pc EXCEPT ![p] = "idle"] /\ job' = [job EXCEPT ![p] = Idle]
          /\ lock' = lock /\ UNCHANGED <<files, damaged, rows, holds>>
      BY <1>2 DEF AttachOpen, fileVars, dbVars
    <2>2. "idle" \in Locations
      BY DEF Locations
    <2>3. QED
      BY <2>1, <2>2, IdleJob, RProcessStep
  <1>3. ASSUME NEW p \in Procs, NEW id \in Ids, Detach(p, id)
        PROVE  RInv'
    <2>1. /\ pc' = [pc EXCEPT ![p] = "idle"] /\ job' = [job EXCEPT ![p] = job[p]]
          /\ lock' = lock /\ UNCHANGED <<files, damaged, rows, holds>>
      BY <1>0, <1>3 DEF Detach, fileVars, dbVars
    <2>2. "idle" \in Locations /\ job[p] \in Jobs
      BY <1>0 DEF Locations
    <2>3. QED
      BY <2>1, <2>2, RProcessStep
  <1>4. ASSUME NEW p \in Procs, Crash(p)
        PROVE  RInv'
    <2>1. /\ pc' = [pc EXCEPT ![p] = "idle"] /\ job' = [job EXCEPT ![p] = Idle]
          /\ UNCHANGED <<files, damaged, rows, holds>>
      BY <1>4 DEF Crash, fileVars, dbVars
    <2>2. lock' = lock \/ \A q \in Procs : pc'[q] # "leasing"
      <3>1. CASE lock = p
        <4>1. \A q \in Procs : pc[q] # "leasing"
          BY <3>1, StoreAssumption DEF RInv, LeaseAtomic
        <4>2. QED
          BY <1>0, <2>1, <4>1
      <3>2. CASE lock # p
        BY <1>4, <3>2 DEF Crash
      <3>3. QED
        BY <3>1, <3>2
    <2>3. "idle" \in Locations
      BY DEF Locations
    <2>4. QED
      BY <2>1, <2>2, <2>3, IdleJob, RProcessStep
  <1>5. ASSUME NEW f \in DOMAIN files, Damage(f)
        PROVE  RInv'
    <2>1. DOMAIN files \cup damaged \subseteq DOMAIN files' \cup damaged'
      <3>1. damaged' = damaged \cup {f}
        BY <1>5 DEF Damage
      <3>2. DOMAIN files \ {f} \subseteq DOMAIN files'
        <4>1. CASE files' = Without(files, {f})
          BY <4>1 DEF Without, Restrict
        <4>2. CASE files' = [files EXCEPT ![f] = "bad"]
          BY <4>2
        <4>3. QED
          BY <1>5, <4>1, <4>2 DEF Damage
      <3>3. QED
        BY <3>1, <3>2
    <2>2. UNCHANGED <<rows, holds, lock, pc, job>>
      BY <1>5 DEF Damage, dbVars
    <2>3. ClosedEmpty' /\ LeaseAtomic' /\ InPlace' /\ ReferencedHasFile'
      BY <2>1, <2>2 DEF RInv, ClosedEmpty, LeaseAtomic, InPlace, ReferencedHasFile,
                        CurrentRows, Held
    <2>4. \A d : Referenced(d)' = Referenced(d) /\ \A r : Held(d, r)' = Held(d, r)
      BY <2>2 DEF Referenced, CurrentRows, Held
    <2>5. RecoverySpares'
      BY <2>2, <2>4 DEF RInv, RecoverySpares
    <2>6. QED
      BY <2>3, <2>5 DEF RInv
  <1>6. QED
    BY <1>1, <1>2, <1>3, <1>4, <1>5 DEF ReaderStep

\* Where one database is used and leases are not interrupted, every row that is
\* current, leased or pinned has its file, whoever is killed at which step and
\* whatever else fails, except for files damaged from outside.
THEOREM ReferencedKept ==
    ASSUME SingleDatabase, LeaseRaces = FALSE
    PROVE  Spec => []ReferencedHasFile
  <1>1. Init => RInv
    <2> SUFFICES ASSUME Init PROVE RInv
      OBVIOUS
    <2>1. /\ \A d \in Databases : DOMAIN rows[d] = {}
          /\ \A p \in Procs : pc[p] = "idle"
      BY DEF Init
    <2>2. QED
      BY <2>1 DEF RInv, ClosedEmpty, LeaseAtomic, InPlace, RecoverySpares, ReferencedHasFile
  <1>2. IInv /\ RInv /\ [Next]_vars => RInv'
    <2> SUFFICES ASSUME IInv, RInv, [Next]_vars PROVE RInv'
      OBVIOUS
    <2>1. CASE Next
      BY <2>1, RPublisher, RHolder, RRecovery, REnvironment DEF Next
    <2>2. CASE UNCHANGED vars
      <3>1. ClosedEmpty' /\ LeaseAtomic' /\ InPlace' /\ ReferencedHasFile'
        BY <2>2 DEF vars, RInv, ClosedEmpty, LeaseAtomic, InPlace, ReferencedHasFile,
                    CurrentRows, Held
      <3>2. \A d : Referenced(d)' = Referenced(d) /\ \A r : Held(d, r)' = Held(d, r)
        BY <2>2 DEF vars, Referenced, CurrentRows, Held
      <3>3. RecoverySpares'
        BY <2>2, <3>2 DEF vars, RInv, RecoverySpares
      <3>4. QED
        BY <3>1, <3>3 DEF RInv
    <2>3. QED
      BY <2>1, <2>2
  <1>3. RInv => ReferencedHasFile
    BY DEF RInv
  <1>4. QED
    BY <1>1, <1>2, <1>3, Invariance, PTL DEF Spec
=============================================================================
