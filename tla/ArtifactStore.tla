---------------------------- MODULE ArtifactStore ----------------------------
(***************************************************************************)
(* The store of derived artifacts (src/storage/artifacts.cpp): sidecar     *)
(* databases kept as content-addressed files under one root, with manifest *)
(* rows, leases and pins in an index database.  Several processes publish, *)
(* lease, attach and recover at once; any of them may be killed, and files *)
(* may be damaged from outside.                                            *)
(*                                                                         *)
(* The envelope written into a sidecar holds its logical id, so the digest *)
(* that names a file determines the id: a path is a pair (id, payload).    *)
(* Leases and pins are two tables of one shape, changed by the same        *)
(* statements; a token is one of them with its lease_id or pin_id.         *)
(***************************************************************************)
EXTENDS Integers, FiniteSets, Functions

CONSTANTS
  Procs,                \* processes, each with one store and one connection
  Databases,            \* index databases that use this root
  DbOf,                 \* the database a process has open
  Ids, Payloads,        \* logical ids and the bytes a producer may write
  Tokens,               \* lease and pin ids
  Name,                 \* attachment_name of a logical id
  MaxAttached,          \* attachment limit of a store
  MaxRow,               \* bound on manifest row ids
  MaxAccidents,         \* bound on kills and damaged files
  LeaseRaces,           \* may others act between the two statements of a lease
  Faults                \* failures the environment may inject

None == "none"
Left == "left"          \* stands for the staged files nobody owns any more
Paths == Ids \X Payloads
RowIds == 1..MaxRow

ASSUME StoreAssumption ==
  /\ DbOf \in [Procs -> Databases]
  /\ None \notin Procs /\ Left \notin Procs
  /\ MaxAttached \in Nat /\ MaxRow \in Nat /\ MaxAccidents \in Nat
  /\ LeaseRaces \in BOOLEAN

VARIABLES
  files,      \* contents of artifacts/: path -> "good" or "bad"
  staging,    \* .staging: publishers with a file there, and Left
  rows,       \* manifest: database -> row id -> [path, state]
  holds,      \* database -> set of <<row id, token>>
  lock,       \* holder of .artifact-publication.lock
  pc, job,    \* where each process is, and its local values
  attached,   \* logical ids attached to a process's connection
  queryOnly,  \* PRAGMA query_only of the connection
  before,     \* artifact_query_only_before_attach_
  opened,     \* query_only as the connection was opened (never changes)
  damaged,    \* paths somebody damaged since they were published
  accidents   \* kills and damages so far

vars == <<files, staging, rows, holds, lock, pc, job, attached,
          queryOnly, before, opened, damaged, accidents>>
fileVars == <<files, staging, damaged>>
dbVars == <<rows, holds>>
connVars == <<attached, queryOnly, before>>

Idle == [path |-> <<>>, row |-> 0, paths |-> {}, todo |-> {}]

Locations == {"idle", "staged", "installed", "recorded", "leasing", "attaching",
              "sweep", "erase", "walk", "clear"}
TypeOK ==
  /\ DOMAIN files \subseteq Paths
  /\ \A f \in DOMAIN files : files[f] \in {"good", "bad"}
  /\ staging \subseteq Procs \cup {Left}
  /\ \A d \in Databases :
       /\ DOMAIN rows[d] \subseteq RowIds
       /\ \A r \in DOMAIN rows[d] :
            rows[d][r] \in [path : Paths, state : {"current", "stale"}]
       /\ holds[d] \subseteq (DOMAIN rows[d]) \X Tokens
  /\ lock \in Procs \cup {None}
  /\ pc \in [Procs -> Locations]
  /\ attached \in [Procs -> SUBSET Ids]
  /\ queryOnly \in [Procs -> BOOLEAN] /\ before \in [Procs -> BOOLEAN]
  /\ damaged \subseteq Paths
  /\ accidents \in 0..MaxAccidents

Init ==
  /\ files = <<>> /\ staging = {}
  /\ rows = [d \in Databases |-> <<>>] /\ holds = [d \in Databases |-> {}]
  /\ lock = None
  /\ pc = [p \in Procs |-> "idle"] /\ job = [p \in Procs |-> Idle]
  /\ attached = [p \in Procs |-> {}]
  /\ opened \in [Procs -> BOOLEAN]
  /\ queryOnly = opened /\ before = opened
  /\ damaged = {} /\ accidents = 0

-----------------------------------------------------------------------------
(* The manifest. *)

RowsOf(d, id) == {r \in DOMAIN rows[d] : rows[d][r].path[1] = id}
CurrentRows(d) == {r \in DOMAIN rows[d] : rows[d][r].state = "current"}
\* At most one: idx_artifact_current_logical is unique.
Current(d, id) == RowsOf(d, id) \cap CurrentRows(d)
Held(d, r) == \E t \in Tokens : <<r, t>> \in holds[d]

\* The SELECT at the head of recover: what must survive it.
Referenced(d) ==
  {rows[d][r].path : r \in {s \in DOMAIN rows[d] : s \in CurrentRows(d) \/ Held(d, s)}}

\* Mutant of Expendable: leases and pins are not consulted.
ExpendableHeld(d) == {r \in DOMAIN rows[d] : rows[d][r].state = "stale"}
\* The SELECT of its sweep: stale rows that nobody holds.
Expendable(d) == {r \in DOMAIN rows[d] : rows[d][r].state = "stale" /\ ~Held(d, r)}

\* A recovery keeps its cursor open while it sweeps, and with it a shared lock
\* on the database: nobody else commits meanwhile.
CursorOpen(p) == \E q \in Procs \ {p} : DbOf[q] = DbOf[p] /\ pc[q] = "erase"

\* lease and pin take no lock between their two statements.
LeaseAlone == LeaseRaces \/ (lock = None /\ \A q \in Procs : pc[q] # "leasing")

Without(f, S) == Restrict(f, DOMAIN f \ S)
With(f, x, v) == [y \in DOMAIN f \cup {x} |-> IF y = x THEN v ELSE f[y]]

\* remove_staged_file ignores a failing unlink: the file is then left behind.
Orphaned(p) == (staging \ {p}) \cup (IF p \in staging THEN {Left} ELSE {})
Unstage(p) ==
  \/ staging' = staging \ {p}
  \/ "unlink" \in Faults /\ staging' = Orphaned(p)

Finish(p) ==
  /\ lock' = None
  /\ pc' = [pc EXCEPT ![p] = "idle"]
  /\ job' = [job EXCEPT ![p] = Idle]

\* Every exception out of a locked operation ends here: the lock is released and
\* the staged file, if it is still there, removed.
Abort(p) == Unstage(p) /\ Finish(p)

-----------------------------------------------------------------------------
(* publish, publish_existing and publish_staged. *)

\* Lock, directories and the staged file.  publish_existing differs in where the
\* bytes come from, a sidecar elsewhere in the root that it removes at the end and
\* that no other operation reads.
Publish(p, id, c) ==
  /\ pc[p] = "idle" /\ lock = None /\ LeaseAlone
  /\ lock' = p
  /\ staging' = staging \cup {p}
  /\ pc' = [pc EXCEPT ![p] = "staged"]
  /\ job' = [job EXCEPT ![p] = [Idle EXCEPT !.path = <<id, c>>]]
  /\ UNCHANGED <<files, damaged, dbVars, connVars, opened, accidents>>

\* The producer's callback, the integrity check of an adopted sidecar, or the
\* copy into the staged file throws.
WriterFails(p) ==
  /\ "writer" \in Faults /\ pc[p] = "staged"
  /\ Abort(p)
  /\ UNCHANGED <<files, damaged, dbVars, connVars, opened, accidents>>

\* The staged file goes to the name of its digest, unless that file is already
\* there; a file there with another digest stops the publication.  After the
\* rename the directories are flushed, and a failing flush leaves the file behind.
Install(p) ==
  LET f == job[p].path IN
  /\ pc[p] = "staged"
  /\ \/ /\ f \in DOMAIN files /\ files[f] # "good"
        /\ Abort(p)
        /\ UNCHANGED <<files, damaged>>
     \/ /\ f \in DOMAIN files => files[f] = "good"
        /\ files' = With(files, f, "good")
        /\ damaged' = damaged \ {f}
        /\ IF f \in DOMAIN files THEN Unstage(p) ELSE staging' = staging \ {p}
        /\ \/ /\ pc' = [pc EXCEPT ![p] = "installed"]
              /\ UNCHANGED <<lock, job>>
           \/ /\ "sync" \in Faults /\ f \notin DOMAIN files
              /\ Finish(p)
  /\ UNCHANGED <<dbVars, connVars, opened, accidents>>

\* The id SQLite gives a new row: one past the largest, if the bound allows it.
FreshRow(d) ==
  {n \in RowIds : /\ \A r \in DOMAIN rows[d] : r < n
                  /\ n = 1 \/ n - 1 \in DOMAIN rows[d]}

\* The transaction of publish_staged: older generations are superseded and this
\* one becomes current, in the row it had before or in a new one.
RecordAs(p, superseded, restored) ==
  LET d == DbOf[p]
      f == job[p].path
      same == {r \in DOMAIN rows[d] : rows[d][r].path = f}
      own == IF same = {} THEN FreshRow(d) ELSE same
  IN
  /\ pc[p] = "installed" /\ ~queryOnly[p] /\ ~CursorOpen(p)
  /\ own # {}
  /\ rows' = [rows EXCEPT ![d] =
       [r \in DOMAIN rows[d] \cup own |->
          IF r \in own THEN [path |-> f, state |-> IF same = {} THEN "current" ELSE restored]
          ELSE IF r \in RowsOf(d, f[1]) THEN [rows[d][r] EXCEPT !.state = superseded]
          ELSE rows[d][r]]]
  /\ pc' = [pc EXCEPT ![p] = "recorded"]
  /\ UNCHANGED <<fileVars, holds, lock, job, connVars, opened, accidents>>

\* Mutant of Record: a generation that already has a row is not made current again.
RecordForgetsRestore(p) == RecordAs(p, "stale", "stale")
\* Mutant of Record: older generations are marked retired.
RecordRetires(p) == RecordAs(p, "retired", "current")
Record(p) == RecordAs(p, "stale", "current")

\* The transaction, or the identity mapping inside it, fails and is rolled back;
\* the installed file stays.  On a connection with query_only set it always fails.
RecordFails(p) ==
  /\ pc[p] = "installed"
  /\ "record" \in Faults \/ queryOnly[p]
  /\ Abort(p)
  /\ UNCHANGED <<files, damaged, dbVars, connVars, opened, accidents>>

PublishDone(p) ==
  /\ pc[p] = "recorded"
  /\ Abort(p)
  /\ UNCHANGED <<files, damaged, dbVars, connVars, opened, accidents>>

-----------------------------------------------------------------------------
(* lease, pin, unlease, unpin: none takes the publication lock. *)

\* The current row is read ...
Lease(p, id) ==
  /\ pc[p] = "idle" /\ Current(DbOf[p], id) # {} /\ LeaseAlone
  /\ pc' = [pc EXCEPT ![p] = "leasing"]
  /\ job' = [job EXCEPT ![p] = [Idle EXCEPT !.row = CHOOSE r \in Current(DbOf[p], id) : TRUE]]
  /\ UNCHANGED <<fileVars, dbVars, lock, connVars, opened, accidents>>

\* ... and named by its id in an INSERT of its own, which the foreign key refuses
\* when the row is gone and SQLite when the connection may not write.
LeaseInsert(p, t) ==
  LET d == DbOf[p] IN
  /\ pc[p] = "leasing" /\ ~CursorOpen(p)
  /\ holds' = [holds EXCEPT ![d] =
                 IF job[p].row \in DOMAIN rows[d] /\ ~queryOnly[p]
                 THEN @ \cup {<<job[p].row, t>>} ELSE @]
  /\ pc' = [pc EXCEPT ![p] = "idle"]
  /\ job' = [job EXCEPT ![p] = Idle]
  /\ UNCHANGED <<fileVars, rows, lock, connVars, opened, accidents>>

Unlease(p, id, t) ==
  LET d == DbOf[p] IN
  /\ pc[p] = "idle" /\ ~queryOnly[p] /\ ~CursorOpen(p)
  /\ \E r \in RowsOf(d, id) : <<r, t>> \in holds[d]
  /\ holds' = [holds EXCEPT ![d] = {h \in @ : ~(h[1] \in RowsOf(d, id) /\ h[2] = t)}]
  /\ UNCHANGED <<fileVars, rows, lock, pc, job, connVars, opened, accidents>>

-----------------------------------------------------------------------------
(* recover. *)

\* Under the lock, the paths that must survive are read once.
RecoverStart(p) ==
  /\ pc[p] = "idle" /\ lock = None /\ LeaseAlone
  /\ lock' = p
  /\ pc' = [pc EXCEPT ![p] = "sweep"]
  /\ job' = [job EXCEPT ![p] = [Idle EXCEPT !.paths = Referenced(DbOf[p])]]
  /\ UNCHANGED <<fileVars, dbVars, connVars, opened, accidents>>

SweepOpen(p) ==
  /\ pc[p] = "sweep"
  /\ pc' = [pc EXCEPT ![p] = "erase"]
  /\ job' = [job EXCEPT ![p].todo = Expendable(DbOf[p])]
  /\ UNCHANGED <<fileVars, dbVars, lock, connVars, opened, accidents>>

\* The file of a stale row is removed first; when it cannot be, the row stays.
SweepFile(p, r) ==
  /\ pc[p] = "erase" /\ job[p].row = 0 /\ r \in job[p].todo
  /\ \/ /\ files' = Without(files, {rows[DbOf[p]][r].path})
        /\ job' = [job EXCEPT ![p].row = r]
     \/ /\ "unlink" \in Faults /\ rows[DbOf[p]][r].path \in DOMAIN files
        /\ job' = [job EXCEPT ![p].todo = @ \ {r}]
        /\ UNCHANGED files
  /\ UNCHANGED <<staging, damaged, dbVars, lock, pc, connVars, opened, accidents>>

\* Then its row, whose leases and pins go with it (ON DELETE CASCADE).
SweepRow(p) ==
  LET d == DbOf[p] IN
  /\ pc[p] = "erase" /\ job[p].row # 0
  /\ \/ /\ ~queryOnly[p]
        /\ rows' = [rows EXCEPT ![d] = Without(@, {job[p].row})]
        /\ holds' = [holds EXCEPT ![d] = {h \in @ : h[1] # job[p].row}]
        /\ job' = [job EXCEPT ![p].row = 0, ![p].todo = @ \ {job[p].row}]
        /\ UNCHANGED <<lock, pc, staging>>
     \/ /\ queryOnly[p]
        /\ Abort(p)
        /\ UNCHANGED dbVars
  /\ UNCHANGED <<files, damaged, connVars, opened, accidents>>

\* Mutant of WalkStart: files without a row are not looked for.
WalkSkipped(p) ==
  /\ pc[p] = "erase" /\ job[p].todo = {}
  /\ pc' = [pc EXCEPT ![p] = "walk"]
  /\ UNCHANGED <<fileVars, dbVars, lock, job, connVars, opened, accidents>>
\* The walk over artifacts/ removes what the first SELECT did not name.
WalkStart(p) ==
  /\ pc[p] = "erase" /\ job[p].todo = {}
  /\ pc' = [pc EXCEPT ![p] = "walk"]
  /\ job' = [job EXCEPT ![p].todo = DOMAIN files \ job[p].paths]
  /\ UNCHANGED <<fileVars, dbVars, lock, connVars, opened, accidents>>

\* A file that cannot be removed is kept for the next recovery.
WalkFile(p) ==
  /\ pc[p] = "walk"
  /\ \/ \E f \in job[p].todo :
          /\ files' = Without(files, {f})
          /\ job' = [job EXCEPT ![p].todo = @ \ {f}]
          /\ UNCHANGED pc
     \/ \E f \in job[p].todo \cap DOMAIN files :
          /\ "unlink" \in Faults
          /\ job' = [job EXCEPT ![p].todo = @ \ {f}, ![p].paths = @ \cup {f}]
          /\ UNCHANGED <<files, pc>>
     \/ /\ job[p].todo = {}
        /\ pc' = [pc EXCEPT ![p] = "clear"]
        /\ UNCHANGED <<files, job>>
  /\ UNCHANGED <<staging, damaged, dbVars, lock, connVars, opened, accidents>>

\* Whatever lies in .staging is left over: publishers are kept out by the lock.
\* A file that cannot be removed stays; the error is ignored.
ClearStaging(p) ==
  /\ pc[p] = "clear"
  /\ \/ staging' = {}
     \/ "unlink" \in Faults /\ staging' \in SUBSET staging
  /\ Finish(p)
  /\ UNCHANGED <<files, damaged, dbVars, connVars, opened, accidents>>

-----------------------------------------------------------------------------
(* validate_record, attach_current, release_attachment. *)

\* validate_record on the current row: present, of the recorded digest, with a
\* matching envelope.  The checks of the specification's own fields (contract,
\* completeness, trust) are constants of a producer and left out.
Usable(d, id) ==
  \E r \in Current(d, id) : rows[d][r].path \in DOMAIN files /\ files[rows[d][r].path] = "good"

Attach(p, id) ==
  /\ pc[p] = "idle"
  /\ Cardinality(attached[p]) < MaxAttached
  /\ Usable(DbOf[p], id)
  /\ \A a \in attached[p] : Name[a] # Name[id]
  /\ pc' = [pc EXCEPT ![p] = "attaching"]
  /\ job' = [job EXCEPT ![p] = [Idle EXCEPT !.path =
               rows[DbOf[p]][CHOOSE r \in Current(DbOf[p], id) : TRUE].path]]
  /\ UNCHANGED <<fileVars, dbVars, lock, connVars, opened, accidents>>

\* Mutant of AttachOpen: every attachment remembers the mode it found.
AttachRemembersLast(p) ==
  /\ pc[p] = "attaching" /\ job[p].path \in DOMAIN files
  /\ attached' = [attached EXCEPT ![p] = @ \cup {job[p].path[1]}]
  /\ before' = [before EXCEPT ![p] = queryOnly[p]]
  /\ queryOnly' = [queryOnly EXCEPT ![p] = TRUE]
  /\ pc' = [pc EXCEPT ![p] = "idle"]
  /\ job' = [job EXCEPT ![p] = Idle]
  /\ UNCHANGED <<fileVars, dbVars, lock, opened, accidents>>
\* ATTACH fails when the file went away after it was validated.  The first
\* attachment of a connection remembers its query_only mode, and every one sets it.
AttachOpen(p) ==
  /\ pc[p] = "attaching"
  /\ \/ /\ job[p].path \in DOMAIN files
        /\ attached' = [attached EXCEPT ![p] = @ \cup {job[p].path[1]}]
        /\ before' = [before EXCEPT ![p] = IF attached[p] = {} THEN queryOnly[p] ELSE @]
        /\ queryOnly' = [queryOnly EXCEPT ![p] = TRUE]
     \/ /\ job[p].path \notin DOMAIN files
        /\ UNCHANGED connVars
  /\ pc' = [pc EXCEPT ![p] = "idle"]
  /\ job' = [job EXCEPT ![p] = Idle]
  /\ UNCHANGED <<fileVars, dbVars, lock, opened, accidents>>

\* Attachments may be released in any order; the last one restores the mode.
Detach(p, id) ==
  /\ pc[p] = "idle" /\ id \in attached[p]
  /\ attached' = [attached EXCEPT ![p] = @ \ {id}]
  /\ queryOnly' = [queryOnly EXCEPT ![p] = IF attached[p] = {id} THEN before[p] ELSE @]
  /\ UNCHANGED <<fileVars, dbVars, lock, pc, job, before, opened, accidents>>

-----------------------------------------------------------------------------
(* The environment. *)

\* A process is killed: the system drops its lock, SQLite its transaction; a staged
\* file of it stays in .staging.
Crash(p) ==
  /\ accidents < MaxAccidents
  /\ staging' = Orphaned(p)
  /\ accidents' = accidents + 1
  /\ lock' = IF lock = p THEN None ELSE lock
  /\ pc' = [pc EXCEPT ![p] = "idle"]
  /\ job' = [job EXCEPT ![p] = Idle]
  /\ attached' = [attached EXCEPT ![p] = {}]
  /\ queryOnly' = [queryOnly EXCEPT ![p] = opened[p]]
  /\ before' = [before EXCEPT ![p] = opened[p]]
  /\ UNCHANGED <<files, damaged, dbVars, opened>>

\* Somebody deletes or overwrites a published file.
Damage(f) ==
  /\ accidents < MaxAccidents /\ "damage" \in Faults
  /\ accidents' = accidents + 1
  /\ files' = Without(files, {f}) \/ files' = [files EXCEPT ![f] = "bad"]
  /\ damaged' = damaged \cup {f}
  /\ UNCHANGED <<staging, dbVars, lock, pc, job, connVars, opened>>

PublisherStep(p) ==
  \/ \E id \in Ids, c \in Payloads : Publish(p, id, c)
  \/ WriterFails(p) \/ Install(p) \/ Record(p) \/ RecordFails(p) \/ PublishDone(p)
HolderStep(p) ==
  \/ \E id \in Ids : Lease(p, id)
  \/ \E t \in Tokens : LeaseInsert(p, t)
  \/ \E id \in Ids, t \in Tokens : Unlease(p, id, t)
RecoveryStep(p) ==
  \/ RecoverStart(p) \/ SweepOpen(p) \/ SweepRow(p)
  \/ \E r \in RowIds : SweepFile(p, r)
  \/ WalkStart(p) \/ WalkFile(p) \/ ClearStaging(p)
ReaderStep(p) ==
  \/ \E id \in Ids : Attach(p, id) \/ Detach(p, id)
  \/ AttachOpen(p)

Next ==
  \/ \E p \in Procs :
       PublisherStep(p) \/ HolderStep(p) \/ RecoveryStep(p) \/ ReaderStep(p) \/ Crash(p)
  \/ \E f \in DOMAIN files : Damage(f)

Spec == Init /\ [][Next]_vars

-----------------------------------------------------------------------------
(* Properties. *)

\* Recovery never deletes what is current, leased or pinned, and no row is made
\* current before its file is in place, whoever is killed at which step: every such
\* row still has its file, unless somebody damaged the file from outside.
ReferencedHasFile ==
  \A d \in Databases : \A r \in DOMAIN rows[d] :
    r \in CurrentRows(d) \/ Held(d, r) => rows[d][r].path \in DOMAIN files \cup damaged

\* publish_staged supersedes and inserts in one transaction, and recover skips
\* current rows: an artifact that was once published always has a current
\* generation, through failing publications, recoveries and kills.
CurrentNeverVanishes ==
  [][\A d \in Databases, id \in Ids : Current(d, id) # {} => Current(d, id)' # {}]_vars

\* What publications left behind when they failed or were killed is gone once a
\* recovery ends: each remaining file was current, leased or pinned when the
\* recovery began, or is one that could not be removed.  And it collects no more
\* than that: the lock keeps it from the staged file of a publication under way.
RecoveryCollects ==
  [][\A p \in Procs : pc[p] = "clear" /\ pc'[p] = "idle" /\ accidents' = accidents
       => /\ DOMAIN files \subseteq job[p].paths
          /\ \A q \in Procs : pc[q] = "staged" => q \in staging']_vars

\* Attachments nest and are released in any order; a connection without one has
\* the query_only mode it was opened with, so later writes are neither refused
\* nor let through by mistake.
QueryOnlyRestored == \A p \in Procs : attached[p] = {} => queryOnly[p] = opened[p]
=============================================================================
