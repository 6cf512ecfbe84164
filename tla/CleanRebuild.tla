---------------------------- MODULE CleanRebuild ----------------------------
(***************************************************************************)
(* Clean rebuild with verified atomic publication: run_clean_rebuild in    *)
(* src/src/application/services.cpp, clean_rebuild.cpp beside it, and       *)
(* publish_file_atomically in src/src/util/durable_publish.cpp, with other  *)
(* processes that write the serving database in place.                     *)
(*                                                                         *)
(* A database file is an inode; the index path (target) and each           *)
(* rebuilder's private candidate path name one.  A rename moves a name, and *)
(* a connection keeps the inode it opened.  A database is the set of       *)
(* catalog rows (files) it registers and the subset that is indexed; its   *)
(* sha256 is its whole content.  SQLite is external: one writer            *)
(* transaction at a time per file, a rollback journal beside the path for  *)
(* as long as it is open, and a transaction is refused on a connection     *)
(* whose file no longer has the path's name.                               *)
(***************************************************************************)
EXTENDS Naturals, FiniteSets

CONSTANTS
    Rebuilders,      \* processes that run `index rebuild --clean`, by pid
    Writers,         \* processes that write the index in place
    Files,           \* catalog rows
    Inodes,          \* bound: database files that may exist at a time
    NoFile,          \* absence of a directory entry
    MayRace,         \* whether writers act inside the publication window
    MaxAccidents,    \* bound: killed processes, losses of power
    Faults           \* failures of the steps themselves

\* busy      the serving database cannot be read or its copy migrated
\* copy      copying the serving database for migration breaks off
\* replay    the candidate cannot be created or the inputs not replayed
\* pass      the index pass is not Complete
\* pending   ... or is, with files still pending
\* discover  the pass registers a header that was not captured
\* sync      the candidate cannot be flushed
\* rename    rename(2) fails
FaultKinds == {"busy", "copy", "replay", "pass", "pending", "discover", "sync", "rename"}

\* older and wal databases are brought forward by a read-write open.
Kinds == {"older", "wal", "newer", "current", "torn"}

Databases == [kind : Kinds, files : SUBSET Files, indexed : SUBSET Files]

ASSUME RebuildAssumption ==
    /\ Inodes # {}
    /\ NoFile \notin Inodes \cup Databases
    /\ MayRace \in BOOLEAN
    /\ MaxAccidents \in Nat
    /\ Faults \subseteq FaultKinds

EmptyDb == [kind |-> "current", files |-> {}, indexed |-> {}]

VARIABLES
    target,       \* inode at the index path
    disk,         \* inode -> its database
    journal,      \* inode whose rollback journal lies beside the index path
    flushed,      \* inodes whose bytes are on stable storage
    undo,         \* what the index path named before a rename not yet synced
    \* one clean rebuild
    pc,           \* control state
    outcome,      \* none | published | refused
    had,          \* had_serving_database
    digest,       \* inputs.source_digest, or NoFile when nothing was in service
    source,       \* inode the read-only handle is on
    expected,     \* catalog the candidate is held to
    inputs,       \* captured inputs
    copy,         \* the private migration copy, or NoFile
    candidate,    \* inode at the private candidate path
    \* the in-place writers
    wpc,          \* closed | open | writing
    handle,       \* inode the connection is on
    acked,        \* rows some writer was told are committed, initial ones too
    accidents     \* accidents so far

fileVars == <<target, disk, journal, flushed, undo>>
rebuildVars == <<pc, outcome, had, digest, source, expected, inputs, copy, candidate>>
writerVars == <<wpc, handle, acked>>

vars == <<fileVars, rebuildVars, writerVars, accidents>>

RebuildStates ==
    {"check", "look", "digest", "open", "copied", "catalog", "inputs", "create", "replay",
     "pass", "verify", "gate", "sidecars", "sync", "rename", "sync_dir",
     "returned", "crashed"}

\* Every variable stays in the set its counterpart ranges over.
TypeOK ==
    /\ target \in Inodes \cup {NoFile}
    /\ disk \in [Inodes -> Databases]
    /\ journal \in Inodes \cup {NoFile}
    /\ flushed \subseteq Inodes
    /\ undo \in Inodes \cup {NoFile}
    /\ pc \in [Rebuilders -> RebuildStates]
    /\ outcome \in [Rebuilders -> {"none", "published", "refused"}]
    /\ had \in [Rebuilders -> BOOLEAN]
    /\ digest \in [Rebuilders -> Databases \cup {NoFile}]
    /\ source \in [Rebuilders -> Inodes \cup {NoFile}]
    /\ expected \in [Rebuilders -> (SUBSET Files) \cup {NoFile}]
    /\ inputs \in [Rebuilders -> SUBSET Files]
    /\ copy \in [Rebuilders -> Databases \cup {NoFile}]
    /\ candidate \in [Rebuilders -> Inodes \cup {NoFile}]
    /\ wpc \in [Writers -> {"closed", "open", "writing"}]
    /\ handle \in [Writers -> Inodes \cup {NoFile}]
    /\ acked \subseteq Files
    /\ accidents \in 0 .. MaxAccidents

\* Nothing in service yet, or one whole database of any age.
Init ==
    /\ \E db \in [kind : Kinds \ {"torn"}, files : SUBSET Files, indexed : {{}}] :
          LET first == CHOOSE i \in Inodes : TRUE IN
          /\ target \in {first, NoFile}
          /\ target = NoFile => db = EmptyDb
          /\ disk = [i \in Inodes |-> IF i = first THEN db ELSE EmptyDb]
          /\ acked = db.files
          /\ flushed = {first}
    /\ journal = NoFile
    /\ undo = NoFile
    /\ pc = [r \in Rebuilders |-> "check"]
    /\ outcome = [r \in Rebuilders |-> "none"]
    /\ had = [r \in Rebuilders |-> FALSE]
    /\ digest = [r \in Rebuilders |-> NoFile]
    /\ source = [r \in Rebuilders |-> NoFile]
    /\ expected = [r \in Rebuilders |-> NoFile]
    /\ inputs = [r \in Rebuilders |-> {}]
    /\ copy = [r \in Rebuilders |-> NoFile]
    /\ candidate = [r \in Rebuilders |-> NoFile]
    /\ wpc = [w \in Writers |-> "closed"]
    /\ handle = [w \in Writers |-> NoFile]
    /\ accidents = 0

-----------------------------------------------------------------------------
(***************************************************************************)
(* One clean rebuild.                                                      *)
(***************************************************************************)

Goto(r, state) == pc' = [pc EXCEPT ![r] = state]

\* Mutant of Refuse: the guard was released before the refusal.
RefuseUnguarded(r) ==
    /\ Goto(r, "returned")
    /\ outcome' = [outcome EXCEPT ![r] = "refused"]
    /\ copy' = [copy EXCEPT ![r] = NoFile]
    /\ UNCHANGED candidate

\* run_clean_rebuild returns without having published: CandidateGuard removes
\* the candidate, and MigrationCopy has removed the copy.
Refuse(r) ==
    /\ Goto(r, "returned")
    /\ outcome' = [outcome EXCEPT ![r] = "refused"]
    /\ candidate' = [candidate EXCEPT ![r] = NoFile]
    /\ copy' = [copy EXCEPT ![r] = NoFile]

\* Inodes that no name and no connection refers to.
FreeInodes ==
    Inodes \ ({target, journal, undo} \cup {candidate[r] : r \in Rebuilders}
              \cup {source[r] : r \in Rebuilders} \cup {handle[w] : w \in Writers})

NewInode == CHOOSE i \in FreeInodes : TRUE

\* What a process finds at the index path.
InService == IF target = NoFile THEN "absent" ELSE disk[target].kind

\* clean_rebuild_source_refusal: a sidecar, WAL, an unreadable database or one
\* of a newer schema is no source.
SourceRefused ==
    /\ target # NoFile
    /\ journal # NoFile \/ InService \in {"wal", "newer", "torn"}

CheckSource(r) ==
    /\ pc[r] = "check"
    /\ IF SourceRefused
       THEN Refuse(r)
       ELSE Goto(r, "look") /\ UNCHANGED <<outcome, candidate, copy>>
    /\ UNCHANGED <<fileVars, had, digest, source, expected, inputs, writerVars, accidents>>

LookForDatabase(r) ==
    /\ pc[r] = "look"
    /\ had' = [had EXCEPT ![r] = target # NoFile]
    /\ Goto(r, "digest")
    /\ UNCHANGED <<fileVars, outcome, digest, source, expected, inputs, copy, candidate,
                   writerVars, accidents>>

\* Mutant of TakeDigest: the file is remembered by its identity, not by its
\* content.
TakeInode(r) ==
    /\ pc[r] = "digest"
    /\ digest' = [digest EXCEPT ![r] = target]
    /\ Goto(r, IF target = NoFile THEN "create" ELSE "open")
    /\ UNCHANGED <<fileVars, outcome, had, source, expected, inputs, copy, candidate,
                   writerVars, accidents>>

\* capture_clean_rebuild_inputs looks again, and takes the digest before it
\* opens anything.
TakeDigest(r) ==
    /\ pc[r] = "digest"
    /\ digest' = [digest EXCEPT ![r] = IF target = NoFile THEN NoFile ELSE disk[target]]
    /\ Goto(r, IF target = NoFile THEN "create" ELSE "open")
    /\ UNCHANGED <<fileVars, outcome, had, source, expected, inputs, copy, candidate,
                   writerVars, accidents>>

\* An older database is copied for migration; a current one is opened
\* read-only.  Anything else cannot be read, and capture throws.  It also
\* throws when copy_file breaks off, before MigrationCopy owns what the copy
\* has left at its path.
OpenSource(r) ==
    /\ pc[r] = "open"
    /\ \/ /\ InService = "older"
          /\ copy' = [copy EXCEPT ![r] = disk[target]]
          /\ Goto(r, "copied")
          /\ UNCHANGED <<outcome, source, candidate>>
       \/ /\ InService = "current"
          /\ source' = [source EXCEPT ![r] = target]
          /\ Goto(r, "catalog")
          /\ UNCHANGED <<outcome, copy, candidate>>
       \/ /\ "copy" \in Faults /\ InService = "older"
          /\ copy' = [copy EXCEPT ![r] = [disk[target] EXCEPT !.kind = "torn"]]
          /\ outcome' = [outcome EXCEPT ![r] = "refused"]
          /\ Goto(r, "returned")
          /\ UNCHANGED <<source, candidate>>
       \/ /\ "busy" \in Faults \/ InService \notin {"older", "current"}
          /\ Refuse(r)
          /\ UNCHANGED source
    /\ UNCHANGED <<fileVars, had, digest, expected, inputs, writerVars, accidents>>

\* The copy is migrated and read; the serving file is not opened for writing.
ReadCopy(r) ==
    /\ pc[r] = "copied"
    /\ \/ /\ expected' = [expected EXCEPT ![r] = copy[r].files]
          /\ inputs' = [inputs EXCEPT ![r] = copy[r].files]
          /\ copy' = [copy EXCEPT ![r] = NoFile]
          /\ Goto(r, "create")
          /\ UNCHANGED <<outcome, candidate>>
       \/ /\ "busy" \in Faults
          /\ Refuse(r)
          /\ UNCHANGED <<expected, inputs>>
    /\ UNCHANGED <<fileVars, had, digest, source, writerVars, accidents>>

\* read_database_catalog_identity opens the path once more.
ReadCatalog(r) ==
    /\ pc[r] = "catalog"
    /\ \/ /\ target # NoFile
          /\ expected' = [expected EXCEPT ![r] = disk[target].files]
          /\ Goto(r, "inputs")
          /\ UNCHANGED <<outcome, copy, candidate, source>>
       \/ /\ "busy" \in Faults \/ target = NoFile
          /\ Refuse(r)
          /\ source' = [source EXCEPT ![r] = NoFile]
          /\ UNCHANGED expected
    /\ UNCHANGED <<fileVars, had, digest, inputs, writerVars, accidents>>

\* The repositories, components, labels and files are listed through the
\* read-only handle.
ReadInputs(r) ==
    /\ pc[r] = "inputs"
    /\ inputs' = [inputs EXCEPT ![r] = disk[source[r]].files]
    /\ source' = [source EXCEPT ![r] = NoFile]
    /\ Goto(r, "create")
    /\ UNCHANGED <<fileVars, outcome, had, digest, expected, copy, candidate, writerVars,
                   accidents>>

\* A leftover at the candidate path is removed and a new database created.
CreateCandidate(r) ==
    /\ pc[r] = "create"
    /\ FreeInodes # {}
    /\ candidate' = [candidate EXCEPT ![r] = NewInode]
    /\ disk' = [disk EXCEPT ![NewInode] = EmptyDb]
    /\ flushed' = flushed \ {NewInode}
    /\ Goto(r, "replay")
    /\ UNCHANGED <<target, journal, undo, outcome, had, digest, source, expected, inputs,
                   copy, writerVars, accidents>>

\* replay_clean_rebuild_inputs.  When nothing was in service, the candidate is
\* held to its own replayed catalog.
ReplayInputs(r) ==
    /\ pc[r] = "replay"
    /\ \/ /\ disk' = [disk EXCEPT ![candidate[r]].files = inputs[r]]
          /\ expected' = [expected EXCEPT ![r] = IF had[r] THEN @ ELSE inputs[r]]
          /\ Goto(r, "pass")
          /\ UNCHANGED <<outcome, copy, candidate>>
       \/ /\ "replay" \in Faults
          /\ Refuse(r)
          /\ UNCHANGED <<disk, expected>>
    /\ UNCHANGED <<target, journal, flushed, undo, had, digest, source, inputs, writerVars,
                   accidents>>

\* run_index_pass on the candidate.  A pass that is not Complete ends the run.
IndexCandidate(r) ==
    /\ pc[r] = "pass"
    /\ \/ \E found \in {{}} \cup {{f} : f \in Files}, pending \in SUBSET inputs[r] :
             /\ found # {} => "discover" \in Faults
             /\ pending # {} => "pending" \in Faults
             /\ disk' = [disk EXCEPT ![candidate[r]].files = @ \cup found,
                                     ![candidate[r]].indexed = inputs[r] \ pending]
             /\ Goto(r, "verify")
             /\ UNCHANGED <<outcome, copy, candidate>>
       \/ /\ "pass" \in Faults
          /\ Refuse(r)
          /\ UNCHANGED disk
    /\ UNCHANGED <<target, journal, flushed, undo, had, digest, source, expected, inputs,
                   writerVars, accidents>>

\* Mutant of Verified: files that are still pending are let through.
VerifiedIncomplete(r) ==
    LET db == disk[candidate[r]] IN
    /\ db.kind = "current"
    /\ db.files = expected[r]

\* verify_clean_rebuild_candidate: whole, current, the captured catalog, and
\* nothing pending.
Verified(r) ==
    LET db == disk[candidate[r]] IN
    /\ db.kind = "current"
    /\ db.files = expected[r]
    /\ db.indexed = db.files

Verify(r) ==
    /\ pc[r] = "verify"
    /\ IF Verified(r)
       THEN Goto(r, "gate") /\ UNCHANGED <<outcome, copy, candidate>>
       ELSE Refuse(r)
    /\ UNCHANGED <<fileVars, had, digest, source, expected, inputs, writerVars, accidents>>

\* publish_clean_rebuild_candidate: the database in service is still the one
\* that was captured, or still absent.
SourceUnchanged(r) ==
    IF target = NoFile THEN digest[r] = NoFile ELSE digest[r] = disk[target]

CheckDigest(r) ==
    /\ pc[r] = "gate"
    /\ IF SourceUnchanged(r)
       THEN Goto(r, "sidecars") /\ UNCHANGED <<outcome, copy, candidate>>
       ELSE Refuse(r)
    /\ UNCHANGED <<fileVars, had, digest, source, expected, inputs, writerVars, accidents>>

\* Mutant of CheckSidecars: the sidecars are not looked for.
SidecarsIgnored(r) ==
    /\ pc[r] = "sidecars"
    /\ Goto(r, "sync")
    /\ UNCHANGED <<fileVars, outcome, had, digest, source, expected, inputs, copy, candidate,
                   writerVars, accidents>>

\* ... and no sidecar lies beside it.
CheckSidecars(r) ==
    /\ pc[r] = "sidecars"
    /\ IF journal = NoFile
       THEN Goto(r, "sync") /\ UNCHANGED <<outcome, copy, candidate>>
       ELSE Refuse(r)
    /\ UNCHANGED <<fileVars, had, digest, source, expected, inputs, writerVars, accidents>>

\* Mutant of SyncCandidate: fsync's result is ignored.
SyncUnchecked(r) ==
    /\ pc[r] = "sync"
    /\ flushed' \in {flushed, flushed \cup {candidate[r]}}
    /\ Goto(r, "rename")
    /\ UNCHANGED <<target, disk, journal, undo, outcome, had, digest, source, expected, inputs,
                   copy, candidate, writerVars, accidents>>

\* publish_file_atomically: durability before visibility.
SyncCandidate(r) ==
    /\ pc[r] = "sync"
    /\ \/ /\ flushed' = flushed \cup {candidate[r]}
          /\ Goto(r, "rename")
          /\ UNCHANGED <<outcome, copy, candidate>>
       \/ /\ "sync" \in Faults
          /\ Refuse(r)
          /\ UNCHANGED flushed
    /\ UNCHANGED <<target, disk, journal, undo, had, digest, source, expected, inputs,
                   writerVars, accidents>>

\* rename(2).
Rename(r) ==
    /\ pc[r] = "rename"
    /\ \/ /\ target' = candidate[r]
          /\ undo' = target
          /\ candidate' = [candidate EXCEPT ![r] = NoFile]
          /\ Goto(r, "sync_dir")
          /\ UNCHANGED <<outcome, copy>>
       \/ /\ "rename" \in Faults
          /\ Refuse(r)
          /\ UNCHANGED <<target, undo>>
    /\ UNCHANGED <<disk, journal, flushed, had, digest, source, expected, inputs, writerVars,
                   accidents>>

\* The directory is flushed if the file system can, and the guard released.
SyncDirectory(r) ==
    /\ pc[r] = "sync_dir"
    /\ undo' \in {NoFile, undo}
    /\ Goto(r, "returned")
    /\ outcome' = [outcome EXCEPT ![r] = "published"]
    /\ UNCHANGED <<target, disk, journal, flushed, had, digest, source, expected, inputs,
                   copy, candidate, writerVars, accidents>>

RebuildStep(r) ==
    \/ CheckSource(r)
    \/ LookForDatabase(r)
    \/ TakeDigest(r)
    \/ OpenSource(r)
    \/ ReadCopy(r)
    \/ ReadCatalog(r)
    \/ ReadInputs(r)
    \/ CreateCandidate(r)
    \/ ReplayInputs(r)
    \/ IndexCandidate(r)
    \/ Verify(r)
    \/ CheckDigest(r)
    \/ CheckSidecars(r)
    \/ SyncCandidate(r)
    \/ Rename(r)
    \/ SyncDirectory(r)

-----------------------------------------------------------------------------
(***************************************************************************)
(* The in-place writers: Storage in read-write mode, over SQLite.          *)
(***************************************************************************)

\* Some rebuild has taken its last look at the serving database and has not
\* yet replaced it.
WindowOpen == \E r \in Rebuilders : pc[r] \in {"sidecars", "sync", "rename"}

Undisturbed == MayRace \/ ~WindowOpen

\* A writer is inside a transaction on the file.
Locked(i) == \E w \in Writers : wpc[w] = "writing" /\ handle[w] = i

\* A journal beside the path whose file nobody has locked is hot: the next
\* open rolls it back into the file that now has the path's name.
RolledBack(db) ==
    IF journal \in {NoFile, target} \/ Locked(target) THEN db ELSE [db EXCEPT !.kind = "torn"]

\* A read-write open: creates the database, or brings it forward in a
\* transaction of its own.  A newer database is refused.
OpenInPlace(w) ==
    /\ wpc[w] = "closed"
    /\ Undisturbed
    /\ IF target = NoFile
       THEN /\ FreeInodes # {}
            /\ target' = NewInode
            /\ disk' = [disk EXCEPT ![NewInode] = EmptyDb]
            /\ flushed' = flushed \cup {NewInode}
            /\ handle' = [handle EXCEPT ![w] = NewInode]
            /\ UNCHANGED <<journal, undo>>
       ELSE /\ disk[target].kind \in {"older", "wal", "current"}
            /\ ~Locked(target)
            /\ disk' = [disk EXCEPT ![target] = RolledBack([@ EXCEPT !.kind = "current"])]
            /\ journal' = NoFile
            /\ handle' = [handle EXCEPT ![w] = target]
            /\ undo' = IF disk[target].kind = "current" /\ journal = NoFile THEN undo ELSE NoFile
            /\ UNCHANGED <<target, flushed>>
    /\ wpc' = [wpc EXCEPT ![w] = "open"]
    /\ UNCHANGED <<rebuildVars, acked, accidents>>

\* BEGIN and the first write: the journal is created beside the path and the
\* directory synced, unless the connection's file has lost its name.
BeginWrite(w) ==
    /\ wpc[w] = "open"
    /\ Undisturbed
    /\ ~Locked(handle[w])
    /\ IF handle[w] = target
       THEN /\ wpc' = [wpc EXCEPT ![w] = "writing"]
            /\ journal' = handle[w]
            /\ undo' = NoFile
            /\ UNCHANGED handle
       ELSE /\ wpc' = [wpc EXCEPT ![w] = "closed"]
            /\ handle' = [handle EXCEPT ![w] = NoFile]
            /\ UNCHANGED <<journal, undo>>
    /\ UNCHANGED <<target, disk, flushed, rebuildVars, acked, accidents>>

\* COMMIT: the rows are in the connection's file and the journal is deleted.
CommitWrite(w) ==
    /\ wpc[w] = "writing"
    /\ Undisturbed
    /\ \E f \in Files \ disk[handle[w]].files :
          /\ disk' = [disk EXCEPT ![handle[w]].files = @ \cup {f}]
          /\ acked' = acked \cup {f}
    /\ journal' = NoFile
    /\ wpc' = [wpc EXCEPT ![w] = "open"]
    /\ UNCHANGED <<target, flushed, undo, rebuildVars, handle, accidents>>

CloseInPlace(w) ==
    /\ wpc[w] # "closed"
    /\ wpc' = [wpc EXCEPT ![w] = "closed"]
    /\ handle' = [handle EXCEPT ![w] = NoFile]
    /\ journal' = IF wpc[w] = "writing" THEN NoFile ELSE journal
    /\ UNCHANGED <<target, disk, flushed, undo, rebuildVars, acked, accidents>>

WriterStep(w) == OpenInPlace(w) \/ BeginWrite(w) \/ CommitWrite(w) \/ CloseInPlace(w)

-----------------------------------------------------------------------------
(***************************************************************************)
(* Accidents.                                                              *)
(***************************************************************************)
Accident == accidents < MaxAccidents /\ accidents' = accidents + 1

\* A rebuild is killed: what it left on disk stays there.
KillRebuild(r) ==
    /\ Accident
    /\ pc[r] \notin {"returned", "crashed"}
    /\ Goto(r, "crashed")
    /\ source' = [source EXCEPT ![r] = NoFile]
    /\ UNCHANGED <<fileVars, outcome, had, digest, expected, inputs, copy, candidate, writerVars>>

\* A writer is killed, inside a transaction or between two.
KillWriter(w) ==
    /\ Accident
    /\ wpc[w] # "closed"
    /\ wpc' = [wpc EXCEPT ![w] = "closed"]
    /\ handle' = [handle EXCEPT ![w] = NoFile]
    /\ UNCHANGED <<fileVars, rebuildVars, acked>>

\* Power is lost: every process ends, bytes that were not flushed are lost,
\* and a rename whose directory was not synced may be undone.
LosePower ==
    /\ Accident
    /\ pc' = [r \in Rebuilders |-> IF pc[r] = "returned" THEN "returned" ELSE "crashed"]
    /\ source' = [r \in Rebuilders |-> NoFile]
    /\ wpc' = [w \in Writers |-> "closed"]
    /\ handle' = [w \in Writers |-> NoFile]
    /\ disk' = [i \in Inodes |-> IF i \in flushed THEN disk[i] ELSE [disk[i] EXCEPT !.kind = "torn"]]
    /\ target' \in {target} \cup ({undo} \ {NoFile})
    /\ undo' = NoFile
    /\ UNCHANGED <<journal, flushed, outcome, had, digest, expected, inputs, copy, candidate, acked>>

\* Every rebuild has returned and every writer closed its connection.
Quiet ==
    /\ \A r \in Rebuilders : pc[r] \in {"returned", "crashed"}
    /\ \A w \in Writers : wpc[w] = "closed"
    /\ UNCHANGED vars

Next ==
    \/ \E r \in Rebuilders : RebuildStep(r) \/ KillRebuild(r)
    \/ \E w \in Writers : WriterStep(w) \/ KillWriter(w)
    \/ LosePower
    \/ Quiet

Spec == Init /\ [][Next]_vars

-----------------------------------------------------------------------------
(***************************************************************************)
(* Properties.                                                             *)
(***************************************************************************)

\* No row whose commit was acknowledged is lost: publication never replaces a
\* database that another process wrote after it was captured.
NoWriteLost == target # NoFile => acked \subseteq disk[target].files

\* Whoever opens the index path finds a whole database, at every instant and
\* after every crash and loss of power.
TargetWhole == target # NoFile => disk[target].kind # "torn"

\* Only a verified candidate is published: at the current schema, every row
\* indexed, and no row of the database it replaces missing.
OnlyVerifiedPublished ==
    [][\A r \in Rebuilders : pc[r] = "rename" /\ pc'[r] = "sync_dir" =>
          /\ disk[target'].kind = "current"
          /\ disk[target'].indexed = disk[target'].files
          /\ target # NoFile => disk[target'].files = disk[target].files]_vars

\* A rebuild that returned, published or not, left no candidate behind, and no
\* migration copy but one that broke off: MigrationCopy takes the copy over
\* only once copy_file has succeeded.
NothingLeftBehind ==
    \A r \in Rebuilders : pc[r] = "returned" =>
        /\ candidate[r] = NoFile
        /\ copy[r] # NoFile => copy[r].kind = "torn" /\ outcome[r] = "refused"

=============================================================================
