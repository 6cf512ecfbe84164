------------------------- MODULE CleanRebuildProofs -------------------------
(***************************************************************************)
(* Proofs about CleanRebuild, for every number of rebuilders, writers,     *)
(* catalog rows, inodes and accidents.                                     *)
(***************************************************************************)
EXTENDS CleanRebuild, TLAPS

-----------------------------------------------------------------------------
(***************************************************************************)
(* The inductive invariant that holds whatever the writers do.             *)
(***************************************************************************)

\* Control states by what a rebuild has in its hands.
Holding == {"replay", "pass", "verify", "gate", "sidecars", "sync", "rename"}
Reading == {"catalog", "inputs"}
Window == {"sidecars", "sync", "rename"}

\* The working files of a rebuild are there while it needs them, and gone when
\* it does not, but for a migration copy that broke off.
Placed(r) ==
  /\ pc[r] \in Holding => candidate[r] \in Inodes
  /\ pc[r] \notin Holding \cup {"crashed"} => candidate[r] = NoFile
  /\ pc[r] = "copied" => copy[r] \in Databases
  /\ pc[r] \notin {"copied", "returned", "crashed"} => copy[r] = NoFile
  /\ pc[r] = "returned" /\ copy[r] # NoFile => copy[r].kind = "torn" /\ outcome[r] = "refused"
  /\ pc[r] \in Reading => source[r] \in Inodes

\* Nobody else refers to a candidate.
Apart(r) ==
  candidate[r] # NoFile =>
    /\ candidate[r] \notin {target, journal, undo}
    /\ \A q \in Rebuilders : source[q] # candidate[r]
    /\ \A q \in Rebuilders \ {r} : candidate[q] # candidate[r]
    /\ \A w \in Writers : handle[w] # candidate[r]

Connected(w) == wpc[w] # "closed" => handle[w] \in Inodes

IInv ==
  /\ TypeOK
  /\ \A r \in Rebuilders : Placed(r) /\ Apart(r)
  /\ \A w \in Writers : Connected(w)

-----------------------------------------------------------------------------
(***************************************************************************)
(* What is added when writers stay out of the publication window.          *)
(***************************************************************************)

\* The rows of the database in service; none when there is none.
Rows == IF target = NoFile THEN {} ELSE disk[target].files

\* A journal belongs to the database in service, a transaction has the only
\* one, and no rename waits for its directory beside it.
Journaled ==
  /\ journal \in {NoFile, target}
  /\ journal # NoFile => undo = NoFile
  /\ \A w \in Writers : wpc[w] = "writing" => handle[w] = target /\ journal = target
  /\ \A v, w \in Writers : wpc[v] = "writing" /\ wpc[w] = "writing" => v = w
  /\ \A r \in Rebuilders : pc[r] \in {"sync", "rename"} => journal = NoFile

\* A loss of power cannot harm a database that is in service or may be again.
Whole ==
  /\ target # NoFile => target \in flushed /\ disk[target].kind # "torn"
  /\ undo # NoFile => undo \in flushed /\ disk[undo].kind # "torn"

\* Neither of them lacks an acknowledged row.
Kept ==
  /\ acked \subseteq Rows
  /\ undo # NoFile => acked \subseteq disk[undo].files

\* A verified candidate stays as it was verified.
Ready(r) ==
  /\ pc[r] \in {"gate"} \cup Window =>
       /\ disk[candidate[r]].kind = "current"
       /\ disk[candidate[r]].indexed = disk[candidate[r]].files
       /\ disk[candidate[r]].files = expected[r]
  /\ pc[r] = "rename" => candidate[r] \in flushed

\* The rows of the database that was captured.
DigestRows(r) == IF digest[r] = NoFile THEN {} ELSE digest[r].files

\* Rows read after the digest was taken: the database in service only grows.
Since(r, S) == DigestRows(r) \subseteq S /\ S \subseteq Rows

Captured(r) ==
  /\ had[r] => target # NoFile
  /\ pc[r] \in {"check", "look", "digest"} => inputs[r] = {}
  /\ pc[r] = "open" => DigestRows(r) \subseteq Rows
  /\ pc[r] = "copied" => Since(r, copy[r].files)
  /\ pc[r] \in Reading => Since(r, disk[source[r]].files)
  /\ pc[r] = "inputs" => Since(r, expected[r])
  /\ pc[r] \in {"create", "replay", "pass", "verify", "gate"} => Since(r, inputs[r])
  /\ pc[r] \in {"create", "replay"} /\ had[r] => Since(r, expected[r])
  /\ pc[r] \in {"pass", "verify", "gate"} => Since(r, expected[r])
  /\ pc[r] \in Window => disk[candidate[r]].files = Rows

PInv ==
  /\ Journaled /\ Whole /\ Kept
  /\ \A r \in Rebuilders : Ready(r) /\ Captured(r)


-----------------------------------------------------------------------------
(***************************************************************************)
(* Operators and types.                                                    *)
(***************************************************************************)

\* A new file takes an inode that no name and no connection refers to.
LEMMA NewIsFree ==
    ASSUME FreeInodes # {}
    PROVE  /\ NewInode \in Inodes
           /\ NewInode \notin {target, journal, undo}
           /\ \A r \in Rebuilders : candidate[r] # NewInode /\ source[r] # NewInode
           /\ \A w \in Writers : handle[w] # NewInode
  <1>1. NewInode \in FreeInodes
    BY DEF NewInode
  <1>2. QED
    BY <1>1 DEF FreeInodes

\* Returning without having published keeps the types.
LEMMA RefuseTypes ==
    ASSUME TypeOK, NEW r \in Rebuilders, Refuse(r)
    PROVE  /\ pc' \in [Rebuilders -> RebuildStates]
           /\ outcome' \in [Rebuilders -> {"none", "published", "refused"}]
           /\ copy' \in [Rebuilders -> Databases \cup {NoFile}]
           /\ candidate' \in [Rebuilders -> Inodes \cup {NoFile}]
           /\ pc'[r] = "returned" /\ copy'[r] = NoFile /\ candidate'[r] = NoFile
           /\ pc' = [pc EXCEPT ![r] = "returned"]
           /\ candidate' = [candidate EXCEPT ![r] = NoFile]
           /\ copy' = [copy EXCEPT ![r] = NoFile]
  BY DEF TypeOK, Refuse, Goto, RebuildStates

\* A rebuild leaves the control state and the local values of another alone.
Aside(r) ==
  \A q \in Rebuilders \ {r} :
    /\ outcome'[q] = outcome[q]
    /\ pc'[q] = pc[q] /\ candidate'[q] = candidate[q] /\ copy'[q] = copy[q]
    /\ source'[q] = source[q] /\ had'[q] = had[q] /\ digest'[q] = digest[q]
    /\ expected'[q] = expected[q] /\ inputs'[q] = inputs[q]

\* A step of one rebuild leaves the locals of every other alone.
LEMMA OthersStandAside ==
    ASSUME TypeOK, NEW r \in Rebuilders, RebuildStep(r) \/ KillRebuild(r)
    PROVE  Aside(r)
  <1> USE DEF TypeOK, Aside, Goto, Refuse
  <1>1. CASE CheckSource(r)
    BY <1>1 DEF CheckSource
  <1>2. CASE LookForDatabase(r)
    BY <1>2 DEF LookForDatabase
  <1>3. CASE TakeDigest(r)
    BY <1>3 DEF TakeDigest
  <1>4. CASE OpenSource(r)
    BY <1>4 DEF OpenSource
  <1>5. CASE ReadCopy(r)
    BY <1>5 DEF ReadCopy
  <1>6. CASE ReadCatalog(r)
    BY <1>6 DEF ReadCatalog
  <1>7. CASE ReadInputs(r)
    BY <1>7 DEF ReadInputs
  <1>8. CASE CreateCandidate(r)
    BY <1>8 DEF CreateCandidate
  <1>9. CASE ReplayInputs(r)
    BY <1>9 DEF ReplayInputs
  <1>10. CASE IndexCandidate(r)
    BY <1>10 DEF IndexCandidate
  <1>11. CASE Verify(r)
    BY <1>11 DEF Verify
  <1>12. CASE CheckDigest(r)
    BY <1>12 DEF CheckDigest
  <1>13. CASE CheckSidecars(r)
    BY <1>13 DEF CheckSidecars
  <1>14. CASE SyncCandidate(r)
    BY <1>14 DEF SyncCandidate
  <1>15. CASE Rename(r)
    BY <1>15 DEF Rename
  <1>16. CASE SyncDirectory(r)
    BY <1>16 DEF SyncDirectory
  <1>17. CASE KillRebuild(r)
    BY <1>17 DEF KillRebuild
  <1>18. QED
    BY <1>1, <1>2, <1>3, <1>4, <1>5, <1>6, <1>7, <1>8, <1>9, <1>10, <1>11, <1>12, <1>13,
       <1>14, <1>15, <1>16, <1>17 DEF RebuildStep

\* A step of one rebuild that renames nothing keeps every working file apart.
LEMMA LocalStep ==
    ASSUME IInv, NEW r \in Rebuilders, Aside(r), TypeOK', Placed(r)',
           UNCHANGED <<target, journal, undo, wpc, handle>>,
           candidate'[r] \in {candidate[r], NoFile},
           source'[r] \in {source[r], target, NoFile}
    PROVE  IInv'
  <1>1. \A w \in Writers : Connected(w)'
    BY DEF IInv, Connected
  <1>2. ASSUME NEW q \in Rebuilders PROVE Placed(q)'
    <2>1. CASE q = r
      BY <2>1
    <2>2. CASE q # r
      BY <2>2, <1>2 DEF IInv, Placed, Aside
    <2>3. QED
      BY <2>1, <2>2
  <1>3. ASSUME NEW q \in Rebuilders PROVE Apart(q)'
    <2>1. SUFFICES ASSUME candidate'[q] # NoFile
                   PROVE  /\ candidate'[q] \notin {target, journal, undo}
                          /\ \A p \in Rebuilders : source'[p] # candidate'[q]
                          /\ \A p \in Rebuilders \ {q} : candidate'[p] # candidate'[q]
                          /\ \A w \in Writers : handle[w] # candidate'[q]
      BY DEF Apart
    <2>2. candidate'[q] = candidate[q]
      BY <2>1 DEF Aside
    <2>3. Apart(q)
      BY DEF IInv
    <2>4. \A p \in Rebuilders : source'[p] \in {source[p], target, NoFile}
      BY DEF Aside
    <2>5. \A p \in Rebuilders : candidate'[p] \in {candidate[p], NoFile}
      BY DEF Aside
    <2>6. QED
      BY <2>1, <2>2, <2>3, <2>4, <2>5 DEF Apart
  <1>4. QED
    BY <1>1, <1>2, <1>3 DEF IInv

-----------------------------------------------------------------------------
(***************************************************************************)
(* Every step keeps IInv.                                                  *)
(***************************************************************************)

\* The steps that only read, up to the creation of the candidate.
LEMMA CaptureKeeps ==
    ASSUME IInv, NEW r \in Rebuilders,
           \/ CheckSource(r) \/ LookForDatabase(r) \/ TakeDigest(r) \/ OpenSource(r)
           \/ ReadCopy(r) \/ ReadCatalog(r) \/ ReadInputs(r)
    PROVE  IInv'
  <1> USE RebuildAssumption
  <1>1. Aside(r)
    BY OthersStandAside DEF IInv, RebuildStep
  <1>2. Placed(r)
    BY DEF IInv
  <1>3. CASE CheckSource(r)
    <2>1. CASE SourceRefused
      <3>1. Refuse(r)
        BY <2>1, <1>3 DEF CheckSource
      <3>2. TypeOK' /\ Placed(r)'
        BY <1>3, <3>1, RefuseTypes DEF CheckSource, IInv, TypeOK, fileVars, writerVars,
             Placed, Holding, Reading
      <3>3. QED
        BY <1>1, <1>3, <3>1, <3>2, RefuseTypes, LocalStep DEF CheckSource, IInv, fileVars,
             writerVars
    <2>2. CASE ~SourceRefused
      <3>1. TypeOK' /\ Placed(r)'
        BY <1>2, <1>3, <2>2 DEF CheckSource, IInv, TypeOK, fileVars, writerVars, Placed,
             Holding, Reading, Goto, RebuildStates
      <3>2. QED
        BY <1>1, <1>3, <2>2, <3>1, LocalStep DEF CheckSource, fileVars, writerVars
    <2>3. QED
      BY <2>1, <2>2
  <1>4. CASE LookForDatabase(r)
    <2>1. (target # NoFile) \in BOOLEAN
      OBVIOUS
    <2>2. had' \in [Rebuilders -> BOOLEAN]
      BY <1>4, <2>1 DEF LookForDatabase, IInv, TypeOK
    <2>3. TypeOK' /\ Placed(r)'
      BY <1>2, <1>4, <2>2 DEF LookForDatabase, IInv, TypeOK, fileVars, writerVars, Placed,
           Holding, Reading, Goto, RebuildStates
    <2>4. QED
      BY <1>1, <1>4, <2>3, LocalStep DEF LookForDatabase, fileVars, writerVars
  <1>5. CASE TakeDigest(r)
    <2>1. digest' \in [Rebuilders -> Databases \cup {NoFile}]
      BY <1>5 DEF TakeDigest, IInv, TypeOK
    <2>2. TypeOK' /\ Placed(r)'
      BY <1>2, <1>5, <2>1 DEF TakeDigest, IInv, TypeOK, fileVars, writerVars, Placed,
           Holding, Reading, Goto, RebuildStates
    <2>3. QED
      BY <1>1, <1>5, <2>2, LocalStep DEF TakeDigest, fileVars, writerVars
  <1>6. CASE OpenSource(r)
    <2>1. CASE /\ InService = "older"
               /\ copy' = [copy EXCEPT ![r] = disk[target]]
               /\ Goto(r, "copied")
               /\ UNCHANGED <<outcome, source, candidate>>
      <3>1. target \in Inodes
        BY <2>1 DEF InService, IInv, TypeOK
      <3>2. TypeOK' /\ Placed(r)'
        BY <1>2, <1>6, <2>1, <3>1 DEF OpenSource, IInv, TypeOK, fileVars, writerVars, Placed,
             Holding, Reading, Goto, RebuildStates
      <3>3. QED
        BY <1>1, <1>6, <2>1, <3>2, LocalStep DEF OpenSource, fileVars, writerVars
    <2>2. CASE /\ InService = "current"
               /\ source' = [source EXCEPT ![r] = target]
               /\ Goto(r, "catalog")
               /\ UNCHANGED <<outcome, copy, candidate>>
      <3>1. target \in Inodes
        BY <2>2 DEF InService, IInv, TypeOK
      <3>2. TypeOK' /\ Placed(r)'
        BY <1>2, <1>6, <2>2, <3>1 DEF OpenSource, IInv, TypeOK, fileVars, writerVars, Placed,
             Holding, Reading, Goto, RebuildStates
      <3>3. source'[r] = target
        BY <2>2 DEF IInv, TypeOK
      <3>4. QED
        BY <1>1, <1>6, <2>2, <3>2, <3>3, LocalStep DEF OpenSource, fileVars, writerVars
    <2>3. CASE Refuse(r) /\ UNCHANGED source
      <3>1. TypeOK' /\ Placed(r)'
        BY <1>6, <2>3, RefuseTypes DEF OpenSource, IInv, TypeOK, fileVars, writerVars,
             Placed, Holding, Reading
      <3>2. QED
        BY <1>1, <1>6, <2>3, <3>1, RefuseTypes, LocalStep DEF OpenSource, IInv, fileVars,
             writerVars
    <2>4. CASE /\ InService = "older"
               /\ copy' = [copy EXCEPT ![r] = [disk[target] EXCEPT !.kind = "torn"]]
               /\ outcome' = [outcome EXCEPT ![r] = "refused"]
               /\ Goto(r, "returned")
               /\ UNCHANGED <<source, candidate>>
      <3> DEFINE left == [disk[target] EXCEPT !.kind = "torn"]
      <3>1. target \in Inodes
        BY <2>4 DEF InService, IInv, TypeOK
      <3>2. left \in Databases /\ left.kind = "torn"
        BY <3>1 DEF IInv, TypeOK, Databases, Kinds
      <3>3. copy' = [copy EXCEPT ![r] = left]
        BY <2>4
      <3> HIDE DEF left
      <3>4. TypeOK' /\ Placed(r)'
        BY <1>2, <1>6, <2>4, <3>2, <3>3 DEF OpenSource, IInv, TypeOK, fileVars, writerVars,
             Placed, Holding, Reading, Goto, RebuildStates
      <3>5. QED
        BY <1>1, <1>6, <2>4, <3>4, LocalStep DEF OpenSource, fileVars, writerVars
    <2>5. QED
      BY <1>6, <2>1, <2>2, <2>3, <2>4 DEF OpenSource
  <1>7. CASE ReadCopy(r)
    <2>1. CASE /\ expected' = [expected EXCEPT ![r] = copy[r].files]
               /\ inputs' = [inputs EXCEPT ![r] = copy[r].files]
               /\ copy' = [copy EXCEPT ![r] = NoFile]
               /\ Goto(r, "create")
               /\ UNCHANGED <<outcome, candidate>>
      <3>1. copy[r].files \in SUBSET Files
        BY <1>2, <1>7 DEF ReadCopy, Placed, Databases
      <3>2. TypeOK' /\ Placed(r)'
        BY <1>2, <1>7, <2>1, <3>1 DEF ReadCopy, IInv, TypeOK, fileVars, writerVars, Placed,
             Holding, Reading, Goto, RebuildStates
      <3>3. QED
        BY <1>1, <1>7, <2>1, <3>2, LocalStep DEF ReadCopy, fileVars, writerVars
    <2>2. CASE Refuse(r) /\ UNCHANGED <<expected, inputs>>
      <3>1. TypeOK' /\ Placed(r)'
        BY <1>7, <2>2, RefuseTypes DEF ReadCopy, IInv, TypeOK, fileVars, writerVars,
             Placed, Holding, Reading
      <3>2. QED
        BY <1>1, <1>7, <2>2, <3>1, RefuseTypes, LocalStep DEF ReadCopy, IInv, fileVars,
             writerVars
    <2>3. QED
      BY <1>7, <2>1, <2>2 DEF ReadCopy
  <1>8. CASE ReadCatalog(r)
    <2>1. CASE /\ target # NoFile
               /\ expected' = [expected EXCEPT ![r] = disk[target].files]
               /\ Goto(r, "inputs")
               /\ UNCHANGED <<outcome, copy, candidate, source>>
      <3>1. disk[target].files \in SUBSET Files
        BY <2>1 DEF IInv, TypeOK, Databases
      <3>2. TypeOK' /\ Placed(r)'
        BY <1>2, <1>8, <2>1, <3>1 DEF ReadCatalog, IInv, TypeOK, fileVars, writerVars, Placed,
             Holding, Reading, Goto, RebuildStates
      <3>3. QED
        BY <1>1, <1>8, <2>1, <3>2, LocalStep DEF ReadCatalog, fileVars, writerVars
    <2>2. CASE /\ Refuse(r)
               /\ source' = [source EXCEPT ![r] = NoFile]
               /\ UNCHANGED expected
      <3>1. TypeOK' /\ Placed(r)' /\ source'[r] = NoFile
        BY <1>8, <2>2, RefuseTypes DEF ReadCatalog, IInv, TypeOK, fileVars, writerVars,
             Placed, Holding, Reading
      <3>2. QED
        BY <1>1, <1>8, <2>2, <3>1, RefuseTypes, LocalStep DEF ReadCatalog, IInv, fileVars,
             writerVars
    <2>3. QED
      BY <1>8, <2>1, <2>2 DEF ReadCatalog
  <1>9. CASE ReadInputs(r)
    <2>1. disk[source[r]].files \in SUBSET Files
      BY <1>2, <1>9 DEF ReadInputs, Placed, Reading, IInv, TypeOK, Databases
    <2>2. TypeOK' /\ Placed(r)' /\ source'[r] = NoFile
      BY <1>2, <1>9, <2>1 DEF ReadInputs, IInv, TypeOK, fileVars, writerVars, Placed,
           Holding, Reading, Goto, RebuildStates
    <2>3. QED
      BY <1>1, <1>9, <2>2, LocalStep DEF ReadInputs, fileVars, writerVars
  <1>10. QED
    BY <1>3, <1>4, <1>5, <1>6, <1>7, <1>8, <1>9

\* A database with other rows, or other rows indexed, is a database.
LEMMA DatabaseEdits ==
    ASSUME NEW db \in Databases, NEW S \in SUBSET Files, NEW T \in SUBSET Files
    PROVE  /\ EmptyDb \in Databases
           /\ [db EXCEPT !.files = S] \in Databases
           /\ [db EXCEPT !.files = S, !.indexed = T] \in Databases
           /\ [db EXCEPT !.kind = "torn"] \in Databases
           /\ [db EXCEPT !.kind = "current"] \in Databases
  BY DEF Databases, EmptyDb, Kinds

\* The steps on the candidate, before the database in service is looked at again.
LEMMA BuildKeeps ==
    ASSUME IInv, NEW r \in Rebuilders,
           CreateCandidate(r) \/ ReplayInputs(r) \/ IndexCandidate(r) \/ Verify(r)
    PROVE  IInv'
  <1> USE RebuildAssumption
  <1>1. Aside(r)
    BY OthersStandAside DEF IInv, RebuildStep
  <1>2. Placed(r)
    BY DEF IInv
  <1>3. CASE CreateCandidate(r)
    <2> DEFINE n == NewInode
    <2>1. /\ n \in Inodes /\ n \notin {target, journal, undo}
          /\ \A q \in Rebuilders : candidate[q] # n /\ source[q] # n
          /\ \A w \in Writers : handle[w] # n
      BY <1>3, NewIsFree DEF CreateCandidate
    <2>2. /\ candidate' = [candidate EXCEPT ![r] = n] /\ disk' = [disk EXCEPT ![n] = EmptyDb]
          /\ pc' = [pc EXCEPT ![r] = "replay"] /\ flushed' = flushed \ {n}
      BY <1>3 DEF CreateCandidate, Goto
    <2> HIDE DEF n
    <2>3. disk' \in [Inodes -> Databases]
      BY <2>1, <2>2, DatabaseEdits DEF IInv, TypeOK, EmptyDb, Databases, Kinds
    <2>4. candidate' \in [Rebuilders -> Inodes \cup {NoFile}] /\ candidate'[r] = n
      BY <2>1, <2>2 DEF IInv, TypeOK
    <2>5. pc' \in [Rebuilders -> RebuildStates] /\ pc'[r] = "replay"
      BY <2>2 DEF IInv, TypeOK, RebuildStates
    <2>6. TypeOK'
      BY <1>3, <2>2, <2>3, <2>4, <2>5 DEF CreateCandidate, IInv, TypeOK, writerVars
    <2>7. Placed(r)'
      BY <1>2, <1>3, <2>1, <2>4, <2>5 DEF CreateCandidate, Placed, Holding, Reading
    <2>8. ASSUME NEW q \in Rebuilders PROVE Placed(q)'
      BY <2>7, <1>1 DEF IInv, Placed, Aside
    <2>9. ASSUME NEW q \in Rebuilders PROVE Apart(q)'
      <3>1. CASE q = r
        BY <3>1, <1>1, <1>3, <2>1, <2>4 DEF CreateCandidate, Apart, writerVars, Aside
      <3>2. CASE q # r
        BY <3>2, <1>1, <1>3, <2>1, <2>4 DEF CreateCandidate, Apart, writerVars, Aside, IInv
      <3>3. QED
        BY <3>1, <3>2
    <2>10. \A w \in Writers : Connected(w)'
      BY <1>3 DEF CreateCandidate, IInv, Connected, writerVars
    <2>11. QED
      BY <2>6, <2>8, <2>9, <2>10 DEF IInv
  <1>4. CASE ReplayInputs(r)
    <2>1. CASE /\ disk' = [disk EXCEPT ![candidate[r]].files = inputs[r]]
               /\ expected' = [expected EXCEPT ![r] = IF had[r] THEN @ ELSE inputs[r]]
               /\ Goto(r, "pass")
               /\ UNCHANGED <<outcome, copy, candidate>>
      <3>1. candidate[r] \in Inodes
        BY <1>2, <1>4 DEF ReplayInputs, Placed, Holding
      <3>2. disk[candidate[r]] \in Databases /\ inputs[r] \in SUBSET Files
        BY <3>1 DEF IInv, TypeOK
      <3>3. [disk[candidate[r]] EXCEPT !.files = inputs[r]] \in Databases
        BY <3>2, DatabaseEdits
      <3>4. disk' \in [Inodes -> Databases]
        BY <2>1, <3>1, <3>3 DEF IInv, TypeOK
      <3>5. expected' \in [Rebuilders -> (SUBSET Files) \cup {NoFile}]
        BY <2>1, <3>2 DEF IInv, TypeOK
      <3>6. pc' \in [Rebuilders -> RebuildStates] /\ pc'[r] = "pass"
        BY <2>1 DEF IInv, TypeOK, Goto, RebuildStates
      <3>7. TypeOK'
        BY <1>4, <2>1, <3>4, <3>5, <3>6 DEF ReplayInputs, IInv, TypeOK, writerVars
      <3>8. Placed(r)'
        BY <1>2, <1>4, <2>1, <3>1, <3>6 DEF ReplayInputs, Placed, Holding, Reading
      <3>9. QED
        BY <1>1, <1>4, <2>1, <3>7, <3>8, LocalStep DEF ReplayInputs, writerVars
    <2>2. CASE Refuse(r) /\ UNCHANGED <<disk, expected>>
      <3>1. TypeOK' /\ Placed(r)'
        BY <1>4, <2>2, RefuseTypes DEF ReplayInputs, IInv, TypeOK, writerVars, Placed,
             Holding, Reading
      <3>2. QED
        BY <1>1, <1>4, <2>2, <3>1, RefuseTypes, LocalStep DEF ReplayInputs, IInv, writerVars
    <2>3. QED
      BY <1>4, <2>1, <2>2 DEF ReplayInputs
  <1>5. CASE IndexCandidate(r)
    <2>1. ASSUME NEW found \in {{}} \cup {{f} : f \in Files}, NEW pending \in SUBSET inputs[r],
                 disk' = [disk EXCEPT ![candidate[r]].files = @ \cup found,
                                      ![candidate[r]].indexed = inputs[r] \ pending],
                 Goto(r, "verify"), UNCHANGED <<outcome, copy, candidate>>
          PROVE  IInv'
      <3>1. candidate[r] \in Inodes
        BY <1>2, <1>5 DEF IndexCandidate, Placed, Holding
      <3>2. disk[candidate[r]] \in Databases /\ inputs[r] \in SUBSET Files
        BY <3>1 DEF IInv, TypeOK
      <3>3. /\ disk[candidate[r]].files \cup found \in SUBSET Files
            /\ inputs[r] \ pending \in SUBSET Files
        BY <3>2 DEF Databases
      <3>4. [disk[candidate[r]] EXCEPT !.files = disk[candidate[r]].files \cup found,
                                       !.indexed = inputs[r] \ pending] \in Databases
        BY <3>2, <3>3, DatabaseEdits
      <3>5. disk' \in [Inodes -> Databases]
        BY <2>1, <3>1, <3>4 DEF IInv, TypeOK
      <3>6. pc' \in [Rebuilders -> RebuildStates] /\ pc'[r] = "verify"
        BY <2>1 DEF IInv, TypeOK, Goto, RebuildStates
      <3>7. /\ pc[r] = "pass"
            /\ UNCHANGED <<target, journal, flushed, undo, had, digest, source, expected,
                           inputs, wpc, handle, acked, accidents>>
        BY <1>5 DEF IndexCandidate, writerVars
      <3>8. TypeOK'
        BY <2>1, <3>5, <3>6, <3>7 DEF IInv, TypeOK
      <3>9. Placed(r)'
        BY <1>2, <2>1, <3>1, <3>6, <3>7 DEF Placed, Holding, Reading
      <3>10. QED
        BY <1>1, <2>1, <3>7, <3>8, <3>9, LocalStep
    <2>2. CASE Refuse(r) /\ UNCHANGED disk
      <3>1. TypeOK' /\ Placed(r)'
        BY <1>5, <2>2, RefuseTypes DEF IndexCandidate, IInv, TypeOK, writerVars, Placed,
             Holding, Reading
      <3>2. QED
        BY <1>1, <1>5, <2>2, <3>1, RefuseTypes, LocalStep DEF IndexCandidate, IInv, writerVars
    <2>3. QED
      BY <1>5, <2>1, <2>2 DEF IndexCandidate
  <1>6. CASE Verify(r)
    <2>1. CASE Verified(r)
      <3>1. TypeOK' /\ Placed(r)'
        BY <1>2, <1>6, <2>1 DEF Verify, IInv, TypeOK, fileVars, writerVars, Placed,
             Holding, Reading, Goto, RebuildStates
      <3>2. QED
        BY <1>1, <1>6, <2>1, <3>1, LocalStep DEF Verify, fileVars, writerVars
    <2>2. CASE Refuse(r)
      <3>1. TypeOK' /\ Placed(r)'
        BY <1>6, <2>2, RefuseTypes DEF Verify, IInv, TypeOK, fileVars, writerVars, Placed,
             Holding, Reading
      <3>2. QED
        BY <1>1, <1>6, <2>2, <3>1, RefuseTypes, LocalStep DEF Verify, IInv, fileVars,
             writerVars
    <2>3. QED
      BY <1>6, <2>1, <2>2 DEF Verify
  <1>7. QED
    BY <1>3, <1>4, <1>5, <1>6

\* The publication: the gate, the flush, the rename and the end of the run.
LEMMA PublishKeeps ==
    ASSUME IInv, NEW r \in Rebuilders,
           \/ CheckDigest(r) \/ CheckSidecars(r) \/ SyncCandidate(r) \/ Rename(r)
           \/ SyncDirectory(r)
    PROVE  IInv'
  <1> USE RebuildAssumption
  <1>1. Aside(r)
    BY OthersStandAside DEF IInv, RebuildStep
  <1>2. Placed(r)
    BY DEF IInv
  <1>3. ASSUME Refuse(r), pc[r] \in Holding,
               UNCHANGED <<fileVars, had, digest, source, expected, inputs, writerVars,
                           accidents>>
        PROVE  IInv'
    <2>1. TypeOK' /\ Placed(r)'
      BY <1>3, RefuseTypes DEF IInv, TypeOK, fileVars, writerVars, Placed, Holding, Reading
    <2>2. QED
      BY <1>1, <1>3, <2>1, RefuseTypes, LocalStep DEF IInv, fileVars, writerVars
  <1>4. ASSUME NEW s \in {"sidecars", "sync", "rename"}, pc[r] \in Holding, Goto(r, s),
               flushed' \subseteq Inodes,
               UNCHANGED <<target, disk, journal, undo, outcome, copy, candidate, had, digest,
                           source, expected, inputs, writerVars, accidents>>
        PROVE  IInv'
    <2>1. pc' \in [Rebuilders -> RebuildStates] /\ pc'[r] = s
      BY <1>4 DEF IInv, TypeOK, Goto, RebuildStates
    <2>2. TypeOK'
      BY <1>4, <2>1 DEF IInv, TypeOK, writerVars
    <2>3. Placed(r)'
      BY <1>2, <1>4, <2>1 DEF Placed, Holding, Reading
    <2>4. QED
      BY <1>1, <1>4, <2>2, <2>3, LocalStep DEF writerVars
  <1>5. CASE CheckDigest(r)
    BY <1>3, <1>4, <1>5 DEF CheckDigest, fileVars, Holding, IInv, TypeOK
  <1>6. CASE CheckSidecars(r)
    BY <1>3, <1>4, <1>6 DEF CheckSidecars, fileVars, Holding, IInv, TypeOK
  <1>7. CASE SyncCandidate(r)
    <2>1. candidate[r] \in Inodes
      BY <1>2, <1>7 DEF SyncCandidate, Placed, Holding
    <2>2. QED
      BY <1>3, <1>4, <1>7, <2>1 DEF SyncCandidate, fileVars, Holding, IInv, TypeOK
  <1>8. CASE Rename(r)
    <2>1. CASE Refuse(r) /\ UNCHANGED <<target, undo>>
      BY <1>3, <1>8, <2>1 DEF Rename, fileVars, Holding
    <2>2. CASE /\ target' = candidate[r]
               /\ undo' = target
               /\ candidate' = [candidate EXCEPT ![r] = NoFile]
               /\ Goto(r, "sync_dir")
               /\ UNCHANGED <<outcome, copy>>
      <3>1. candidate[r] \in Inodes
        BY <1>2, <1>8 DEF Rename, Placed, Holding
      <3>2. pc' \in [Rebuilders -> RebuildStates] /\ pc'[r] = "sync_dir"
        BY <2>2 DEF IInv, TypeOK, Goto, RebuildStates
      <3>3. candidate' \in [Rebuilders -> Inodes \cup {NoFile}] /\ candidate'[r] = NoFile
        BY <2>2 DEF IInv, TypeOK
      <3>4. TypeOK'
        BY <1>8, <2>2, <3>1, <3>2, <3>3 DEF Rename, IInv, TypeOK, writerVars
      <3>5. Placed(r)'
        BY <1>2, <1>8, <2>2, <3>2, <3>3 DEF Rename, Placed, Holding, Reading
      <3>6. ASSUME NEW q \in Rebuilders PROVE Placed(q)'
        BY <3>5, <1>1 DEF IInv, Placed, Aside
      <3>7. ASSUME NEW q \in Rebuilders PROVE Apart(q)'
        <4>1. CASE q = r
          BY <4>1, <3>3 DEF Apart
        <4>2. CASE q # r
          <5>1. Apart(q)
            BY DEF IInv
          <5>2. candidate'[q] = candidate[q] /\ \A p \in Rebuilders : p # r => candidate'[p] = candidate[p]
            BY <4>2, <1>1 DEF Aside
          <5>3. UNCHANGED <<journal, source, handle>>
            BY <1>8 DEF Rename, writerVars
          <5>4. QED
            BY <2>2, <3>3, <4>2, <5>1, <5>2, <5>3 DEF Apart
        <4>3. QED
          BY <4>1, <4>2
      <3>8. \A w \in Writers : Connected(w)'
        BY <1>8 DEF Rename, IInv, Connected, writerVars
      <3>9. QED
        BY <3>4, <3>6, <3>7, <3>8 DEF IInv
    <2>3. QED
      BY <1>8, <2>1, <2>2 DEF Rename
  <1>9. CASE SyncDirectory(r)
    <2>1. pc' \in [Rebuilders -> RebuildStates] /\ pc'[r] = "returned"
      BY <1>9 DEF SyncDirectory, IInv, TypeOK, Goto, RebuildStates
    <2>2. TypeOK'
      BY <1>9, <2>1 DEF SyncDirectory, IInv, TypeOK, writerVars
    <2>3. Placed(r)'
      BY <1>2, <1>9, <2>1 DEF SyncDirectory, Placed, Holding, Reading
    <2>4. ASSUME NEW q \in Rebuilders PROVE Placed(q)'
      BY <2>3, <1>1 DEF IInv, Placed, Aside
    <2>5. ASSUME NEW q \in Rebuilders PROVE Apart(q)'
      <3>1. Apart(q) /\ undo' \in {NoFile, undo}
        BY <1>9 DEF IInv, SyncDirectory
      <3>2. UNCHANGED <<target, journal, candidate, source, handle>>
        BY <1>9 DEF SyncDirectory, writerVars
      <3>3. QED
        BY <3>1, <3>2 DEF Apart
    <2>6. \A w \in Writers : Connected(w)'
      BY <1>9 DEF SyncDirectory, IInv, Connected, writerVars
    <2>7. QED
      BY <2>2, <2>4, <2>5, <2>6 DEF IInv
  <1>10. QED
    BY <1>5, <1>6, <1>7, <1>8, <1>9

\* A step of a writer changes no working file of a rebuild.
LEMMA WriterApart ==
    ASSUME IInv, NEW w \in Writers, TypeOK', Connected(w)',
           UNCHANGED <<pc, copy, source, candidate, outcome>>,
           \A v \in Writers \ {w} : wpc'[v] = wpc[v] /\ handle'[v] = handle[v],
           \A r \in Rebuilders : candidate[r] # NoFile =>
             /\ target' # candidate[r] /\ journal' # candidate[r] /\ undo' # candidate[r]
             /\ handle'[w] # candidate[r]
    PROVE  IInv'
  <1>1. \A r \in Rebuilders : Placed(r)'
    BY DEF IInv, Placed
  <1>2. \A r \in Rebuilders : Apart(r)'
    BY DEF IInv, Apart
  <1>3. \A v \in Writers : Connected(v)'
    BY DEF IInv, Connected
  <1>4. QED
    BY <1>1, <1>2, <1>3 DEF IInv

\* The in-place writers.
LEMMA WriterKeeps ==
    ASSUME IInv, NEW w \in Writers, WriterStep(w)
    PROVE  IInv'
  <1> USE RebuildAssumption
  <1>1. Connected(w) /\ \A r \in Rebuilders : Apart(r)
    BY DEF IInv
  <1>2. CASE OpenInPlace(w)
    <2>1. wpc' \in [Writers -> {"closed", "open", "writing"}]
      BY <1>2 DEF OpenInPlace, IInv, TypeOK
    <2>2. CASE target = NoFile
      <3> DEFINE n == NewInode
      <3>1. /\ n \in Inodes /\ n \notin {target, journal, undo}
            /\ \A q \in Rebuilders : candidate[q] # n /\ source[q] # n
            /\ \A v \in Writers : handle[v] # n
        BY <1>2, <2>2, NewIsFree DEF OpenInPlace
      <3>2. /\ target' = n /\ disk' = [disk EXCEPT ![n] = EmptyDb]
            /\ flushed' = flushed \cup {n} /\ handle' = [handle EXCEPT ![w] = n]
            /\ UNCHANGED <<journal, undo>>
        BY <1>2, <2>2 DEF OpenInPlace
      <3> HIDE DEF n
      <3>3. disk' \in [Inodes -> Databases]
        BY <3>1, <3>2 DEF IInv, TypeOK, EmptyDb, Databases, Kinds
      <3>4. TypeOK'
        BY <1>2, <2>1, <3>1, <3>2, <3>3 DEF OpenInPlace, IInv, TypeOK, rebuildVars
      <3>5. handle'[w] = n /\ Connected(w)'
        BY <3>1, <3>2 DEF IInv, TypeOK, Connected
      <3>6. /\ UNCHANGED <<pc, copy, source, candidate, outcome>>
            /\ \A v \in Writers \ {w} : wpc'[v] = wpc[v] /\ handle'[v] = handle[v]
        BY <1>2, <3>2 DEF OpenInPlace, IInv, TypeOK, rebuildVars
      <3>7. QED
        BY <1>1, <3>1, <3>2, <3>4, <3>5, <3>6, WriterApart DEF Apart
    <2>3. CASE target # NoFile
      <3>1. /\ disk' = [disk EXCEPT ![target] = RolledBack([@ EXCEPT !.kind = "current"])]
            /\ journal' = NoFile /\ handle' = [handle EXCEPT ![w] = target]
            /\ undo' \in {undo, NoFile} /\ UNCHANGED <<target, flushed>>
        BY <1>2, <2>3 DEF OpenInPlace
      <3>2. target \in Inodes /\ disk[target] \in Databases
        BY <2>3 DEF IInv, TypeOK
      <3>3. RolledBack([disk[target] EXCEPT !.kind = "current"]) \in Databases
        BY <3>2 DEF RolledBack, Databases, Kinds
      <3>4. disk' \in [Inodes -> Databases]
        BY <3>1, <3>2, <3>3 DEF IInv, TypeOK
      <3>5. TypeOK'
        BY <1>2, <2>1, <3>1, <3>2, <3>4 DEF OpenInPlace, IInv, TypeOK, rebuildVars
      <3>6. handle'[w] = target /\ Connected(w)'
        BY <3>1, <3>2 DEF IInv, TypeOK, Connected
      <3>7. /\ UNCHANGED <<pc, copy, source, candidate, outcome>>
            /\ \A v \in Writers \ {w} : wpc'[v] = wpc[v] /\ handle'[v] = handle[v]
        BY <1>2, <3>1 DEF OpenInPlace, IInv, TypeOK, rebuildVars
      <3>8. QED
        BY <1>1, <3>1, <3>5, <3>6, <3>7, WriterApart DEF Apart
    <2>4. QED
      BY <2>2, <2>3
  <1>3. CASE BeginWrite(w)
    <2>1. handle[w] \in Inodes
      BY <1>1, <1>3 DEF BeginWrite, Connected
    <2>2. TypeOK'
      BY <1>3, <2>1 DEF BeginWrite, IInv, TypeOK, rebuildVars
    <2>3. handle'[w] \in {handle[w], NoFile} /\ Connected(w)'
      BY <1>3, <2>1 DEF BeginWrite, IInv, TypeOK, Connected
    <2>4. /\ UNCHANGED <<pc, copy, source, candidate, outcome, target>>
          /\ \A v \in Writers \ {w} : wpc'[v] = wpc[v] /\ handle'[v] = handle[v]
          /\ journal' \in {journal, handle[w]} /\ undo' \in {undo, NoFile}
      BY <1>3 DEF BeginWrite, IInv, TypeOK, rebuildVars
    <2>5. QED
      BY <1>1, <2>2, <2>3, <2>4, WriterApart DEF Apart
  <1>4. CASE CommitWrite(w)
    <2>1. handle[w] \in Inodes
      BY <1>1, <1>4 DEF CommitWrite, Connected
    <2>2. PICK f \in Files : /\ disk' = [disk EXCEPT ![handle[w]].files = @ \cup {f}]
                             /\ acked' = acked \cup {f}
      BY <1>4 DEF CommitWrite
    <2>3. disk[handle[w]] \in Databases /\ disk[handle[w]].files \cup {f} \in SUBSET Files
      BY <2>1 DEF IInv, TypeOK, Databases
    <2>4. [disk[handle[w]] EXCEPT !.files = disk[handle[w]].files \cup {f}] \in Databases
      BY <2>3, DatabaseEdits
    <2>5. disk' \in [Inodes -> Databases]
      BY <2>1, <2>2, <2>4 DEF IInv, TypeOK
    <2>6. wpc' = [wpc EXCEPT ![w] = "open"] /\ journal' = NoFile
          /\ UNCHANGED <<target, flushed, undo, rebuildVars, handle, accidents>>
      BY <1>4 DEF CommitWrite
    <2>7. TypeOK'
      BY <2>2, <2>5, <2>6 DEF IInv, TypeOK, rebuildVars
    <2>8. Connected(w)'
      BY <2>1, <2>6 DEF Connected
    <2>9. \A v \in Writers \ {w} : wpc'[v] = wpc[v] /\ handle'[v] = handle[v]
      BY <2>6 DEF IInv, TypeOK
    <2>10. QED
      BY <1>1, <2>6, <2>7, <2>8, <2>9, WriterApart DEF Apart, rebuildVars
  <1>5. CASE CloseInPlace(w)
    <2>1. TypeOK'
      BY <1>5 DEF CloseInPlace, IInv, TypeOK, rebuildVars
    <2>2. handle'[w] = NoFile /\ Connected(w)'
      BY <1>5 DEF CloseInPlace, IInv, TypeOK, Connected
    <2>3. /\ UNCHANGED <<pc, copy, source, candidate, outcome, target, undo>>
          /\ \A v \in Writers \ {w} : wpc'[v] = wpc[v] /\ handle'[v] = handle[v]
          /\ journal' \in {journal, NoFile}
      BY <1>5 DEF CloseInPlace, IInv, TypeOK, rebuildVars
    <2>4. QED
      BY <1>1, <2>1, <2>2, <2>3, WriterApart DEF Apart
  <1>6. QED
    BY <1>2, <1>3, <1>4, <1>5 DEF WriterStep

\* Killed processes and the loss of power.
LEMMA AccidentKeeps ==
    ASSUME IInv,
           \/ \E r \in Rebuilders : KillRebuild(r)
           \/ \E w \in Writers : KillWriter(w)
           \/ LosePower
    PROVE  IInv'
  <1> USE RebuildAssumption
  <1>1. ASSUME Accident PROVE accidents' \in 0 .. MaxAccidents
    BY <1>1 DEF Accident, IInv, TypeOK
  <1>2. ASSUME NEW r \in Rebuilders, KillRebuild(r) PROVE IInv'
    <2>1. Aside(r)
      BY <1>2, OthersStandAside DEF IInv
    <2>2. pc' \in [Rebuilders -> RebuildStates] /\ pc'[r] = "crashed"
      BY <1>2 DEF KillRebuild, Goto, IInv, TypeOK, RebuildStates
    <2>3. TypeOK' /\ source'[r] = NoFile
      BY <1>1, <1>2, <2>2 DEF KillRebuild, IInv, TypeOK, fileVars, writerVars
    <2>4. Placed(r)'
      BY <2>2 DEF Placed, Holding, Reading
    <2>5. QED
      BY <1>2, <2>1, <2>3, <2>4, LocalStep DEF KillRebuild, fileVars, writerVars
  <1>3. ASSUME NEW w \in Writers, KillWriter(w) PROVE IInv'
    <2>1. TypeOK'
      BY <1>1, <1>3 DEF KillWriter, IInv, TypeOK, fileVars, rebuildVars
    <2>2. handle'[w] = NoFile /\ Connected(w)'
      BY <1>3 DEF KillWriter, IInv, TypeOK, Connected
    <2>3. /\ UNCHANGED <<pc, copy, source, candidate, outcome, target, journal, undo>>
          /\ \A v \in Writers \ {w} : wpc'[v] = wpc[v] /\ handle'[v] = handle[v]
      BY <1>3 DEF KillWriter, IInv, TypeOK, fileVars, rebuildVars
    <2>4. \A r \in Rebuilders : Apart(r)
      BY DEF IInv
    <2>5. QED
      BY <2>1, <2>2, <2>3, <2>4, WriterApart DEF Apart
  <1>4. CASE LosePower
    <2>1. \A i \in Inodes : [disk[i] EXCEPT !.kind = "torn"] \in Databases
      BY DEF IInv, TypeOK, Databases, Kinds
    <2>2. disk' \in [Inodes -> Databases]
      BY <1>4, <2>1 DEF LosePower, IInv, TypeOK
    <2>3. pc' \in [Rebuilders -> RebuildStates]
      BY <1>4 DEF LosePower, RebuildStates
    <2>4. /\ source' \in [Rebuilders -> Inodes \cup {NoFile}]
          /\ wpc' \in [Writers -> {"closed", "open", "writing"}]
          /\ handle' \in [Writers -> Inodes \cup {NoFile}]
      BY <1>4 DEF LosePower
    <2>5. /\ target' \in {target, undo} /\ undo' = NoFile
          /\ UNCHANGED <<journal, flushed, outcome, had, digest, expected, inputs, copy,
                         candidate, acked>>
      BY <1>4 DEF LosePower
    <2>6. accidents' \in 0 .. MaxAccidents
      BY <1>1, <1>4 DEF LosePower
    <2>7. TypeOK'
      BY <2>2, <2>3, <2>4, <2>5, <2>6 DEF IInv, TypeOK
    <2>8. \A r \in Rebuilders : pc'[r] = IF pc[r] = "returned" THEN "returned" ELSE "crashed"
      BY <1>4 DEF LosePower
    <2>9. \A r \in Rebuilders : Placed(r)'
      BY <2>5, <2>8 DEF IInv, Placed, Holding, Reading
    <2>10. /\ \A r \in Rebuilders : source'[r] = NoFile
           /\ \A w \in Writers : handle'[w] = NoFile /\ wpc'[w] = "closed"
      BY <1>4 DEF LosePower
    <2>11. \A r \in Rebuilders : Apart(r)'
      BY <2>5, <2>10 DEF IInv, Apart
    <2>12. \A w \in Writers : Connected(w)'
      BY <2>10 DEF Connected
    <2>13. QED
      BY <2>7, <2>9, <2>11, <2>12 DEF IInv
  <1>5. QED
    BY <1>2, <1>3, <1>4

\* IInv holds of every initial state.
LEMMA InitInvariant == Init => IInv
  <1> USE RebuildAssumption
  <1> SUFFICES ASSUME Init PROVE IInv
    OBVIOUS
  <1>1. PICK first \in Inodes,
             db \in [kind : Kinds \ {"torn"}, files : SUBSET Files, indexed : {{}}] :
          /\ target \in {first, NoFile}
          /\ disk = [i \in Inodes |-> IF i = first THEN db ELSE EmptyDb]
          /\ acked = db.files
          /\ flushed = {first}
    <2>1. (CHOOSE i \in Inodes : TRUE) \in Inodes
      OBVIOUS
    <2>2. QED
      BY <2>1 DEF Init
  <1>2. db \in Databases /\ EmptyDb \in Databases
    BY DEF Databases, EmptyDb, Kinds
  <1>3. disk \in [Inodes -> Databases]
    BY <1>1, <1>2
  <1>4. acked \subseteq Files
    BY <1>1
  <1>5. TypeOK
    BY <1>1, <1>3, <1>4 DEF Init, TypeOK, RebuildStates
  <1>6. /\ \A r \in Rebuilders : Placed(r) /\ Apart(r)
        /\ \A w \in Writers : Connected(w)
    BY DEF Init, Placed, Apart, Connected, Holding, Reading
  <1>7. QED
    BY <1>5, <1>6 DEF IInv

\* Every step keeps IInv.
LEMMA StepInvariant == IInv /\ [Next]_vars => IInv'
  <1> SUFFICES ASSUME IInv, [Next]_vars PROVE IInv'
    OBVIOUS
  <1>1. CASE \E r \in Rebuilders : RebuildStep(r)
    BY <1>1, CaptureKeeps, BuildKeeps, PublishKeeps DEF RebuildStep
  <1>2. CASE \E w \in Writers : WriterStep(w)
    BY <1>2, WriterKeeps
  <1>3. CASE \/ \E r \in Rebuilders : KillRebuild(r)
             \/ \E w \in Writers : KillWriter(w)
             \/ LosePower
    BY <1>3, AccidentKeeps
  <1>4. CASE UNCHANGED vars
    BY <1>4 DEF IInv, TypeOK, Placed, Apart, Connected, vars, fileVars, rebuildVars, writerVars
  <1>5. QED
    BY <1>1, <1>2, <1>3, <1>4 DEF Next, Quiet

\* Every variable of the rebuilds, the writers and the files keeps its type.
THEOREM TypeCorrect == Spec => []TypeOK
  <1>1. Spec => []IInv
    BY InitInvariant, StepInvariant, PTL DEF Spec
  <1>2. IInv => TypeOK
    BY DEF IInv
  <1>3. QED
    BY <1>1, <1>2, PTL

\* CandidateGuard and MigrationCopy: whichever way run_clean_rebuild returns,
\* neither the candidate nor the migration copy is left on disk.
THEOREM CleansUp == Spec => []NothingLeftBehind
  <1>1. Spec => []IInv
    BY InitInvariant, StepInvariant, PTL DEF Spec
  <1>2. IInv => NothingLeftBehind
    BY DEF IInv, Placed, NothingLeftBehind, Holding
  <1>3. QED
    BY <1>1, <1>2, PTL

-----------------------------------------------------------------------------
(***************************************************************************)
(* Steps of a rebuild keep PInv.                                           *)
(***************************************************************************)

\* A step of one rebuild that leaves the database in service alone, and every
\* file that somebody else refers to.
LEMMA RebuildLocal ==
    ASSUME IInv, PInv, NEW r \in Rebuilders, Aside(r),
           UNCHANGED <<target, journal, undo, wpc, handle, acked>>,
           \A i \in Inodes :
             \/ i \in {target, undo}
             \/ \E q \in Rebuilders : source[q] = i
             \/ \E q \in Rebuilders \ {r} : candidate[q] = i
             => disk'[i] = disk[i] /\ (i \in flushed => i \in flushed'),
           pc'[r] \in {"sync", "rename"} => journal = NoFile,
           Ready(r)', Captured(r)'
    PROVE  PInv' /\ Rows' = Rows
  <1> USE RebuildAssumption
  <1>1. target # NoFile => target \in Inodes /\ disk'[target] = disk[target]
    BY DEF IInv, TypeOK
  <1>2. undo # NoFile => undo \in Inodes /\ disk'[undo] = disk[undo]
    BY DEF IInv, TypeOK
  <1>3. Rows' = Rows
    BY <1>1 DEF Rows
  <1>4. Journaled'
    BY DEF PInv, Journaled, Aside
  <1>5. Whole'
    BY <1>1, <1>2 DEF PInv, Whole
  <1>6. Kept'
    BY <1>2, <1>3 DEF PInv, Kept
  <1>7. ASSUME NEW q \in Rebuilders, q # r PROVE Ready(q)' /\ Captured(q)'
    <2>1. Ready(q) /\ Captured(q) /\ Placed(q)
      BY DEF PInv, IInv
    <2>2. /\ pc'[q] = pc[q] /\ candidate'[q] = candidate[q] /\ copy'[q] = copy[q]
          /\ source'[q] = source[q] /\ had'[q] = had[q] /\ digest'[q] = digest[q]
          /\ expected'[q] = expected[q] /\ inputs'[q] = inputs[q]
      BY <1>7 DEF Aside
    <2>3. pc[q] \in Holding =>
            /\ disk'[candidate[q]] = disk[candidate[q]]
            /\ candidate[q] \in flushed => candidate[q] \in flushed'
      BY <1>7, <2>1 DEF Placed
    <2>4. pc[q] \in Reading => disk'[source[q]] = disk[source[q]]
      BY <2>1 DEF Placed
    <2>5. Ready(q)'
      BY <2>1, <2>2, <2>3 DEF Ready, Holding, Window
    <2>6. DigestRows(q)' = DigestRows(q)
      BY <2>2 DEF DigestRows
    <2>7. Captured(q)'
      BY <1>3, <2>1, <2>2, <2>3, <2>4, <2>6 DEF Captured, Since, Holding, Window
    <2>8. QED
      BY <2>5, <2>7
  <1>8. QED
    BY <1>3, <1>4, <1>5, <1>6, <1>7 DEF PInv

\* A rebuild that has nothing left to publish.
LEMMA RebuildEnds ==
    ASSUME IInv, PInv, NEW r \in Rebuilders, Aside(r),
           UNCHANGED <<target, journal, undo, wpc, handle, acked, disk, flushed>>,
           pc'[r] \in {"returned", "crashed"}, had'[r] = had[r]
    PROVE  PInv'
  <1>1. Ready(r)'
    BY DEF Ready, Window
  <1>2. Captured(r)
    BY DEF PInv
  <1>3. Captured(r)'
    BY <1>2 DEF Captured, Window, Reading
  <1>4. QED
    BY <1>1, <1>3, RebuildLocal

\* A refused rebuild gives up without having touched what is in service.
LEMMA RefuseEnds ==
    ASSUME IInv, PInv, NEW r \in Rebuilders, Aside(r), Refuse(r),
           UNCHANGED <<target, journal, undo, wpc, handle, acked, disk, flushed, had>>
    PROVE  PInv'
  BY RebuildEnds, RefuseTypes DEF IInv

\* What a rebuild reads after its digest lies between the two.
LEMMA CaptureSafe ==
    ASSUME IInv, PInv, NEW r \in Rebuilders,
           \/ CheckSource(r) \/ LookForDatabase(r) \/ TakeDigest(r) \/ OpenSource(r)
           \/ ReadCopy(r) \/ ReadCatalog(r) \/ ReadInputs(r)
    PROVE  PInv'
  <1> USE RebuildAssumption
  <1>1. Aside(r)
    BY OthersStandAside DEF IInv, RebuildStep
  <1>2. Placed(r) /\ Ready(r) /\ Captured(r) /\ TypeOK
    BY DEF IInv, PInv
  <1>3. /\ UNCHANGED <<target, journal, undo, wpc, handle, acked, disk, flushed>>
        /\ pc[r] \notin {"gate"} \cup Window
    BY DEF CheckSource, LookForDatabase, TakeDigest, OpenSource, ReadCopy, ReadCatalog,
         ReadInputs, fileVars, writerVars, Window
  <1>4. Rows' = Rows
    BY <1>3 DEF Rows
  <1>5. SUFFICES ASSUME ~(Refuse(r) /\ UNCHANGED had)
                 PROVE  Captured(r)' /\ pc'[r] \notin {"gate"} \cup Window
    BY <1>1, <1>3, RefuseEnds, RebuildLocal DEF Ready, Window
  <1>6. CASE CheckSource(r)
    <2>1. pc'[r] = "look" /\ UNCHANGED <<had, inputs>> /\ pc[r] = "check"
      BY <1>2, <1>5, <1>6 DEF CheckSource, Goto, TypeOK
    <2>2. QED
      BY <1>2, <1>3, <2>1 DEF Captured, Reading, Window
  <1>7. CASE LookForDatabase(r)
    <2>1. /\ pc'[r] = "digest" /\ UNCHANGED inputs /\ pc[r] = "look"
          /\ had'[r] = (target # NoFile)
      BY <1>2, <1>7 DEF LookForDatabase, Goto, TypeOK
    <2>2. QED
      BY <1>2, <1>3, <2>1 DEF Captured, Reading, Window
  <1>8. CASE TakeDigest(r)
    <2>1. /\ pc[r] = "digest" /\ UNCHANGED <<inputs, had>>
          /\ pc'[r] = IF target = NoFile THEN "create" ELSE "open"
          /\ digest'[r] = IF target = NoFile THEN NoFile ELSE disk[target]
      BY <1>2, <1>8 DEF TakeDigest, Goto, TypeOK
    <2>2. inputs'[r] = {} /\ (had'[r] => target # NoFile)
      BY <1>2, <2>1 DEF Captured
    <2>3. CASE target = NoFile
      <3>1. DigestRows(r)' = {}
        BY <2>1, <2>3 DEF DigestRows
      <3>2. pc'[r] = "create" /\ ~had'[r]
        BY <2>1, <2>2, <2>3
      <3>3. QED
        BY <1>3, <2>2, <3>1, <3>2 DEF Captured, Since, Reading, Window
    <2>4. CASE target # NoFile
      <3>1. DigestRows(r)' = Rows
        <4>1. disk[target] # NoFile
          BY <2>4, <1>2 DEF TypeOK
        <4>2. QED
          BY <2>1, <2>4, <4>1 DEF DigestRows, Rows
      <3>2. pc'[r] = "open"
        BY <2>1, <2>4
      <3>3. QED
        BY <1>3, <1>4, <2>2, <3>1, <3>2 DEF Captured, Reading, Window
    <2>5. QED
      BY <2>3, <2>4
  <1>9. CASE OpenSource(r)
    <2>1. /\ pc[r] = "open" /\ UNCHANGED <<had, digest>>
          /\ \/ pc'[r] = "copied" /\ copy'[r] = disk[target]
             \/ pc'[r] = "catalog" /\ source'[r] = target
             \/ pc'[r] = "returned"
          /\ InService \in {"older", "current"}
      BY <1>2, <1>5, <1>9 DEF OpenSource, Goto, TypeOK
    <2>2. target # NoFile
      BY <2>1 DEF InService
    <2>3. Rows = disk[target].files
      BY <2>2 DEF Rows
    <2>4. DigestRows(r)' \subseteq Rows
      BY <1>2, <2>1 DEF Captured, DigestRows
    <2>5. CASE pc'[r] = "copied" /\ copy'[r] = disk[target]
      BY <1>3, <1>4, <2>2, <2>3, <2>4, <2>5 DEF Captured, Since, Reading, Window
    <2>6. CASE pc'[r] = "catalog" /\ source'[r] = target
      BY <1>3, <1>4, <2>2, <2>3, <2>4, <2>6 DEF Captured, Since, Reading, Window
    <2>7. CASE pc'[r] = "returned"
      BY <1>3, <2>2, <2>7 DEF Captured, Reading, Window
    <2>8. QED
      BY <2>1, <2>5, <2>6, <2>7
  <1>10. CASE ReadCopy(r)
    <2>1. /\ pc[r] = "copied" /\ UNCHANGED <<had, digest>>
          /\ pc'[r] = "create"
          /\ expected'[r] = copy[r].files /\ inputs'[r] = copy[r].files
      BY <1>2, <1>5, <1>10 DEF ReadCopy, Goto, TypeOK
    <2>2. Since(r, copy[r].files) /\ DigestRows(r)' = DigestRows(r)
      BY <1>2, <2>1 DEF Captured, DigestRows
    <2>3. QED
      BY <1>2, <1>3, <1>4, <2>1, <2>2 DEF Captured, Since, Reading, Window
  <1>11. CASE ReadCatalog(r)
    <2>1. /\ pc[r] = "catalog" /\ UNCHANGED <<had, digest, source>>
          /\ pc'[r] = "inputs" /\ target # NoFile
          /\ expected'[r] = disk[target].files
      BY <1>2, <1>5, <1>11 DEF ReadCatalog, Goto, TypeOK
    <2>2. /\ Since(r, disk[source[r]].files) /\ DigestRows(r)' = DigestRows(r)
          /\ Rows = disk[target].files
      BY <1>2, <2>1 DEF Captured, DigestRows, Reading, Rows
    <2>3. QED
      BY <1>2, <1>3, <1>4, <2>1, <2>2 DEF Captured, Since, Reading, Window
  <1>12. CASE ReadInputs(r)
    <2>1. /\ pc[r] = "inputs" /\ UNCHANGED <<had, digest, expected>>
          /\ pc'[r] = "create"
          /\ inputs'[r] = disk[source[r]].files
      BY <1>2, <1>12 DEF ReadInputs, Goto, TypeOK
    <2>2. /\ Since(r, disk[source[r]].files) /\ DigestRows(r)' = DigestRows(r)
          /\ Since(r, expected[r])
      BY <1>2, <2>1 DEF Captured, DigestRows, Reading
    <2>3. QED
      BY <1>2, <1>3, <1>4, <2>1, <2>2 DEF Captured, Since, Reading, Window
  <1>13. QED
    BY <1>6, <1>7, <1>8, <1>9, <1>10, <1>11, <1>12

\* The candidate is built where nobody else looks, and verified before it counts.
LEMMA BuildSafe ==
    ASSUME IInv, PInv, NEW r \in Rebuilders,
           CreateCandidate(r) \/ ReplayInputs(r) \/ IndexCandidate(r) \/ Verify(r)
    PROVE  PInv'
  <1> USE RebuildAssumption
  <1>1. Aside(r)
    BY OthersStandAside DEF IInv, RebuildStep
  <1>2. Placed(r) /\ Apart(r) /\ Ready(r) /\ Captured(r) /\ TypeOK
    BY DEF IInv, PInv
  <1>3. UNCHANGED <<target, journal, undo, wpc, handle, acked, had, digest, inputs>>
    BY DEF CreateCandidate, ReplayInputs, IndexCandidate, Verify, fileVars, writerVars
  <1>4. DigestRows(r)' = DigestRows(r)
    BY <1>3 DEF DigestRows
  <1>5. CASE CreateCandidate(r)
    <2> DEFINE n == NewInode
    <2>1. /\ n \in Inodes /\ n \notin {target, journal, undo}
          /\ \A q \in Rebuilders : candidate[q] # n /\ source[q] # n
      BY <1>5, NewIsFree DEF CreateCandidate
    <2>2. /\ disk' = [disk EXCEPT ![n] = EmptyDb] /\ flushed' = flushed \ {n}
          /\ pc[r] = "create" /\ pc'[r] = "replay" /\ UNCHANGED expected
      BY <1>2, <1>5 DEF CreateCandidate, Goto, TypeOK
    <2> HIDE DEF n
    <2>3. \A i \in Inodes \ {n} : disk'[i] = disk[i] /\ (i \in flushed => i \in flushed')
      BY <1>2, <2>2 DEF TypeOK
    <2>4. Rows' = Rows
      BY <1>2, <1>3, <2>1, <2>3 DEF Rows, TypeOK
    <2>5. Ready(r)' /\ Captured(r)'
      BY <1>2, <1>3, <1>4, <2>2, <2>4 DEF Ready, Captured, Since, Reading, Window
    <2>6. QED
      BY <1>1, <1>3, <2>1, <2>2, <2>3, <2>5, RebuildLocal
  <1>6. CASE ReplayInputs(r)
    <2>1. CASE Refuse(r) /\ UNCHANGED <<disk, expected>>
      BY <1>1, <1>3, <1>6, <2>1, RefuseEnds DEF ReplayInputs
    <2>2. CASE /\ disk' = [disk EXCEPT ![candidate[r]].files = inputs[r]]
               /\ expected' = [expected EXCEPT ![r] = IF had[r] THEN @ ELSE inputs[r]]
               /\ Goto(r, "pass")
               /\ UNCHANGED <<outcome, copy, candidate>>
      <3>1. /\ pc[r] = "replay" /\ pc'[r] = "pass" /\ UNCHANGED flushed
            /\ expected'[r] = IF had[r] THEN expected[r] ELSE inputs[r]
        BY <1>2, <1>6, <2>2 DEF ReplayInputs, Goto, TypeOK
      <3>2. candidate[r] \in Inodes /\ candidate[r] # NoFile
        BY <1>2, <3>1 DEF Placed, Holding
      <3>3. \A i \in Inodes \ {candidate[r]} : disk'[i] = disk[i]
        BY <1>2, <2>2 DEF TypeOK
      <3>4. \A i \in Inodes :
             \/ i \in {target, undo}
             \/ \E q \in Rebuilders : source[q] = i
             \/ \E q \in Rebuilders \ {r} : candidate[q] = i
             => i # candidate[r]
        BY <1>2, <3>2 DEF Apart
      <3>5. Rows' = Rows
        BY <1>2, <1>3, <3>2, <3>3 DEF Rows, TypeOK, Apart
      <3>6. Since(r, inputs[r]) /\ (had[r] => Since(r, expected[r]))
        BY <1>2, <3>1 DEF Captured
      <3>7. Ready(r)' /\ Captured(r)'
        BY <1>2, <1>3, <1>4, <3>1, <3>5, <3>6 DEF Ready, Captured, Since, Reading, Window
      <3>8. QED
        BY <1>1, <1>3, <3>1, <3>3, <3>4, <3>7, RebuildLocal
    <2>3. QED
      BY <1>6, <2>1, <2>2 DEF ReplayInputs
  <1>7. CASE IndexCandidate(r)
    <2>1. CASE Refuse(r) /\ UNCHANGED disk
      BY <1>1, <1>3, <1>7, <2>1, RefuseEnds DEF IndexCandidate
    <2>2. ASSUME NEW found, NEW pending,
                 disk' = [disk EXCEPT ![candidate[r]].files = @ \cup found,
                                      ![candidate[r]].indexed = inputs[r] \ pending],
                 Goto(r, "verify"), UNCHANGED <<outcome, copy, candidate>>
          PROVE  PInv'
      <3>1. pc[r] = "pass" /\ pc'[r] = "verify" /\ UNCHANGED <<flushed, expected>>
        BY <1>2, <1>7, <2>2 DEF IndexCandidate, Goto, TypeOK
      <3>2. candidate[r] \in Inodes /\ candidate[r] # NoFile
        BY <1>2, <3>1 DEF Placed, Holding
      <3>3. \A i \in Inodes \ {candidate[r]} : disk'[i] = disk[i]
        BY <1>2, <2>2 DEF TypeOK
      <3>4. \A i \in Inodes :
             \/ i \in {target, undo}
             \/ \E q \in Rebuilders : source[q] = i
             \/ \E q \in Rebuilders \ {r} : candidate[q] = i
             => i # candidate[r]
        BY <1>2, <3>2 DEF Apart
      <3>5. Rows' = Rows
        BY <1>2, <1>3, <3>2, <3>3 DEF Rows, TypeOK, Apart
      <3>6. Since(r, inputs[r]) /\ Since(r, expected[r])
        BY <1>2, <3>1 DEF Captured
      <3>7. Ready(r)' /\ Captured(r)'
        BY <1>2, <1>3, <1>4, <3>1, <3>5, <3>6 DEF Ready, Captured, Since, Reading, Window
      <3>8. QED
        BY <1>1, <1>3, <3>1, <3>3, <3>4, <3>7, RebuildLocal
    <2>3. QED
      BY <1>7, <2>1, <2>2 DEF IndexCandidate
  <1>8. CASE Verify(r)
    <2>1. CASE Refuse(r)
      BY <1>1, <1>3, <1>8, <2>1, RefuseEnds DEF Verify, fileVars
    <2>2. CASE ~Refuse(r)
      <3>1. /\ Verified(r) /\ pc[r] = "verify" /\ pc'[r] = "gate"
            /\ UNCHANGED <<disk, flushed, expected, candidate>>
        BY <1>2, <1>8, <2>2 DEF Verify, Goto, TypeOK, fileVars
      <3>2. Rows' = Rows
        BY <1>3, <3>1 DEF Rows
      <3>3. Since(r, inputs[r]) /\ Since(r, expected[r])
        BY <1>2, <3>1 DEF Captured
      <3>4. Ready(r)'
        BY <3>1 DEF Verified, Ready
      <3>5. Captured(r)'
        BY <1>2, <1>3, <1>4, <3>1, <3>2, <3>3 DEF Captured, Since, Reading, Window
      <3>6. QED
        BY <1>1, <1>3, <3>1, <3>4, <3>5, RebuildLocal
    <2>3. QED
      BY <2>1, <2>2
  <1>9. QED
    BY <1>5, <1>6, <1>7, <1>8

\* The gate: what was captured is still in service, so the candidate has its rows.
LEMMA GateSafe ==
    ASSUME IInv, PInv, NEW r \in Rebuilders,
           CheckDigest(r) \/ CheckSidecars(r) \/ SyncCandidate(r)
    PROVE  PInv'
  <1> USE RebuildAssumption
  <1>1. Aside(r)
    BY OthersStandAside DEF IInv, RebuildStep
  <1>2. Placed(r) /\ Apart(r) /\ Ready(r) /\ Captured(r) /\ TypeOK
    BY DEF IInv, PInv
  <1>3. UNCHANGED <<target, journal, undo, wpc, handle, acked, had, digest, disk, expected>>
    BY DEF CheckDigest, CheckSidecars, SyncCandidate, fileVars, writerVars
  <1>4. CASE Refuse(r)
    <2>1. UNCHANGED flushed
      BY <1>2, <1>4 DEF CheckDigest, CheckSidecars, SyncCandidate, fileVars, Refuse, Goto,
           TypeOK
    <2>2. QED
      BY <1>1, <1>3, <1>4, <2>1, RefuseEnds
  <1>5. CASE ~Refuse(r)
    <2>1. Rows' = Rows
      BY <1>3 DEF Rows
    <2>2. /\ UNCHANGED candidate /\ pc[r] \in {"gate"} \cup Window /\ pc'[r] \in Window
          /\ flushed \subseteq flushed'
      BY <1>2, <1>5 DEF CheckDigest, CheckSidecars, SyncCandidate, Goto, TypeOK, Window,
           fileVars
    <2>3. pc'[r] = "rename" => candidate[r] \in flushed'
      BY <1>2, <1>5 DEF CheckDigest, CheckSidecars, SyncCandidate, Goto, TypeOK
    <2>4. pc'[r] \in {"sync", "rename"} => journal = NoFile
      <3>1. Journaled
        BY DEF PInv
      <3>2. QED
        BY <1>2, <1>5, <3>1 DEF CheckDigest, CheckSidecars, SyncCandidate, Goto, TypeOK,
             Journaled
    <2>5. disk[candidate[r]].files = Rows
      <3>1. CASE pc[r] \in Window
        BY <1>2, <3>1 DEF Captured
      <3>2. CASE pc[r] = "gate"
        <4>1. SourceUnchanged(r)
          BY <1>5, <3>2 DEF CheckDigest, CheckSidecars, SyncCandidate
        <4>2. DigestRows(r) = Rows
          <5>1. CASE target = NoFile
            BY <4>1, <5>1 DEF SourceUnchanged, DigestRows, Rows
          <5>2. CASE target # NoFile
            <6>1. disk[target] # NoFile
              BY <5>2, <1>2 DEF TypeOK
            <6>2. QED
              BY <4>1, <5>2, <6>1 DEF SourceUnchanged, DigestRows, Rows
          <5>3. QED
            BY <5>1, <5>2
        <4>3. Since(r, expected[r])
          BY <1>2, <3>2 DEF Captured
        <4>4. disk[candidate[r]].files = expected[r]
          BY <1>2, <3>2 DEF Ready
        <4>5. QED
          BY <4>2, <4>3, <4>4 DEF Since
      <3>3. QED
        BY <2>2, <3>1, <3>2
    <2>6. Ready(r)'
      BY <1>2, <1>3, <2>2, <2>3 DEF Ready
    <2>7. Captured(r)'
      BY <1>2, <1>3, <2>1, <2>2, <2>5 DEF Captured, Window, Reading
    <2>8. QED
      BY <1>1, <1>3, <2>2, <2>4, <2>6, <2>7, RebuildLocal
  <1>6. QED
    BY <1>4, <1>5

\* The rename puts a flushed, verified candidate with the same rows in service.
LEMMA RenameSafe ==
    ASSUME IInv, PInv, NEW r \in Rebuilders, Rename(r)
    PROVE  PInv'
  <1> USE RebuildAssumption
  <1>1. Aside(r)
    BY OthersStandAside DEF IInv, RebuildStep
  <1>2. Placed(r) /\ Apart(r) /\ Ready(r) /\ Captured(r) /\ TypeOK
    BY DEF IInv, PInv
  <1>3. UNCHANGED <<journal, wpc, handle, acked, had, digest, disk, flushed>> /\ pc[r] = "rename"
    BY DEF Rename, writerVars
  <1>4. CASE Refuse(r) /\ UNCHANGED <<target, undo>>
    BY <1>1, <1>3, <1>4, RefuseEnds
  <1>5. CASE target' = candidate[r] /\ undo' = target /\ Goto(r, "sync_dir")
    <2>1. pc'[r] = "sync_dir"
      BY <1>2, <1>5 DEF Goto, TypeOK
    <2>2. /\ candidate[r] \in Inodes /\ candidate[r] # NoFile /\ candidate[r] \in flushed
          /\ disk[candidate[r]].kind = "current" /\ disk[candidate[r]].files = Rows
      BY <1>2, <1>3 DEF Placed, Ready, Captured, Holding, Window
    <2>3. Rows' = Rows
      BY <1>3, <1>5, <2>2 DEF Rows
    <2>4. journal = NoFile
      BY <1>3 DEF PInv, Journaled
    <2>5. \A w \in Writers : wpc[w] # "writing"
      <3>1. \A w \in Writers : wpc[w] = "writing" => handle[w] \in Inodes /\ handle[w] = journal
        BY DEF IInv, Connected, PInv, Journaled
      <3>2. QED
        BY <2>4, <3>1
    <2>6. Journaled'
      BY <1>3, <2>4, <2>5 DEF Journaled
    <2>7. Whole'
      BY <1>3, <1>5, <2>2 DEF PInv, Whole
    <2>8. Kept'
      BY <1>3, <1>5, <2>3 DEF PInv, Kept, Rows
    <2>9. ASSUME NEW q \in Rebuilders, q # r PROVE Ready(q)' /\ Captured(q)'
      <3>1. Ready(q) /\ Captured(q)
        BY DEF PInv
      <3>2. /\ pc'[q] = pc[q] /\ candidate'[q] = candidate[q] /\ copy'[q] = copy[q]
            /\ source'[q] = source[q] /\ had'[q] = had[q] /\ digest'[q] = digest[q]
            /\ expected'[q] = expected[q] /\ inputs'[q] = inputs[q]
        BY <1>1, <2>9 DEF Aside
      <3>3. Ready(q)'
        BY <1>3, <3>1, <3>2 DEF Ready
      <3>4. DigestRows(q)' = DigestRows(q)
        BY <3>2 DEF DigestRows
      <3>5. Captured(q)'
        BY <1>3, <1>5, <2>2, <2>3, <3>1, <3>2, <3>4 DEF Captured, Since
      <3>6. QED
        BY <3>3, <3>5
    <2>10. Ready(r)' /\ Captured(r)'
      BY <1>5, <2>1, <2>2 DEF Ready, Captured, Reading, Window
    <2>11. QED
      BY <2>6, <2>7, <2>8, <2>9, <2>10 DEF PInv
  <1>6. QED
    BY <1>4, <1>5 DEF Rename

\* The directory is flushed, or cannot be: the old database may come back.
LEMMA ReturnSafe ==
    ASSUME IInv, PInv, NEW r \in Rebuilders, SyncDirectory(r)
    PROVE  PInv'
  <1>1. Aside(r)
    BY OthersStandAside DEF IInv, RebuildStep
  <1>2. /\ UNCHANGED <<target, journal, wpc, handle, acked, had, digest, disk, flushed>>
        /\ UNCHANGED <<source, expected, inputs, copy, candidate>>
        /\ undo' \in {NoFile, undo}
    BY DEF SyncDirectory, writerVars
  <1>3. pc'[r] = "returned" /\ \A q \in Rebuilders : q # r => pc'[q] = pc[q]
    BY <1>1 DEF SyncDirectory, Goto, IInv, TypeOK, Aside
  <1>4. Rows' = Rows
    BY <1>2 DEF Rows
  <1>5. Journaled' /\ Whole' /\ Kept'
    BY <1>2, <1>3, <1>4 DEF PInv, Journaled, Whole, Kept
  <1>6. \A q \in Rebuilders : Ready(q)'
    BY <1>2, <1>3 DEF PInv, Ready, Window
  <1>7. ASSUME NEW q \in Rebuilders PROVE Captured(q)'
    <2>1. Captured(q) /\ DigestRows(q)' = DigestRows(q)
      BY <1>2 DEF PInv, DigestRows
    <2>2. CASE q = r
      BY <1>2, <1>3, <2>1, <2>2 DEF Captured, Reading, Window
    <2>3. CASE q # r
      BY <1>2, <1>3, <1>4, <2>1, <2>3 DEF Captured, Since
    <2>4. QED
      BY <2>2, <2>3
  <1>8. QED
    BY <1>5, <1>6, <1>7 DEF PInv

-----------------------------------------------------------------------------
(***************************************************************************)
(* Steps of the writers, and accidents, keep PInv.                         *)
(***************************************************************************)

\* A step of a writer outside every publication window: what it does to the
\* database in service only adds rows.
LEMMA WriterLocal ==
    ASSUME IInv, PInv, UNCHANGED <<rebuildVars>>,
           Journaled', Whole', Kept',
           target # NoFile => target' # NoFile,
           Rows \subseteq Rows',
           (\E r \in Rebuilders : pc[r] \in Window) => Rows' = Rows,
           flushed \subseteq flushed',
           \A r \in Rebuilders : pc[r] \in Holding => disk'[candidate[r]] = disk[candidate[r]],
           \A r \in Rebuilders : pc[r] \in Reading =>
             \/ disk'[source[r]].files = disk[source[r]].files
             \/ Rows' = disk'[source[r]].files
    PROVE  PInv'
  <1>1. \A r \in Rebuilders : Ready(r)'
    BY DEF PInv, Ready, Holding, Window, rebuildVars
  <1>2. ASSUME NEW r \in Rebuilders PROVE Captured(r)'
    <2>1. Captured(r) /\ DigestRows(r)' = DigestRows(r)
      BY DEF PInv, DigestRows, rebuildVars
    <2>2. UNCHANGED <<pc, had, digest, source, expected, inputs, copy, candidate>>
      BY DEF rebuildVars
    <2>3. pc[r] \in Window => pc[r] \in Holding
      BY DEF Holding, Window
    <2>4. QED
      BY <2>1, <2>2, <2>3 DEF Captured, Since
  <1>3. QED
    BY <1>1, <1>2 DEF PInv

\* Outside the window means that no rebuild is between its gate and its rename.
LEMMA OutsideWindow ==
    ASSUME ~MayRace, Undisturbed
    PROVE  \A r \in Rebuilders : pc[r] \notin Window
  BY DEF Undisturbed, WindowOpen, Window

\* A read-write open.
LEMMA OpenSafe ==
    ASSUME ~MayRace, IInv, PInv, NEW w \in Writers, OpenInPlace(w)
    PROVE  PInv'
  <1> USE RebuildAssumption
  <1>1. TypeOK /\ Journaled /\ Whole /\ Kept
    BY DEF IInv, PInv
  <1>2. \A r \in Rebuilders : pc[r] \notin Window
    BY OutsideWindow DEF OpenInPlace
  <1>3. /\ UNCHANGED <<rebuildVars, acked>> /\ UNCHANGED pc
        /\ wpc' = [wpc EXCEPT ![w] = "open"]
    BY DEF OpenInPlace, rebuildVars
  <1>4. \A v \in Writers : wpc'[v] = IF v = w THEN "open" ELSE wpc[v]
    BY <1>1, <1>3 DEF TypeOK
  <1>5. CASE target = NoFile
    <2> DEFINE n == NewInode
    <2>1. /\ n \in Inodes /\ n \notin {target, journal, undo}
          /\ \A q \in Rebuilders : candidate[q] # n /\ source[q] # n
      BY <1>5, NewIsFree DEF OpenInPlace
    <2>2. /\ target' = n /\ disk' = [disk EXCEPT ![n] = EmptyDb]
          /\ flushed' = flushed \cup {n} /\ UNCHANGED <<journal, undo>>
          /\ handle' = [handle EXCEPT ![w] = n]
      BY <1>5 DEF OpenInPlace
    <2> HIDE DEF n
    <2>3. \A i \in Inodes \ {n} : disk'[i] = disk[i]
      BY <1>1, <2>2 DEF TypeOK
    <2>4. disk'[n] = EmptyDb /\ target' # NoFile
      BY <1>1, <2>1, <2>2 DEF TypeOK
    <2>5. Rows = {} /\ Rows' = {}
      BY <1>5, <2>2, <2>4 DEF Rows, EmptyDb
    <2>6. journal = NoFile /\ \A v \in Writers : wpc[v] # "writing"
      <3>1. journal = NoFile
        BY <1>1, <1>5 DEF Journaled
      <3>2. \A v \in Writers : wpc[v] = "writing" => handle[v] \in Inodes /\ handle[v] = target
        BY <1>1 DEF IInv, Connected, Journaled
      <3>3. QED
        BY <1>5, <3>1, <3>2
    <2>7. Journaled'
      BY <1>2, <1>3, <1>4, <2>2, <2>6 DEF Journaled, Window
    <2>8. undo # NoFile => disk'[undo] = disk[undo] /\ undo \in Inodes
      BY <1>1, <2>1, <2>3 DEF TypeOK
    <2>9. Whole'
      BY <1>1, <2>2, <2>4, <2>8 DEF Whole, EmptyDb
    <2>10. Kept'
      BY <1>1, <1>3, <2>2, <2>5, <2>8 DEF Kept
    <2>11. \A r \in Rebuilders :
             /\ pc[r] \in Holding => disk'[candidate[r]] = disk[candidate[r]]
             /\ pc[r] \in Reading => disk'[source[r]] = disk[source[r]]
      BY <2>1, <2>3 DEF IInv, Placed
    <2>12. QED
      BY <1>2, <1>3, <2>2, <2>4, <2>5, <2>7, <2>9, <2>10, <2>11, WriterLocal
  <1>6. CASE target # NoFile
    <2>1. /\ disk' = [disk EXCEPT ![target] = RolledBack([@ EXCEPT !.kind = "current"])]
          /\ journal' = NoFile /\ handle' = [handle EXCEPT ![w] = target]
          /\ undo' \in {undo, NoFile} /\ UNCHANGED <<target, flushed>>
          /\ ~Locked(target)
      BY <1>6 DEF OpenInPlace
    <2>2. target \in Inodes /\ disk[target] \in Databases
      BY <1>1, <1>6 DEF TypeOK
    <2>3. disk'[target] = [disk[target] EXCEPT !.kind = "current"]
      BY <1>1, <2>1, <2>2 DEF RolledBack, Journaled, TypeOK
    <2>4. disk'[target].kind = "current" /\ disk'[target].files = disk[target].files
      BY <2>2, <2>3 DEF Databases
    <2>5. \A i \in Inodes \ {target} : disk'[i] = disk[i]
      BY <1>1, <2>1 DEF TypeOK
    <2>6. Rows' = Rows
      BY <1>6, <2>1, <2>4 DEF Rows
    <2>7. \A v \in Writers : wpc[v] # "writing"
      BY <1>1, <2>1 DEF Journaled, Locked
    <2>8. Journaled'
      BY <1>2, <1>3, <1>4, <2>1, <2>7 DEF Journaled, Window
    <2>9. undo' # NoFile => /\ undo' \in flushed /\ disk'[undo'].kind # "torn"
                            /\ disk'[undo'].files = disk[undo'].files
      BY <1>1, <2>1, <2>4, <2>5 DEF TypeOK, Whole
    <2>10. Whole'
      BY <1>1, <2>1, <2>4, <2>9 DEF Whole
    <2>11. Kept'
      BY <1>1, <1>3, <2>1, <2>6, <2>9 DEF Kept
    <2>12. \A r \in Rebuilders : pc[r] \in Holding => disk'[candidate[r]] = disk[candidate[r]]
      BY <2>5 DEF IInv, Placed, Apart
    <2>13. \A r \in Rebuilders : pc[r] \in Reading => disk'[source[r]].files = disk[source[r]].files
      BY <2>4, <2>5 DEF IInv, Placed
    <2>14. QED
      BY <1>2, <1>3, <2>1, <2>6, <2>8, <2>10, <2>11, <2>12, <2>13, WriterLocal
  <1>7. QED
    BY <1>5, <1>6

\* A transaction begins, on the database in service or not at all.
LEMMA BeginSafe ==
    ASSUME ~MayRace, IInv, PInv, NEW w \in Writers, BeginWrite(w)
    PROVE  PInv'
  <1>1. TypeOK /\ Journaled /\ Whole /\ Kept
    BY DEF IInv, PInv
  <1>2. \A r \in Rebuilders : pc[r] \notin Window
    BY OutsideWindow DEF BeginWrite
  <1>3. UNCHANGED <<rebuildVars, acked, target, disk, flushed>> /\ UNCHANGED pc
    BY DEF BeginWrite, rebuildVars
  <1>4. Rows' = Rows
    BY <1>3 DEF Rows
  <1>5. undo' \in {undo, NoFile}
    BY DEF BeginWrite
  <1>6. Whole' /\ Kept'
    BY <1>1, <1>3, <1>4, <1>5 DEF Whole, Kept
  <1>7. Journaled'
    <2>1. CASE handle[w] = target
      <3>1. /\ wpc' = [wpc EXCEPT ![w] = "writing"] /\ journal' = target
            /\ undo' = NoFile /\ UNCHANGED handle /\ ~Locked(handle[w])
        BY <2>1 DEF BeginWrite
      <3>2. \A v \in Writers : wpc[v] # "writing"
        BY <1>1, <2>1, <3>1 DEF Journaled, Locked
      <3>3. \A v \in Writers : wpc'[v] = "writing" => v = w
        BY <1>1, <3>1, <3>2 DEF TypeOK
      <3>4. QED
        BY <1>2, <1>3, <2>1, <3>1, <3>3 DEF Journaled, Window
    <2>2. CASE handle[w] # target
      <3>1. /\ wpc' = [wpc EXCEPT ![w] = "closed"] /\ UNCHANGED <<journal, undo>>
            /\ handle' = [handle EXCEPT ![w] = NoFile]
        BY <2>2 DEF BeginWrite
      <3>2. \A v \in Writers :
              wpc'[v] = "writing" => wpc[v] = "writing" /\ handle'[v] = handle[v]
        BY <1>1, <3>1 DEF TypeOK
      <3>3. QED
        BY <1>1, <1>3, <3>1, <3>2 DEF Journaled
    <2>3. QED
      BY <2>1, <2>2
  <1>8. QED
    BY <1>2, <1>3, <1>4, <1>6, <1>7, WriterLocal

\* COMMIT adds its rows to the database in service.
LEMMA CommitSafe ==
    ASSUME ~MayRace, IInv, PInv, NEW w \in Writers, CommitWrite(w)
    PROVE  PInv'
  <1> USE RebuildAssumption
  <1>1. TypeOK /\ Journaled /\ Whole /\ Kept /\ Connected(w)
    BY DEF IInv, PInv
  <1>2. \A r \in Rebuilders : pc[r] \notin Window
    BY OutsideWindow DEF CommitWrite
  <1>3. /\ UNCHANGED <<rebuildVars, target, flushed, undo, handle>> /\ UNCHANGED pc
        /\ wpc' = [wpc EXCEPT ![w] = "open"] /\ journal' = NoFile /\ wpc[w] = "writing"
    BY DEF CommitWrite, rebuildVars
  <1>4. handle[w] = target /\ target \in Inodes /\ target # NoFile /\ undo = NoFile
    BY <1>1, <1>3 DEF Journaled, Connected
  <1>5. PICK f \in Files : /\ disk' = [disk EXCEPT ![target].files = @ \cup {f}]
                           /\ acked' = acked \cup {f}
    BY <1>4 DEF CommitWrite
  <1>6. disk[target] \in Databases
    BY <1>1, <1>4 DEF TypeOK
  <1>7. disk'[target] = [disk[target] EXCEPT !.files = disk[target].files \cup {f}]
    BY <1>1, <1>4, <1>5 DEF TypeOK
  <1>8. /\ disk'[target].files = disk[target].files \cup {f}
        /\ disk'[target].kind = disk[target].kind
    BY <1>6, <1>7 DEF Databases
  <1>9. \A i \in Inodes \ {target} : disk'[i] = disk[i]
    BY <1>1, <1>5 DEF TypeOK
  <1>10. Rows' = Rows \cup {f} /\ Rows' = disk'[target].files
    BY <1>3, <1>4, <1>8 DEF Rows
  <1>11. \A v \in Writers : wpc'[v] # "writing"
    BY <1>1, <1>3 DEF Journaled, TypeOK
  <1>12. Journaled'
    BY <1>3, <1>11 DEF Journaled
  <1>13. Whole' /\ Kept'
    BY <1>1, <1>3, <1>4, <1>5, <1>8, <1>10 DEF Whole, Kept
  <1>14. \A r \in Rebuilders : pc[r] \in Holding => disk'[candidate[r]] = disk[candidate[r]]
    BY <1>9 DEF IInv, Placed, Apart
  <1>15. \A r \in Rebuilders : pc[r] \in Reading =>
           disk'[source[r]].files = disk[source[r]].files \/ Rows' = disk'[source[r]].files
    BY <1>9, <1>10 DEF IInv, Placed
  <1>16. QED
    BY <1>2, <1>3, <1>10, <1>12, <1>13, <1>14, <1>15, WriterLocal

\* A connection is closed, or its process killed; only a transaction that is
\* given up takes the journal with it.
LEMMA CloseSafe ==
    ASSUME IInv, PInv, NEW w \in Writers, CloseInPlace(w) \/ KillWriter(w)
    PROVE  PInv'
  <1>1. TypeOK /\ Journaled /\ Whole /\ Kept
    BY DEF IInv, PInv
  <1>2. /\ UNCHANGED <<rebuildVars, acked, target, disk, flushed, undo>> /\ UNCHANGED pc
        /\ wpc' = [wpc EXCEPT ![w] = "closed"] /\ handle' = [handle EXCEPT ![w] = NoFile]
        /\ journal' = journal \/ (journal' = NoFile /\ wpc[w] = "writing")
    BY DEF CloseInPlace, KillWriter, rebuildVars, fileVars
  <1>3. Rows' = Rows
    BY <1>2 DEF Rows
  <1>4. Whole' /\ Kept'
    BY <1>1, <1>2, <1>3 DEF Whole, Kept
  <1>5. \A v \in Writers :
          wpc'[v] = "writing" => v # w /\ wpc[v] = "writing" /\ handle'[v] = handle[v]
    BY <1>1, <1>2 DEF TypeOK
  <1>6. Journaled'
    BY <1>1, <1>2, <1>5 DEF Journaled
  <1>7. QED
    BY <1>2, <1>3, <1>4, <1>6, WriterLocal

\* After a loss of power the path names a flushed database with every
\* acknowledged row: the new one, or the one before the last rename.
LEMMA PowerSafe ==
    ASSUME IInv, PInv, LosePower
    PROVE  PInv'
  <1> USE RebuildAssumption
  <1>1. TypeOK /\ Journaled /\ Whole /\ Kept
    BY DEF IInv, PInv
  <1>2. /\ \A r \in Rebuilders : pc'[r] \in {"returned", "crashed"}
        /\ \A w \in Writers : wpc'[w] = "closed"
        /\ undo' = NoFile /\ UNCHANGED <<journal, flushed, had, acked>>
        /\ target' = target \/ (target' = undo /\ undo # NoFile)
    BY DEF LosePower
  <1>3. /\ \A i \in flushed : disk'[i] = disk[i]
        /\ flushed \subseteq Inodes
    BY <1>1 DEF LosePower, TypeOK
  <1>4. target' # NoFile => /\ target' \in flushed /\ disk'[target'].kind # "torn"
                            /\ disk'[target'] = disk[target']
    BY <1>1, <1>2, <1>3 DEF Whole
  <1>5. target # NoFile => target' # NoFile
    BY <1>2
  <1>6. acked \subseteq Rows'
    <2>1. CASE target' = target
      BY <1>1, <1>4, <2>1 DEF Kept, Rows
    <2>2. CASE target' = undo /\ undo # NoFile
      BY <1>1, <1>4, <2>2 DEF Kept, Rows
    <2>3. QED
      BY <1>2, <2>1, <2>2
  <1>7. Journaled'
    BY <1>1, <1>2 DEF Journaled
  <1>8. Whole' /\ Kept'
    BY <1>2, <1>4, <1>6 DEF Whole, Kept
  <1>9. \A r \in Rebuilders : Ready(r)'
    BY <1>2 DEF Ready, Window
  <1>10. \A r \in Rebuilders : Captured(r)'
    BY <1>2, <1>5 DEF PInv, Captured, Reading, Window
  <1>11. QED
    BY <1>7, <1>8, <1>9, <1>10 DEF PInv

\* PInv holds of every initial state.
LEMMA InitPublication == Init => PInv
  <1> USE RebuildAssumption
  <1> SUFFICES ASSUME Init PROVE PInv
    OBVIOUS
  <1>1. PICK first \in Inodes,
             db \in [kind : Kinds \ {"torn"}, files : SUBSET Files, indexed : {{}}] :
          /\ target \in {first, NoFile}
          /\ target = NoFile => db = EmptyDb
          /\ disk = [i \in Inodes |-> IF i = first THEN db ELSE EmptyDb]
          /\ acked = db.files
          /\ flushed = {first}
    <2>1. (CHOOSE i \in Inodes : TRUE) \in Inodes
      OBVIOUS
    <2>2. QED
      BY <2>1 DEF Init
  <1>2. target # NoFile => disk[target] = db /\ db.kind # "torn"
    BY <1>1 DEF Kinds
  <1>3. acked \subseteq Rows
    BY <1>1, <1>2 DEF Rows, EmptyDb
  <1>4. Journaled /\ Whole /\ Kept
    BY <1>1, <1>2, <1>3 DEF Init, Journaled, Whole, Kept
  <1>5. \A r \in Rebuilders : Ready(r) /\ Captured(r)
    BY DEF Init, Ready, Captured, Reading, Window
  <1>6. QED
    BY <1>4, <1>5 DEF PInv

\* Every step keeps PInv, if writers stay out of the publication window.
LEMMA StepPublication ==
    ASSUME ~MayRace
    PROVE  IInv /\ PInv /\ [Next]_vars => PInv'
  <1> SUFFICES ASSUME IInv, PInv, [Next]_vars PROVE PInv'
    OBVIOUS
  <1>1. ASSUME NEW r \in Rebuilders, RebuildStep(r) PROVE PInv'
    BY <1>1, CaptureSafe, BuildSafe, GateSafe, RenameSafe, ReturnSafe DEF RebuildStep
  <1>2. ASSUME NEW r \in Rebuilders, KillRebuild(r) PROVE PInv'
    <2>1. Aside(r)
      BY <1>2, OthersStandAside DEF IInv
    <2>2. pc'[r] = "crashed"
      BY <1>2 DEF KillRebuild, Goto, IInv, TypeOK
    <2>3. QED
      BY <1>2, <2>1, <2>2, RebuildEnds DEF KillRebuild, fileVars, writerVars
  <1>3. ASSUME NEW w \in Writers, WriterStep(w) \/ KillWriter(w) PROVE PInv'
    BY <1>3, OpenSafe, BeginSafe, CommitSafe, CloseSafe DEF WriterStep
  <1>4. CASE LosePower
    BY <1>4, PowerSafe
  <1>5. CASE UNCHANGED vars
    <2>1. Rows' = Rows
      BY <1>5 DEF vars, fileVars, Rows
    <2>2. UNCHANGED rebuildVars /\ UNCHANGED <<target, disk, flushed>>
      BY <1>5 DEF vars, fileVars
    <2>3. Journaled' /\ Whole' /\ Kept'
      BY <1>5, <2>1 DEF vars, fileVars, rebuildVars, writerVars, PInv, Journaled, Whole, Kept
    <2>4. QED
      BY <2>1, <2>2, <2>3, WriterLocal
  <1>6. QED
    BY <1>1, <1>2, <1>3, <1>4, <1>5 DEF Next, Quiet

\* The invariant of every behaviour in which no writer slips in.
LEMMA Publication ==
    ASSUME ~MayRace
    PROVE  Spec => [](IInv /\ PInv)
  <1>1. IInv /\ PInv /\ [Next]_vars => PInv'
    BY StepPublication
  <1>2. QED
    BY <1>1, InitInvariant, StepInvariant, InitPublication, PTL DEF Spec

-----------------------------------------------------------------------------
(***************************************************************************)
(* What publish_clean_rebuild_candidate promises, where no writer acts     *)
(* between its last look at the serving database and the rename.           *)
(***************************************************************************)

\* No acknowledged row is lost: by a rebuild that replaces the database it was
\* captured from, by several of them at once, by a crash at any step, or by a
\* rename that a loss of power undoes.
THEOREM WritesKept ==
    ASSUME ~MayRace
    PROVE  Spec => []NoWriteLost
  <1>1. PInv => NoWriteLost
    BY DEF PInv, Kept, Rows, NoWriteLost
  <1>2. QED
    BY <1>1, Publication, PTL

\* publish_file_atomically: the index path names a whole database at every
\* instant, after every crash and every loss of power too.
THEOREM AlwaysWhole ==
    ASSUME ~MayRace
    PROVE  Spec => []TargetWhole
  <1>1. PInv => TargetWhole
    BY DEF PInv, Whole, TargetWhole
  <1>2. QED
    BY <1>1, Publication, PTL

\* A rename puts a candidate in service that verify_clean_rebuild_candidate
\* passed and nothing changed since, with the rows of the database it replaces.
THEOREM PublishesVerified ==
    ASSUME ~MayRace
    PROVE  Spec => OnlyVerifiedPublished
  <1>1. ASSUME IInv, PInv, [Next]_vars, NEW r \in Rebuilders,
               pc[r] = "rename", pc'[r] = "sync_dir"
        PROVE  /\ disk[target'].kind = "current"
               /\ disk[target'].indexed = disk[target'].files
               /\ target # NoFile => disk[target'].files = disk[target].files
    <2>1. target' = candidate[r]
      <3>1. pc'[r] # pc[r]
        BY <1>1
      <3>2. ~UNCHANGED pc /\ ~LosePower /\ \A w \in Writers : ~(WriterStep(w) \/ KillWriter(w))
        BY <1>1, <3>1 DEF LosePower, WriterStep, OpenInPlace, BeginWrite, CommitWrite,
             CloseInPlace, KillWriter, rebuildVars
      <3>3. PICK q \in Rebuilders : RebuildStep(q) \/ KillRebuild(q)
        BY <1>1, <3>2 DEF Next, Quiet, vars, rebuildVars
      <3>4. q = r
        BY <3>1, <3>3, OthersStandAside, <1>1 DEF Aside, IInv
      <3>5. CASE Rename(r)
        BY <1>1, <3>5 DEF Rename, Refuse, Goto, IInv, TypeOK
      <3>6. CASE ~Rename(r)
        BY <1>1, <3>3, <3>4, <3>6 DEF RebuildStep, CheckSource, LookForDatabase, TakeDigest,
             OpenSource, ReadCopy, ReadCatalog, ReadInputs, CreateCandidate, ReplayInputs,
             IndexCandidate, Verify, CheckDigest, CheckSidecars, SyncCandidate, SyncDirectory,
             KillRebuild, Goto, IInv, TypeOK
      <3>7. QED
        BY <3>5, <3>6
    <2>2. Ready(r) /\ Captured(r)
      BY <1>1 DEF PInv
    <2>3. QED
      BY <1>1, <2>1, <2>2 DEF Ready, Captured, Window, Rows
  <1>2. IInv /\ PInv /\ [Next]_vars =>
          [\A r \in Rebuilders : pc[r] = "rename" /\ pc'[r] = "sync_dir" =>
             /\ disk[target'].kind = "current"
             /\ disk[target'].indexed = disk[target'].files
             /\ target # NoFile => disk[target'].files = disk[target].files]_vars
    BY <1>1
  <1>3. QED
    BY <1>2, Publication, PTL DEF Spec, OnlyVerifiedPublished
=============================================================================
