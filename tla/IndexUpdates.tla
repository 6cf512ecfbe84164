---------------------------- MODULE IndexUpdates ----------------------------
(***************************************************************************)
(* Keeping one index up to date: the passes of run_index_pass over a       *)
(* source tree that is edited between them (src/application/services.cpp), *)
(* with the translation-unit fact cache in front of extraction             *)
(* (tu_fact_cache_service.cpp) and the identity stamped on the database    *)
(* (storage_query.cpp).                                                    *)
(*                                                                         *)
(* Only the serial path consults the cache; a pass that extracts in        *)
(* parallel publishes what a serial uncached one would (ParallelIndex), so *)
(* it is an uncached pass here.  One unit is one step: files that change   *)
(* while a unit is parsed are the business of ParallelIndex.  Facts are    *)
(* represented by the contents they were extracted from.                   *)
(***************************************************************************)
EXTENDS Integers, Sequences, FiniteSets, Functions

CONSTANTS
  Order,         \* translation units in list_files order
  Owned,         \* headers below a component root
  Unowned,       \* headers outside every component
  Contents,      \* what a file may contain
  Includes,      \* file -> content -> files the directives of that content open
  Forced,        \* unit -> generated_inputs of its configuration (-include)
  Broken,        \* <<file, content>> that the front end cannot parse
  Kinds,         \* of passes: "full", "selected", "rebuild"
  Interrupts,    \* may a pass be cut short (work budget, cancellation, kill)
  EditsInPass,   \* may files change between two units of a pass
  MaxEdits, MaxPasses

None == "none"
Units == Range(Order)
Files == Units \cup Owned \cup Unowned

ASSUME UpdatesAssumption ==
  /\ IsInjective(Order) /\ None \notin Contents
  /\ Units \cap Owned = {} /\ Unowned \cap (Units \cup Owned) = {}
  /\ Includes \in [Files -> [Contents -> SUBSET (Owned \cup Unowned)]]
  /\ Forced \in [Units -> SUBSET (Owned \cup Unowned)]
  /\ Kinds \subseteq {"full", "selected", "rebuild"}
  /\ Interrupts \in BOOLEAN /\ EditsInPass \in BOOLEAN
  /\ MaxEdits \in Nat /\ MaxPasses \in Nat

VARIABLES
  disk,      \* file -> content
  rows,      \* file table: registered file -> [md5, indexed]
  facts,     \* registered file -> contents its facts were extracted from
  edges,     \* include_edge: <<unit whose configuration, source, destination>>
  applies,   \* file_config, role header: <<file, configuration it was seen under>>
  stamp,     \* the manifest stamp_index_identity stored, or NoStamp
  cache,     \* slot -> current entry of the fact cache; its field clean is history
  pass,      \* the running pass, or Idle; its fields undisturbed, faithful are history
  decision,  \* decision_ of the last index_one
  cut,       \* has a pass left something out since the last whole rebuild (history)
  edits, passes

vars == <<disk, rows, facts, edges, applies, stamp, cache, pass, decision, cut, edits, passes>>

Idle == [kind |-> None]
NoDecision == <<None, None>>
NoStamp == <<>>

\* The rows of a table after some are inserted or replaced.
Upsert(new, old) ==
  [x \in DOMAIN new \cup DOMAIN old |-> IF x \in DOMAIN new THEN new[x] ELSE old[x]]

-----------------------------------------------------------------------------
(* What the front end reads. *)

\* The least set that has the files of S and, with a file, what that file leads to.
Follow(leads, S) ==
  LET closed == {C \in SUBSET Files : S \subseteq C /\ \A g \in C : leads[g] \subseteq C}
  IN {f \in Files : \A C \in closed : f \in C}

\* Everything a translation unit opens, transitively, when the files hold d.
Opens(d) == [f \in Files |-> Includes[f][d[f]]]
Opened(d, u) == Follow(Opens(d), {u} \cup Forced[u])
Closure(u) == Opened(disk, u)

Snapshot(S) == Restrict(disk, S)
Parses(u) == \A f \in Closure(u) : <<f, disk[f]>> \notin Broken

\* index_status = kOk.
IsCurrent(rs, f) == f \in DOMAIN rs /\ rs[f].indexed /\ rs[f].md5 = disk[f]
Changed == {f \in DOMAIN rows : ~IsCurrent(rows, f)}

\* The normalized configuration of a unit, without its source: the units differ in
\* what they force in, and in nothing else.
Config(u) == Forced[u]
\* header_is_already_indexed, under the unit's configuration.
AlreadyIndexed(u, h) == IsCurrent(rows, h) /\ <<h, Config(u)>> \in applies

\* Mutant of Routes: headers outside every component are published too.
RoutesUnowned(u) == {u} \cup {h \in Closure(u) : ~AlreadyIndexed(u, h)}
\* Mutant of Routes: an indexed header counts as current whatever it holds now.
RoutesStale(u) ==
  {u} \cup {h \in Closure(u) \cap Owned :
              ~(h \in DOMAIN rows /\ rows[h].indexed /\ <<h, Config(u)>> \in applies)}
\* The files a unit publishes: its source, and the owned headers it opens that are
\* not indexed at their present content under its configuration.
Routes(u) == {u} \cup {h \in Closure(u) \cap Owned : ~AlreadyIndexed(u, h)}

-----------------------------------------------------------------------------
(* The identity of the index. *)

Manifest(rs) == [f \in DOMAIN rs |-> <<disk[f], rs[f].indexed>>]
FreshnessOf(rs) ==
  CASE stamp = NoStamp -> "unknown"
    [] stamp # NoStamp /\ stamp = Manifest(rs) /\ (\A f \in DOMAIN rs : rs[f].indexed) -> "current"
    [] OTHER -> "stale"

-----------------------------------------------------------------------------
(* Choosing the targets of a pass. *)

\* The reverse closure over the stored include edges.
Includers == [f \in Files |-> {e[2] : e \in {x \in edges : x[3] = f}}]
Reached(changed) == Units \cap Follow(Includers, changed)

\* Mutant of dependents_of_changed_inputs: one includer is thought enough, since it
\* refreshes the header for all.
OneDependent(changed, targeted) ==
  IF Reached(changed) \ targeted = {} THEN {}
  ELSE {CHOOSE u \in Reached(changed) \ targeted : TRUE}
\* The units it reaches, and those that force a changed file in, which are looked up
\* only when some changed file is not a target itself.
dependents_of_changed_inputs(changed, targeted) ==
  Reached(changed) \cup
  IF changed \subseteq targeted THEN {} ELSE {u \in Units : Forced[u] \cap changed # {}}

Targets(kind, selected) ==
  LET own == Changed \cap Units IN
  CASE kind = "rebuild" -> Units
    [] kind = "full" -> own \cup dependents_of_changed_inputs(Changed, own)
    [] kind = "selected" -> selected \cap own

\* The targets are taken in list_files order, or in that of the request when it names
\* the files; a work budget keeps the first n.
Before(v, u) == \E i, j \in DOMAIN Order : i < j /\ Order[i] = v /\ Order[j] = u
FirstOf(S, n) == {u \in S : Cardinality({v \in S : Before(v, u)}) < n}
Kept(kind, targets, n) ==
  CASE n = 0 -> {targets}
    [] n # 0 /\ kind = "selected" -> {S \in SUBSET targets : Cardinality(S) = n}
    [] OTHER -> {FirstOf(targets, n)}
IsNext(u) == u \in pass.todo /\ (pass.kind = "selected" \/ \A v \in pass.todo : ~Before(v, u))

\* The start of run_index_pass.  A rebuild first marks every row not indexed; a
\* work budget cuts the list.  The session that the units share takes the
\* workspace identity, which is part of the cache's slot, when it opens.
Begin(kind, selected, cached, budget) ==
  LET targets == Targets(kind, selected)
      rs == IF kind = "rebuild" THEN [f \in DOMAIN rows |-> [rows[f] EXCEPT !.indexed = FALSE]]
            ELSE rows
  IN
  /\ pass = Idle /\ passes < MaxPasses
  /\ budget # 0 => Interrupts /\ budget < Cardinality(targets)
  /\ rows' = rs
  /\ \E kept \in Kept(kind, targets, budget) :
       pass' = [kind |-> kind, todo |-> kept, truncated |-> budget # 0, cancelled |-> FALSE,
                failed |-> {}, undisturbed |-> TRUE, faithful |-> TRUE, cached |-> cached,
                workspace |-> <<stamp, FreshnessOf(rs)>>, digests |-> <<>>]
  /\ decision' = NoDecision
  /\ cut' = (cut \/ budget # 0 \/ kind = "selected")
  /\ passes' = passes + 1
  /\ UNCHANGED <<disk, facts, edges, applies, stamp, cache, edits>>

-----------------------------------------------------------------------------
(* index_one. *)

Slot(u) == <<u, pass.workspace>>
\* content_digest reads a file once in a pass and remembers what it found.
Digest(f) == IF f \in DOMAIN pass.digests THEN pass.digests[f] ELSE disk[f]
Remember(S) == Upsert([f \in S |-> Digest(f)], pass.digests)

\* Mutant of compute_identity: only the files a unit owns are digested.
OwnedIdentity(S) == [f \in S \ Unowned |-> Digest(f)]
\* The identity of an entry: the digest of the source and of every dependency.
compute_identity(S) == [f \in S |-> Digest(f)]

\* try_replay: the entry of the slot, if the files it names still have the
\* contents in its identity and the files it would publish are unchanged on disk.
Replayable(u) ==
  /\ pass.cached /\ Slot(u) \in DOMAIN cache
  /\ LET entry == cache[Slot(u)] IN
     /\ compute_identity(entry.seen) = entry.identity
     /\ \A f \in DOMAIN entry.routes : disk[f] = entry.routes[f][f]

Advance(u, failed) == [pass EXCEPT !.todo = @ \ {u}, !.failed = @ \cup failed]

\* The writer's transaction: rows, facts and the include edges of the routed files.
\* Edges that another unit recorded for a header stay.  The registered files at
\* either end of a new edge are noted as seen under the unit's configuration; a file
\* that is only forced in has no edge and is not.
Apply(u, routes, es) ==
  /\ rows' = Upsert([f \in DOMAIN routes |-> [md5 |-> routes[f][f], indexed |-> TRUE]], rows)
  /\ facts' = Upsert(routes, facts)
  /\ edges' = {e \in edges : ~(e[1] = u /\ e[2] \in DOMAIN routes)} \cup es
  /\ applies' = applies \cup
       {<<f, Config(u)>> : f \in DOMAIN rows' \cap UNION {{e[2], e[3]} : e \in es}}

DirectiveEdges(u, S) == UNION {{<<u, f, g>> : g \in Includes[f][disk[f]]} : f \in S}

\* History: the entry was not made in a disturbed pass, and the owned headers that it
\* does not publish, because they were current when it was made, are so now.
Whole(u) ==
  LET entry == cache[Slot(u)] IN
  entry.clean /\ \A h \in (entry.seen \cap Owned) \ DOMAIN entry.routes : IsCurrent(rows, h)

Replay(u) ==
  /\ Replayable(u)
  /\ Apply(u, cache[Slot(u)].routes, cache[Slot(u)].edges)
  /\ pass' = [Advance(u, {}) EXCEPT !.digests = Remember({u} \cup cache[Slot(u)].seen),
                                   !.faithful = @ /\ Whole(u)]
  /\ decision' = <<u, "replayed">>
  /\ cut' = (cut \/ ~Whole(u))
  /\ UNCHANGED cache

\* What try_replay digests: the source, then what the entry of the slot names.
Looked(u) == {u} \cup IF Slot(u) \in DOMAIN cache THEN cache[Slot(u)].seen ELSE {}

\* A miss extracts and publishes.  What the identity of the new entry names is
\* digested after the extraction, or was digested earlier in the pass.
Extract(u) ==
  LET S == Closure(u)
      routes == [f \in Routes(u) |-> Snapshot(S)]
      es == DirectiveEdges(u, Routes(u))
      entry == [seen |-> S, identity |-> compute_identity(S), routes |-> routes, edges |-> es,
                clean |-> pass.undisturbed]
  IN
  /\ ~Replayable(u) /\ Parses(u)
  /\ Apply(u, routes, es)
  /\ cache' = IF pass.cached THEN Upsert([s \in {Slot(u)} |-> entry], cache) ELSE cache
  /\ pass' = [Advance(u, {}) EXCEPT !.digests = IF pass.cached THEN Remember(S \cup Looked(u)) ELSE @]
  /\ decision' = <<u, "extracted">>
  /\ UNCHANGED cut

\* record_outcome of a failed unit: it is left for a later pass.
Fail(u) ==
  /\ ~Replayable(u) /\ ~Parses(u)
  /\ rows' = [rows EXCEPT ![u].indexed = FALSE]
  /\ pass' = [Advance(u, {u}) EXCEPT !.digests = IF pass.cached THEN Remember(Looked(u)) ELSE @]
  /\ decision' = <<u, "failed">>
  /\ UNCHANGED <<facts, edges, applies, cache, cut>>

index_one(u) ==
  /\ Replay(u) \/ Extract(u) \/ Fail(u)
  /\ UNCHANGED <<disk, stamp, edits, passes>>

-----------------------------------------------------------------------------
(* The end of a pass, and what may cut it short. *)

Complete ==
  /\ ~pass.truncated /\ ~pass.cancelled /\ pass.failed = {}
  /\ \A f \in DOMAIN rows : IsCurrent(rows, f)

Finish ==
  /\ pass # Idle /\ pass.todo = {}
  /\ stamp' = IF Complete THEN Manifest(rows) ELSE stamp
  /\ pass' = Idle
  /\ cut' = (cut /\ ~(Complete /\ pass.kind = "rebuild" /\ pass.faithful))
  /\ UNCHANGED <<disk, rows, facts, edges, applies, cache, decision, edits, passes>>

\* The loop sees the cancellation before its next unit.
Cancel ==
  /\ Interrupts /\ pass # Idle /\ pass.todo # {}
  /\ pass' = [pass EXCEPT !.todo = {}, !.cancelled = TRUE]
  /\ cut' = TRUE
  /\ UNCHANGED <<disk, rows, facts, edges, applies, stamp, cache, decision, edits, passes>>

Kill ==
  /\ Interrupts /\ pass # Idle
  /\ pass' = Idle
  /\ cut' = TRUE
  /\ UNCHANGED <<disk, rows, facts, edges, applies, stamp, cache, decision, edits, passes>>

Edit(f, c) ==
  /\ edits < MaxEdits /\ (pass = Idle \/ EditsInPass)
  /\ disk[f] # c
  /\ disk' = [disk EXCEPT ![f] = c]
  /\ edits' = edits + 1
  /\ cut' = (cut \/ pass # Idle)
  /\ pass' = IF pass = Idle THEN pass ELSE [pass EXCEPT !.undisturbed = FALSE, !.faithful = FALSE]
  /\ UNCHANGED <<rows, facts, edges, applies, stamp, cache, decision, passes>>

\* Every unit has been imported, nothing has been indexed.
Init ==
  /\ \E c \in Contents : disk = [f \in Files |-> c]
  /\ rows = [u \in Units |-> [md5 |-> None, indexed |-> FALSE]]
  /\ facts = <<>> /\ edges = {} /\ applies = {} /\ stamp = NoStamp /\ cache = <<>>
  /\ pass = Idle /\ decision = NoDecision /\ cut = FALSE
  /\ edits = 0 /\ passes = 0

Next ==
  \/ \E kind \in Kinds, cached \in BOOLEAN, budget \in 0..Len(Order) :
       \E selected \in (IF kind = "selected" THEN SUBSET Units ELSE {{}}) :
         Begin(kind, selected, cached, budget)
  \/ pass # Idle /\ \E u \in Units : IsNext(u) /\ index_one(u)
  \/ Finish \/ Cancel \/ Kill
  \/ \E f \in Files, c \in Contents : Edit(f, c)

Spec == Init /\ [][Next]_vars

-----------------------------------------------------------------------------
(* Properties. *)

TypeOK ==
  /\ disk \in [Files -> Contents]
  /\ Units \subseteq DOMAIN rows /\ DOMAIN rows \subseteq Units \cup Owned
  /\ \A f \in DOMAIN rows : rows[f] \in [md5 : Contents \cup {None}, indexed : BOOLEAN]
  /\ \A f \in DOMAIN facts : f \in DOMAIN facts[f] /\ DOMAIN facts[f] \subseteq Files
  /\ \A f \in DOMAIN rows : rows[f].md5 # None => f \in DOMAIN facts
  /\ edges \subseteq Units \X (Units \cup Owned) \X Files
  /\ applies \subseteq (DOMAIN rows) \X Range(Forced)
  /\ \A s \in DOMAIN cache : s[1] \in Units

\* What a full pass can see that a unit depends on: the files with a row that its
\* directives lead to through files with a row, and those its configuration forces in.
Tracked(d, u) ==
  Follow([f \in Files |-> Includes[f][d[f]] \ Unowned], {u}) \cup (Forced[u] \ Unowned)

\* When a full pass would find nothing changed, the facts of every unit were extracted
\* from what the unit's source and each file it is seen to depend on hold now, unless
\* since the last whole rebuild a pass was cut short, was given only some of the files,
\* had files change under it or replayed an entry that was not whole.  It takes a
\* header's change to be noticed, carried back over the stored include edges and every
\* unit that is reached to be indexed again.
UnitFactsMatch ==
  \A u \in Units : \A f \in Tracked(disk, u) :
    u \in DOMAIN facts /\ f \in DOMAIN facts[u] /\ facts[u][f] = disk[f]
UnitsCurrent == pass = Idle /\ ~cut /\ Changed = {} => UnitFactsMatch

\* A replayed unit has the facts its extraction would have produced, files outside
\* every component included, and so has each header replayed with it.  Neither the
\* replay nor the extraction it repeats may have come after a change in the middle of
\* a pass: the digests a pass remembers are then those of other contents.
HitSound ==
  [][\A u \in Units :
       /\ decision' = <<u, "replayed">> /\ decision' # decision
       /\ pass.undisturbed /\ cache[Slot(u)].clean
       => \A f \in DOMAIN cache[Slot(u)].routes : facts'[f] = Snapshot(Closure(u))]_vars

Finished == /\ pass # Idle /\ pass' = Idle /\ pass.kind = "full" /\ pass.todo = {}
            /\ pass.faithful /\ ~pass.truncated /\ ~pass.cancelled /\ pass.failed = {}
Covered == \A u \in Units : \A f \in Tracked(disk, u) : IsCurrent(rows, f)

\* After a full pass in which every unit could be indexed, no file changed and every
\* replay was whole, the facts of each unit come from the present contents, also of a
\* unit that an earlier pass should have reached and did not.
PassUpdatesUnits == [][Finished => UnitFactsMatch']_vars

\* After such a pass each unit, and each owned header it is seen to depend on, is
\* indexed at its present content, whatever earlier passes left out.
PassCovers == [][Finished => Covered']_vars
=============================================================================
