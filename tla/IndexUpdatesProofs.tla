------------------------- MODULE IndexUpdatesProofs -------------------------
(***************************************************************************)
(* Proofs about IndexUpdates: the type invariant, what a cache hit         *)
(* publishes, what a full pass covers, and that the facts of an index in   *)
(* which nothing is found changed are those of the present sources.        *)
(***************************************************************************)
EXTENDS IndexUpdates, TLAPS

-----------------------------------------------------------------------------
(***************************************************************************)
(* The inductive invariant, beside TypeOK.                                 *)
(***************************************************************************)

\* What the rows say a file leads to: the owned headers its directives opened when it
\* was last published.  RowTracked is Tracked at the contents the rows record.
Known(rs) == {f \in DOMAIN rs : rs[f].md5 # None}
RowLeads(rs) ==
  [f \in Files |-> IF f \in Known(rs) THEN Includes[f][rs[f].md5] \ Unowned ELSE {}]
RowTracked(rs, u) == Follow(RowLeads(rs), {u}) \cup (Forced[u] \ Unowned)

\* The stored edges and rows keep up with the contents the rows record: whatever a
\* published file opened has an edge to it and, below a component, a row.
RowsClosed ==
  /\ \A f \in DOMAIN rows : f \in Owned \/ rows[f].indexed => rows[f].md5 # None
  /\ \A f \in Known(rows) :
       /\ Includes[f][rows[f].md5] \ Unowned \subseteq DOMAIN rows
       /\ \A g \in Includes[f][rows[f].md5] : \E e \in edges : e[2] = f /\ e[3] = g
       /\ f \in Units => Forced[f] \ Unowned \subseteq DOMAIN rows

\* The include edges of the files in S, published for u when the files hold d.
EdgesOf(d, u, S) == UNION {{<<u, f, g>> : g \in Includes[f][d[f]]} : f \in S}
\* What a unit publishes for the files in S when the files hold d.
RoutesOf(d, u, S) == [f \in S |-> Restrict(d, Opened(d, u))]
\* The files that a unit may publish when the files hold d.
Publishable(d, u, S) ==
  /\ u \in Units /\ u \in S /\ S \subseteq Opened(d, u) \ Unowned

\* A cache entry is what some earlier contents of the files gave, and its identity is
\* theirs unless files had changed in the pass that made it.
EntryOf(entry, d, u, registered) ==
  /\ Publishable(d, u, DOMAIN entry.routes)
  /\ entry.seen = Opened(d, u)
  /\ entry.routes = RoutesOf(d, u, DOMAIN entry.routes)
  /\ entry.edges = EdgesOf(d, u, DOMAIN entry.routes)
  /\ entry.clean => entry.identity = Restrict(d, Opened(d, u))
  /\ Opened(d, u) \ Unowned \subseteq registered
CacheOK ==
  \A s \in DOMAIN cache : \E d \in [Files -> Contents] : EntryOf(cache[s], d, s[1], DOMAIN rows)

\* The fields of a running pass.  While the history says nothing was left out, the
\* pass is a whole one; while no file has changed, its digests are those of the files.
PassFields == {"kind", "todo", "truncated", "cancelled", "failed", "undisturbed",
               "faithful", "cached", "workspace", "digests"}
PassOK ==
  /\ cut \in BOOLEAN
  /\ pass # Idle =>
       /\ DOMAIN pass = PassFields
       /\ pass.kind \in {"full", "selected", "rebuild"}
       /\ pass.todo \subseteq Units /\ pass.failed \subseteq Units
       /\ {pass.truncated, pass.cancelled, pass.undisturbed, pass.faithful} \subseteq BOOLEAN
       /\ DOMAIN pass.digests \subseteq Files
       /\ pass.faithful => pass.undisturbed
       /\ pass.undisturbed => \A f \in DOMAIN pass.digests : pass.digests[f] = disk[f]
       /\ ~cut => pass.faithful /\ ~pass.truncated /\ ~pass.cancelled /\ pass.kind # "selected"

\* The units that a pass which has left nothing out is done with: what they are seen to
\* depend on is indexed at its present content.
WholePass == /\ pass # Idle /\ pass.faithful /\ ~pass.cancelled
             /\ pass.kind = "rebuild" \/ (pass.kind = "full" /\ ~pass.truncated)
CurrentUnit(u) == \A f \in Tracked(disk, u) : IsCurrent(rows, f)
PassRows == WholePass => \A u \in Units \ pass.todo : rows[u].indexed => CurrentUnit(u)

\* A unit that a full pass need not index, or has indexed, is marked so.
PassIndexed ==
  pass # Idle /\ pass.kind = "full" /\ ~pass.truncated /\ ~pass.cancelled =>
    \A u \in Units \ (pass.todo \cup pass.failed) : rows[u].indexed

\* Their facts are those of the present contents, in a rebuild and in every pass when
\* nothing had been left out before it.
MatchingUnit(u) ==
  u \in DOMAIN facts /\ \A f \in Tracked(disk, u) : f \in DOMAIN facts[u] /\ facts[u][f] = disk[f]
PassFacts ==
  pass # Idle /\ pass.faithful /\ ~pass.cancelled /\ (pass.kind = "rebuild" \/ ~cut) =>
    \A u \in Units \ pass.todo : rows[u].indexed => MatchingUnit(u)

\* Between passes, the facts of a unit are those of the contents that the rows record
\* for what the unit was seen to depend on.
IdleFacts ==
  pass = Idle /\ ~cut =>
    \A u \in Units : rows[u].indexed =>
      /\ u \in DOMAIN facts
      /\ \A f \in RowTracked(rows, u) : f \in DOMAIN facts[u] /\ facts[u][f] = rows[f].md5

UpdatesInv ==
  /\ TypeOK /\ RowsClosed /\ CacheOK /\ PassOK
  /\ PassRows /\ PassIndexed /\ PassFacts /\ IdleFacts

-----------------------------------------------------------------------------
(* What Follow computes. *)

\* Leads are followed from file to file.
Leads == [Files -> SUBSET Files]

LEMMA FollowFiles ==
  ASSUME NEW leads, NEW S
  PROVE  Follow(leads, S) \in SUBSET Files
BY DEF Follow

LEMMA FollowSeeds ==
  ASSUME NEW leads, NEW S \in SUBSET Files
  PROVE  S \subseteq Follow(leads, S)
BY DEF Follow

LEMMA FollowClosed ==
  ASSUME NEW leads \in Leads, NEW S, NEW f \in Follow(leads, S)
  PROVE  leads[f] \subseteq Follow(leads, S)
BY DEF Follow, Leads

LEMMA FollowLeast ==
  ASSUME NEW leads, NEW S, NEW C \in SUBSET Files,
         S \subseteq C, \A g \in C : leads[g] \subseteq C
  PROVE  Follow(leads, S) \subseteq C
BY DEF Follow

\* Two ways of leading on that agree on what one of them reaches reach the same.
LEMMA FollowAgree ==
  ASSUME NEW a \in Leads, NEW b \in Leads, NEW S \in SUBSET Files,
         \A f \in Follow(a, S) : a[f] = b[f]
  PROVE  Follow(a, S) = Follow(b, S)
<1> DEFINE A == Follow(a, S)
           B == Follow(b, S)
<1>1. A \in SUBSET Files /\ B \in SUBSET Files /\ S \subseteq A /\ S \subseteq B
  BY FollowFiles, FollowSeeds
<1>2. \A g \in A : a[g] \subseteq A
  BY FollowClosed
<1>3. \A g \in B : b[g] \subseteq B
  BY FollowClosed
<1>4. B \subseteq A
  <2>1. \A g \in A : b[g] \subseteq A
    BY <1>2
  <2>2. QED
    BY <1>1, <2>1, FollowLeast
<1>5. A \subseteq A \cap B
  <2>1. \A g \in A \cap B : a[g] \subseteq A \cap B
    BY <1>2, <1>3
  <2>2. A \cap B \in SUBSET Files /\ S \subseteq A \cap B
    BY <1>1
  <2> HIDE DEF A, B
  <2>3. Follow(a, S) \subseteq A \cap B
    BY <2>1, <2>2, FollowLeast
  <2>4. QED
    BY <2>3 DEF A
<1>6. QED
  BY <1>4, <1>5
-----------------------------------------------------------------------------
(* What the front end opens and what a pass tracks. *)

LEMMA FilesKinds ==
  /\ Units \subseteq Files /\ Owned \subseteq Files /\ Unowned \subseteq Files
  /\ Files = Units \cup Owned \cup Unowned
  /\ Units \cap Owned = {} /\ Unowned \cap Units = {} /\ Unowned \cap Owned = {}
BY UpdatesAssumption DEF Files

LEMMA IncludesType ==
  ASSUME NEW f \in Files, NEW c \in Contents
  PROVE  Includes[f][c] \in SUBSET (Owned \cup Unowned)
BY UpdatesAssumption

LEMMA OpensLeads ==
  ASSUME NEW d \in [Files -> Contents]
  PROVE  /\ Opens(d) \in Leads
         /\ \A f \in Files : Opens(d)[f] = Includes[f][d[f]]
BY IncludesType, FilesKinds DEF Opens, Leads

\* The leads that Tracked follows.
OwnedLeads(d) == [f \in Files |-> Includes[f][d[f]] \ Unowned]

LEMMA OwnedLeadsLeads ==
  ASSUME NEW d \in [Files -> Contents]
  PROVE  /\ OwnedLeads(d) \in Leads
         /\ \A f \in Files : OwnedLeads(d)[f] = Includes[f][d[f]] \ Unowned
BY IncludesType, FilesKinds DEF OwnedLeads, Leads

LEMMA ForcedType ==
  ASSUME NEW u \in Units
  PROVE  Forced[u] \in SUBSET (Owned \cup Unowned)
BY UpdatesAssumption

LEMMA OpenedProps ==
  ASSUME NEW d \in [Files -> Contents], NEW u \in Units
  PROVE  /\ Opened(d, u) \in SUBSET Files
         /\ u \in Opened(d, u) /\ Forced[u] \subseteq Opened(d, u)
         /\ \A f \in Opened(d, u) : Includes[f][d[f]] \subseteq Opened(d, u)
         /\ Opened(d, u) \subseteq {u} \cup Owned \cup Unowned
<1> DEFINE S == {u} \cup Forced[u]
<1>1. S \in SUBSET Files
  BY FilesKinds, ForcedType
<1>2. Opened(d, u) = Follow(Opens(d), S)
  BY DEF Opened
<1>3. Opens(d) \in Leads /\ \A f \in Files : Opens(d)[f] = Includes[f][d[f]]
  BY OpensLeads
<1> HIDE DEF S
<1>4. Opened(d, u) \in SUBSET Files /\ S \subseteq Opened(d, u)
  BY <1>1, <1>2, FollowFiles, FollowSeeds
<1>5. \A f \in Opened(d, u) : Includes[f][d[f]] \subseteq Opened(d, u)
  <2>1. \A f \in Follow(Opens(d), S) : Opens(d)[f] \subseteq Follow(Opens(d), S)
    BY <1>3, FollowClosed
  <2>2. QED
    BY <2>1, <1>2, <1>3, <1>4
<1>6. Opened(d, u) \subseteq {u} \cup Owned \cup Unowned
  <2> DEFINE C == {u} \cup Owned \cup Unowned
  <2>1. C \in SUBSET Files /\ S \subseteq C
    BY FilesKinds, ForcedType DEF S
  <2>2. \A g \in C : Opens(d)[g] \subseteq C
    BY <1>3, <2>1, IncludesType
  <2> HIDE DEF C
  <2>3. Follow(Opens(d), S) \subseteq C
    BY <2>1, <2>2, FollowLeast
  <2>4. QED
    BY <2>3, <1>2 DEF C
<1>7. QED
  BY <1>4, <1>5, <1>6 DEF S

LEMMA OpenedAgree ==
  ASSUME NEW d \in [Files -> Contents], NEW e \in [Files -> Contents], NEW u \in Units,
         \A f \in Opened(d, u) : d[f] = e[f]
  PROVE  Opened(d, u) = Opened(e, u)
<1> DEFINE S == {u} \cup Forced[u]
<1>1. S \in SUBSET Files
  BY FilesKinds, ForcedType
<1>2. Opened(d, u) = Follow(Opens(d), S) /\ Opened(e, u) = Follow(Opens(e), S)
  BY DEF Opened
<1>3. /\ Opens(d) \in Leads /\ \A f \in Files : Opens(d)[f] = Includes[f][d[f]]
      /\ Opens(e) \in Leads /\ \A f \in Files : Opens(e)[f] = Includes[f][e[f]]
  BY OpensLeads
<1> HIDE DEF S
<1>4. \A f \in Follow(Opens(d), S) : Opens(d)[f] = Opens(e)[f]
  BY <1>2, <1>3, OpenedProps
<1>5. QED
  BY <1>1, <1>2, <1>3, <1>4, FollowAgree

LEMMA TrackedProps ==
  ASSUME NEW d \in [Files -> Contents], NEW u \in Units
  PROVE  u \in Tracked(d, u) /\ Tracked(d, u) \subseteq Opened(d, u) \ Unowned
<1>1. Tracked(d, u) = Follow(OwnedLeads(d), {u}) \cup (Forced[u] \ Unowned)
  BY DEF Tracked, OwnedLeads
<1>2. OwnedLeads(d) \in Leads /\ \A f \in Files : OwnedLeads(d)[f] = Includes[f][d[f]] \ Unowned
  BY OwnedLeadsLeads
<1>3. u \in Follow(OwnedLeads(d), {u})
  BY FollowSeeds, FilesKinds
<1>4. Follow(OwnedLeads(d), {u}) \subseteq Opened(d, u) \ Unowned
  <2> DEFINE C == Opened(d, u) \ Unowned
  <2>1. C \in SUBSET Files /\ {u} \subseteq C
    BY OpenedProps, FilesKinds
  <2>2. \A g \in C : OwnedLeads(d)[g] \subseteq C
    BY <1>2, <2>1, OpenedProps
  <2> HIDE DEF C
  <2>3. QED
    BY <2>1, <2>2, FollowLeast DEF C
<1>5. QED
  BY <1>1, <1>3, <1>4, OpenedProps

-----------------------------------------------------------------------------
(* Tracked at the contents of the files and at those the rows record. *)

\* The rows of the type invariant.
RowsType(rs) ==
  /\ Units \subseteq DOMAIN rs /\ DOMAIN rs \subseteq Units \cup Owned
  /\ \A f \in DOMAIN rs : rs[f] \in [md5 : Contents \cup {None}, indexed : BOOLEAN]

LEMMA RowLeadsLeads ==
  ASSUME NEW rs, RowsType(rs)
  PROVE  /\ RowLeads(rs) \in Leads
         /\ \A f \in Known(rs) : f \in Files /\ RowLeads(rs)[f] = Includes[f][rs[f].md5] \ Unowned
<1>1. \A f \in Known(rs) : f \in Files /\ rs[f].md5 \in Contents
  BY FilesKinds DEF RowsType, Known
<1>2. \A f \in Known(rs) : Includes[f][rs[f].md5] \ Unowned \in SUBSET Files
  BY <1>1, IncludesType, FilesKinds
<1>3. QED
  BY <1>1, <1>2 DEF RowLeads, Leads

\* Rows that agree with the files on what either of them tracks track the same.
LEMMA RowsAgree ==
  ASSUME NEW rs, RowsType(rs), NEW d \in [Files -> Contents], NEW u \in Units,
         \/ \A f \in Tracked(d, u) : f \in Known(rs) /\ rs[f].md5 = d[f]
         \/ \A f \in RowTracked(rs, u) : f \in Known(rs) /\ rs[f].md5 = d[f]
  PROVE  Tracked(d, u) = RowTracked(rs, u)
<1>1. Tracked(d, u) = Follow(OwnedLeads(d), {u}) \cup (Forced[u] \ Unowned)
  BY DEF Tracked, OwnedLeads
<1>2. OwnedLeads(d) \in Leads /\ \A f \in Files : OwnedLeads(d)[f] = Includes[f][d[f]] \ Unowned
  BY OwnedLeadsLeads
<1>3. /\ RowLeads(rs) \in Leads
      /\ \A f \in Known(rs) : f \in Files /\ RowLeads(rs)[f] = Includes[f][rs[f].md5] \ Unowned
  BY RowLeadsLeads
<1>4. {u} \in SUBSET Files
  BY FilesKinds
<1>5. CASE \A f \in Tracked(d, u) : f \in Known(rs) /\ rs[f].md5 = d[f]
  <2>1. \A f \in Follow(OwnedLeads(d), {u}) : OwnedLeads(d)[f] = RowLeads(rs)[f]
    BY <1>1, <1>2, <1>3, <1>5
  <2>2. QED
    BY <1>1, <1>2, <1>3, <1>4, <2>1, FollowAgree DEF RowTracked
<1>6. CASE \A f \in RowTracked(rs, u) : f \in Known(rs) /\ rs[f].md5 = d[f]
  <2>1. \A f \in Follow(RowLeads(rs), {u}) : RowLeads(rs)[f] = OwnedLeads(d)[f]
    BY <1>2, <1>3, <1>6 DEF RowTracked
  <2>2. Follow(RowLeads(rs), {u}) = Follow(OwnedLeads(d), {u})
    BY <1>2, <1>3, <1>4, <2>1, FollowAgree
  <2>3. QED
    BY <1>1, <2>2 DEF RowTracked
<1>7. QED
  BY <1>5, <1>6

\* What the rows track has rows.
LEMMA RowTrackedKnown ==
  ASSUME TypeOK, RowsClosed, NEW u \in Units, u \in Known(rows)
  PROVE  RowTracked(rows, u) \subseteq Known(rows)
<1>1. RowsType(rows)
  BY DEF TypeOK, RowsType
<1>2. \A f \in Known(rows) : f \in Files /\ RowLeads(rows)[f] = Includes[f][rows[f].md5] \ Unowned
  BY <1>1, RowLeadsLeads
<1>3. \A f \in DOMAIN rows : f \in Owned => f \in Known(rows)
  BY DEF RowsClosed, Known
<1>4. \A f \in Known(rows) : RowLeads(rows)[f] \subseteq Known(rows)
  <2>1. SUFFICES ASSUME NEW f \in Known(rows), NEW g \in RowLeads(rows)[f] PROVE g \in Known(rows)
    OBVIOUS
  <2>2. g \in Includes[f][rows[f].md5] /\ g \notin Unowned
    BY <1>2, <2>1
  <2>3. rows[f].md5 \in Contents
    BY <1>1 DEF RowsType, Known
  <2>4. g \in Owned
    BY <1>2, <2>2, <2>3, IncludesType
  <2>5. g \in DOMAIN rows
    BY <2>2 DEF RowsClosed
  <2>6. QED
    BY <1>3, <2>4, <2>5
<1>5. Follow(RowLeads(rows), {u}) \subseteq Known(rows)
  BY <1>2, <1>4, FollowLeast
<1>6. Forced[u] \ Unowned \subseteq Known(rows)
  BY <1>3, ForcedType DEF RowsClosed
<1>7. QED
  BY <1>5, <1>6 DEF RowTracked

\* A changed file is carried back over the stored edges to every unit that is seen to
\* depend on it.
LEMMA DependentsReached ==
  ASSUME TypeOK, RowsClosed, NEW u \in Units, u \in Known(rows),
         NEW changed \in SUBSET Files, NEW f \in RowTracked(rows, u), f \in changed
  PROVE  u \in dependents_of_changed_inputs(changed, changed \cap Units)
<1>1. CASE f \in Forced[u] \ Unowned
  <2>1. f \notin Units
    BY <1>1, ForcedType, FilesKinds
  <2>2. ~(changed \subseteq changed \cap Units)
    BY <2>1
  <2>3. QED
    BY <1>1, <2>2 DEF dependents_of_changed_inputs
<1>2. CASE f \in Follow(RowLeads(rows), {u})
  <2> DEFINE B == Follow(Includers, changed)
  <2>1. SUFFICES ASSUME u \notin B PROVE FALSE
    BY DEF dependents_of_changed_inputs, Reached
  <2>2. Includers \in Leads
    BY FilesKinds DEF Includers, Leads, TypeOK
  <2>3. B \in SUBSET Files /\ changed \subseteq B
    BY FollowFiles, FollowSeeds
  <2>4. \A k \in B : Includers[k] \subseteq B
    BY <2>2, FollowClosed
  <2> HIDE DEF B
  <2> DEFINE C == Known(rows) \ B
  <2>5. RowsType(rows)
    BY DEF TypeOK, RowsType
  <2>6. \A g \in Known(rows) : g \in Files /\ RowLeads(rows)[g] = Includes[g][rows[g].md5] \ Unowned
    BY <2>5, RowLeadsLeads
  <2>7. C \in SUBSET Files /\ {u} \subseteq C
    BY <2>1, <2>6
  <2>8. \A g \in C : RowLeads(rows)[g] \subseteq C
    <3>1. SUFFICES ASSUME NEW g \in C, NEW k \in RowLeads(rows)[g] PROVE k \in C
      OBVIOUS
    <3>2. g \in Known(rows) /\ g \notin B /\ k \in Includes[g][rows[g].md5] /\ k \notin Unowned
      BY <2>6, <3>1
    <3>3. k \in Known(rows)
      <4>1. rows[g].md5 \in Contents /\ g \in Files
        BY <2>5, <2>6, <3>2 DEF RowsType, Known
      <4>2. k \in Owned
        BY <3>2, <4>1, IncludesType
      <4>3. k \in DOMAIN rows
        BY <3>2 DEF RowsClosed
      <4>4. QED
        BY <4>2, <4>3 DEF RowsClosed, Known
    <3>4. PICK e \in edges : e[2] = g /\ e[3] = k
      BY <3>2 DEF RowsClosed
    <3>5. g \in Includers[k]
      BY <2>6, <3>3, <3>4 DEF Includers
    <3>6. k \notin B
      BY <2>4, <3>2, <3>5
    <3>7. QED
      BY <3>3, <3>6
  <2> HIDE DEF C
  <2>9. Follow(RowLeads(rows), {u}) \subseteq C
    BY <2>7, <2>8, FollowLeast
  <2>10. QED
    BY <1>2, <2>3, <2>9 DEF C
<1>3. QED
  BY <1>1, <1>2 DEF RowTracked

-----------------------------------------------------------------------------
(* What the writer's transaction does to the database. *)

LEMMA PublishableProps ==
  ASSUME NEW d \in [Files -> Contents], NEW u, NEW S, Publishable(d, u, S)
  PROVE  /\ u \in Units /\ u \in S /\ S \subseteq Opened(d, u) /\ S \cap Unowned = {}
         /\ S \subseteq {u} \cup Owned /\ S \subseteq Files
BY OpenedProps, FilesKinds DEF Publishable

LEMMA ApplyRows ==
  ASSUME NEW d \in [Files -> Contents], NEW u, NEW S, Publishable(d, u, S),
         Apply(u, RoutesOf(d, u, S), EdgesOf(d, u, S))
  PROVE  /\ DOMAIN rows' = DOMAIN rows \cup S
         /\ \A f \in S : rows'[f] = [md5 |-> d[f], indexed |-> TRUE]
         /\ \A f \in DOMAIN rows \ S : rows'[f] = rows[f]
<1> DEFINE new == [f \in S |-> [md5 |-> d[f], indexed |-> TRUE]]
<1>1. \A f \in S : RoutesOf(d, u, S)[f][f] = d[f]
  BY PublishableProps DEF RoutesOf, Restrict
<1>2. DOMAIN RoutesOf(d, u, S) = S
  BY DEF RoutesOf
<1>3. rows' = Upsert(new, rows)
  BY <1>1, <1>2 DEF Apply
<1>4. QED
  BY <1>3 DEF Upsert

LEMMA ApplyFacts ==
  ASSUME NEW d \in [Files -> Contents], NEW u, NEW S, Publishable(d, u, S),
         Apply(u, RoutesOf(d, u, S), EdgesOf(d, u, S))
  PROVE  /\ DOMAIN facts' = DOMAIN facts \cup S
         /\ \A f \in S : facts'[f] = Restrict(d, Opened(d, u))
         /\ \A f \in DOMAIN facts \ S : facts'[f] = facts[f]
<1>1. facts' = Upsert(RoutesOf(d, u, S), facts)
  BY DEF Apply
<1>2. QED
  BY <1>1 DEF Upsert, RoutesOf

LEMMA ApplyEdges ==
  ASSUME NEW d \in [Files -> Contents], NEW u, NEW S, Publishable(d, u, S),
         Apply(u, RoutesOf(d, u, S), EdgesOf(d, u, S))
  PROVE  /\ edges' = {e \in edges : ~(e[1] = u /\ e[2] \in S)} \cup EdgesOf(d, u, S)
         /\ applies' = applies \cup
              {<<f, Config(u)>> : f \in DOMAIN rows' \cap UNION {{e[2], e[3]} : e \in EdgesOf(d, u, S)}}
<1>1. DOMAIN RoutesOf(d, u, S) = S
  BY DEF RoutesOf
<1>2. QED
  BY <1>1 DEF Apply

LEMMA EdgesOfType ==
  ASSUME NEW d \in [Files -> Contents], NEW u, NEW S, Publishable(d, u, S)
  PROVE  /\ EdgesOf(d, u, S) \subseteq Units \X (Units \cup Owned) \X Files
         /\ \A f \in S : \A g \in Includes[f][d[f]] : <<u, f, g>> \in EdgesOf(d, u, S)
<1>1. \A f \in S : \A g \in Includes[f][d[f]] : f \in Units \cup Owned /\ g \in Files
  BY PublishableProps, IncludesType, FilesKinds
<1>2. QED
  BY <1>1, PublishableProps DEF EdgesOf

\* A publication keeps the types of the database.
DatabaseType ==
  /\ RowsType(rows)
  /\ \A f \in DOMAIN facts : f \in DOMAIN facts[f] /\ DOMAIN facts[f] \subseteq Files
  /\ \A f \in DOMAIN rows : rows[f].md5 # None => f \in DOMAIN facts
  /\ edges \subseteq Units \X (Units \cup Owned) \X Files
  /\ applies \subseteq (DOMAIN rows) \X Range(Forced)

LEMMA TypeSplit ==
  TypeOK <=> /\ disk \in [Files -> Contents]
             /\ DatabaseType
             /\ \A s \in DOMAIN cache : s[1] \in Units
BY DEF TypeOK, DatabaseType, RowsType

LEMMA ApplyType ==
  ASSUME DatabaseType, NEW d \in [Files -> Contents], NEW u, NEW S, Publishable(d, u, S),
         Apply(u, RoutesOf(d, u, S), EdgesOf(d, u, S))
  PROVE  DatabaseType'
<1>1. /\ u \in Units /\ u \in S /\ S \subseteq Opened(d, u) /\ S \cap Unowned = {}
      /\ S \subseteq {u} \cup Owned /\ S \subseteq Files
  BY PublishableProps
<1>2. /\ DOMAIN rows' = DOMAIN rows \cup S
      /\ \A f \in S : rows'[f] = [md5 |-> d[f], indexed |-> TRUE]
      /\ \A f \in DOMAIN rows \ S : rows'[f] = rows[f]
  BY ApplyRows
<1>3. /\ DOMAIN facts' = DOMAIN facts \cup S
      /\ \A f \in S : facts'[f] = Restrict(d, Opened(d, u))
      /\ \A f \in DOMAIN facts \ S : facts'[f] = facts[f]
  BY ApplyFacts
<1>4. RowsType(rows')
  <2>1. Units \subseteq DOMAIN rows' /\ DOMAIN rows' \subseteq Units \cup Owned
    BY <1>1, <1>2 DEF DatabaseType, RowsType
  <2>2. \A f \in S : d[f] \in Contents
    BY <1>1
  <2>3. \A f \in S : rows'[f] \in [md5 : Contents \cup {None}, indexed : BOOLEAN]
    <3>1. \A c \in Contents :
            [md5 |-> c, indexed |-> TRUE] \in [md5 : Contents \cup {None}, indexed : BOOLEAN]
      OBVIOUS
    <3>2. TAKE f \in S
    <3>3. rows'[f] = [md5 |-> d[f], indexed |-> TRUE] /\ d[f] \in Contents
      BY <1>2, <2>2
    <3>4. QED
      BY <3>1, <3>3, Zenon
  <2>4. \A f \in DOMAIN rows \ S : rows'[f] \in [md5 : Contents \cup {None}, indexed : BOOLEAN]
    BY <1>2 DEF DatabaseType, RowsType
  <2>5. QED
    BY <1>2, <2>1, <2>3, <2>4 DEF RowsType
<1>5. \A f \in DOMAIN facts' : f \in DOMAIN facts'[f] /\ DOMAIN facts'[f] \subseteq Files
  <2>1. Opened(d, u) \subseteq Files /\ DOMAIN Restrict(d, Opened(d, u)) = Opened(d, u)
    BY <1>1, OpenedProps DEF Restrict
  <2>2. QED
    BY <1>1, <1>3, <2>1 DEF DatabaseType
<1>6. \A f \in DOMAIN rows' : rows'[f].md5 # None => f \in DOMAIN facts'
  BY <1>2, <1>3 DEF DatabaseType
<1>7. edges' \subseteq Units \X (Units \cup Owned) \X Files
  BY ApplyEdges, EdgesOfType DEF DatabaseType
<1>8. applies' \subseteq (DOMAIN rows') \X Range(Forced)
  <2>1. Config(u) \in Range(Forced)
    BY <1>1, UpdatesAssumption DEF Config, Range
  <2>2. QED
    BY <1>2, <2>1, ApplyEdges DEF DatabaseType
<1>9. QED
  BY <1>4, <1>5, <1>6, <1>7, <1>8 DEF DatabaseType

\* A publication keeps rows and edges together, when what it does not publish has rows.
LEMMA ApplyClosed ==
  ASSUME DatabaseType, RowsClosed, NEW d \in [Files -> Contents], NEW u, NEW S,
         Publishable(d, u, S), Opened(d, u) \ Unowned \subseteq DOMAIN rows \cup S,
         Apply(u, RoutesOf(d, u, S), EdgesOf(d, u, S))
  PROVE  RowsClosed'
<1>1. /\ u \in Units /\ u \in S /\ S \subseteq Opened(d, u) /\ S \cap Unowned = {}
      /\ S \subseteq {u} \cup Owned /\ S \subseteq Files
  BY PublishableProps
<1>2. /\ DOMAIN rows' = DOMAIN rows \cup S
      /\ \A f \in S : rows'[f] = [md5 |-> d[f], indexed |-> TRUE]
      /\ \A f \in DOMAIN rows \ S : rows'[f] = rows[f]
  BY ApplyRows
<1>3. edges' = {e \in edges : ~(e[1] = u /\ e[2] \in S)} \cup EdgesOf(d, u, S)
  BY ApplyEdges
<1>4. \A f \in S : rows'[f].md5 = d[f] /\ d[f] # None
  BY <1>1, <1>2, UpdatesAssumption
<1>5. \A f \in DOMAIN rows' : f \in Owned \/ rows'[f].indexed => rows'[f].md5 # None
  BY <1>2, <1>4 DEF RowsClosed
<1>6. ASSUME NEW f \in Known(rows')
      PROVE  /\ Includes[f][rows'[f].md5] \ Unowned \subseteq DOMAIN rows'
             /\ \A g \in Includes[f][rows'[f].md5] : \E e \in edges' : e[2] = f /\ e[3] = g
             /\ f \in Units => Forced[f] \ Unowned \subseteq DOMAIN rows'
  <2>1. CASE f \in S
    <3>1. Includes[f][d[f]] \subseteq Opened(d, u)
      BY <1>1, <2>1, OpenedProps
    <3>2. \A g \in Includes[f][d[f]] : <<u, f, g>> \in edges'
      BY <1>3, <2>1, EdgesOfType
    <3>3. f \in Units => f = u
      BY <1>1, <2>1, FilesKinds
    <3>4. Forced[u] \subseteq Opened(d, u)
      BY <1>1, OpenedProps
    <3>5. \A g \in Includes[f][d[f]] : \E e \in edges' : e[2] = f /\ e[3] = g
      <4>1. TAKE g \in Includes[f][d[f]]
      <4>2. <<u, f, g>> \in edges' /\ <<u, f, g>>[2] = f /\ <<u, f, g>>[3] = g
        BY <3>2
      <4>3. QED
        BY <4>2
    <3>6. Opened(d, u) \ Unowned \subseteq DOMAIN rows'
      BY <1>2
    <3>7. QED
      BY <1>4, <2>1, <3>1, <3>3, <3>4, <3>5, <3>6
  <2>2. CASE f \notin S
    <3>1. f \in Known(rows) /\ rows'[f] = rows[f]
      BY <1>2, <2>2 DEF Known
    <3>2. \A e \in edges : e[2] = f => e \in edges'
      BY <1>3, <2>2
    <3>3. QED
      BY <1>2, <3>1, <3>2 DEF RowsClosed
  <2>3. QED
    BY <2>1, <2>2
<1>7. QED
  BY <1>5, <1>6 DEF RowsClosed

-----------------------------------------------------------------------------
(* What index_one publishes. *)

\* An extraction publishes what the present contents give, and leaves out no header
\* that is not current.
LEMMA ExtractPublishes ==
  ASSUME TypeOK, NEW u \in Units, Extract(u)
  PROVE  /\ Publishable(disk, u, Routes(u))
         /\ Apply(u, RoutesOf(disk, u, Routes(u)), EdgesOf(disk, u, Routes(u)))
         /\ \A f \in Opened(disk, u) \ Unowned : f \in Routes(u) \/ IsCurrent(rows, f)
         /\ Opened(disk, u) \ Unowned \subseteq DOMAIN rows \cup Routes(u)
<1>1. disk \in [Files -> Contents]
  BY DEF TypeOK
<1>2. /\ Opened(disk, u) \in SUBSET Files /\ u \in Opened(disk, u)
      /\ Opened(disk, u) \subseteq {u} \cup Owned \cup Unowned
  BY <1>1, OpenedProps
<1>3. Closure(u) = Opened(disk, u)
  BY DEF Closure
<1>4. Routes(u) = {u} \cup {h \in Opened(disk, u) \cap Owned : ~AlreadyIndexed(u, h)}
  BY <1>3 DEF Routes
<1>5. Publishable(disk, u, Routes(u))
  BY <1>2, <1>4, FilesKinds DEF Publishable
<1>6. [f \in Routes(u) |-> Snapshot(Closure(u))] = RoutesOf(disk, u, Routes(u))
  BY <1>3 DEF RoutesOf, Snapshot
<1>7. DirectiveEdges(u, Routes(u)) = EdgesOf(disk, u, Routes(u))
  BY DEF DirectiveEdges, EdgesOf
<1>8. Apply(u, [f \in Routes(u) |-> Snapshot(Closure(u))], DirectiveEdges(u, Routes(u)))
  BY DEF Extract
<1>9. \A f \in Opened(disk, u) \ Unowned : f \in Routes(u) \/ IsCurrent(rows, f)
  BY <1>2, <1>4 DEF AlreadyIndexed
<1>10. Opened(disk, u) \ Unowned \subseteq DOMAIN rows \cup Routes(u)
  BY <1>9 DEF IsCurrent
<1>11. QED
  BY <1>5, <1>6, <1>7, <1>8, <1>9, <1>10

\* A replay publishes what some earlier contents of the files gave.
LEMMA ReplayPublishes ==
  ASSUME CacheOK, NEW u \in Units, Replay(u)
  PROVE  \E d \in [Files -> Contents] :
           LET S == DOMAIN cache[Slot(u)].routes IN
           /\ EntryOf(cache[Slot(u)], d, u, DOMAIN rows)
           /\ Apply(u, RoutesOf(d, u, S), EdgesOf(d, u, S))
<1> DEFINE entry == cache[Slot(u)]
           S == DOMAIN entry.routes
<1>1. Slot(u) \in DOMAIN cache /\ Slot(u)[1] = u
  BY DEF Replay, Replayable, Slot
<1>2. PICK d \in [Files -> Contents] : EntryOf(entry, d, Slot(u)[1], DOMAIN rows)
  BY <1>1 DEF CacheOK
<1>3. EntryOf(entry, d, u, DOMAIN rows)
  BY <1>1, <1>2
<1>4. Apply(u, entry.routes, entry.edges)
  BY DEF Replay
<1> HIDE DEF entry
<1>5. entry.routes = RoutesOf(d, u, S) /\ entry.edges = EdgesOf(d, u, S)
  BY <1>3 DEF EntryOf
<1>6. Apply(u, RoutesOf(d, u, S), EdgesOf(d, u, S))
  BY <1>4, <1>5
<1>7. QED
  BY <1>3, <1>6 DEF entry

\* While no file has changed in the pass, a digest is that of the file.
LEMMA DigestOfFile ==
  ASSUME PassOK, pass # Idle, pass.undisturbed, NEW f
  PROVE  Digest(f) = disk[f]
BY DEF PassOK, Digest

\* A hit on an entry of an undisturbed pass, while no file has changed in this one
\* either: the entry is what the present contents give.
LEMMA HitIsCurrent ==
  ASSUME TypeOK, CacheOK, PassOK, pass # Idle, pass.undisturbed, NEW u \in Units,
         Replayable(u), cache[Slot(u)].clean
  PROVE  EntryOf(cache[Slot(u)], disk, u, DOMAIN rows)
<1> DEFINE entry == cache[Slot(u)]
           S == DOMAIN entry.routes
<1>1. Slot(u) \in DOMAIN cache /\ Slot(u)[1] = u
  BY DEF Replayable, Slot
<1>2. PICK d \in [Files -> Contents] : EntryOf(entry, d, Slot(u)[1], DOMAIN rows)
  BY <1>1 DEF CacheOK
<1>3. EntryOf(entry, d, u, DOMAIN rows)
  BY <1>1, <1>2
<1>4. disk \in [Files -> Contents]
  BY DEF TypeOK
<1>5. compute_identity(entry.seen) = entry.identity
  BY DEF Replayable
<1>6. entry.clean
  OBVIOUS
<1> HIDE DEF entry, S
<1>7. /\ Publishable(d, u, S) /\ entry.seen = Opened(d, u) /\ entry.routes = RoutesOf(d, u, S)
      /\ entry.edges = EdgesOf(d, u, S) /\ entry.identity = Restrict(d, Opened(d, u))
      /\ Opened(d, u) \ Unowned \subseteq DOMAIN rows
  BY <1>3, <1>6 DEF EntryOf, S
<1>8. \A f \in Opened(d, u) : d[f] = disk[f]
  <2>1. [f \in Opened(d, u) |-> Digest(f)] = [f \in Opened(d, u) |-> d[f]]
    BY <1>5, <1>7 DEF compute_identity, Restrict
  <2>2. \A f \in Opened(d, u) : Digest(f) = d[f]
    <3>1. TAKE f \in Opened(d, u)
    <3>2. [x \in Opened(d, u) |-> Digest(x)][f] = [x \in Opened(d, u) |-> d[x]][f]
      BY <2>1
    <3>3. QED
      BY <3>2
  <2>3. QED
    BY <2>2, DigestOfFile
<1>9. Opened(d, u) = Opened(disk, u)
  BY <1>4, <1>8, OpenedAgree
<1>10. Restrict(d, Opened(d, u)) = Restrict(disk, Opened(disk, u))
  BY <1>8, <1>9 DEF Restrict
<1>11. RoutesOf(d, u, S) = RoutesOf(disk, u, S)
  BY <1>10 DEF RoutesOf
<1>12. EdgesOf(d, u, S) = EdgesOf(disk, u, S)
  <2>1. \A f \in S : d[f] = disk[f]
    BY <1>7, <1>8 DEF Publishable
  <2>2. QED
    BY <2>1 DEF EdgesOf
<1>13. Publishable(disk, u, S)
  BY <1>7, <1>9 DEF Publishable
<1>14. EntryOf(entry, disk, u, DOMAIN rows)
  BY <1>7, <1>9, <1>10, <1>11, <1>12, <1>13 DEF EntryOf, S
<1>15. QED
  BY <1>14 DEF entry

\* A publication of what the present contents give, which leaves out no header that is
\* not current, settles its unit and disturbs no other.
LEMMA PublishSettles ==
  ASSUME TypeOK, disk' = disk, NEW u \in Units, NEW S, Publishable(disk, u, S),
         \A f \in Opened(disk, u) \ Unowned : f \in S \/ IsCurrent(rows, f),
         Apply(u, RoutesOf(disk, u, S), EdgesOf(disk, u, S))
  PROVE  /\ rows'[u].indexed /\ CurrentUnit(u)' /\ MatchingUnit(u)'
         /\ \A v \in Units \ {u} :
              /\ rows'[v] = rows[v]
              /\ CurrentUnit(v) => CurrentUnit(v)'
              /\ MatchingUnit(v) => MatchingUnit(v)'
<1>1. disk \in [Files -> Contents] /\ Units \subseteq DOMAIN rows
  BY DEF TypeOK
<1>2. /\ u \in S /\ S \subseteq {u} \cup Owned /\ S \subseteq Files
  BY <1>1, PublishableProps
<1>3. /\ DOMAIN rows' = DOMAIN rows \cup S
      /\ \A f \in S : rows'[f] = [md5 |-> disk[f], indexed |-> TRUE]
      /\ \A f \in DOMAIN rows \ S : rows'[f] = rows[f]
  BY <1>1, ApplyRows
<1>4. /\ DOMAIN facts' = DOMAIN facts \cup S
      /\ \A f \in S : facts'[f] = Restrict(disk, Opened(disk, u))
      /\ \A f \in DOMAIN facts \ S : facts'[f] = facts[f]
  BY <1>1, ApplyFacts
<1>5. \A f \in S : IsCurrent(rows, f)'
  BY <1>3 DEF IsCurrent
<1>6. \A f \in Files : IsCurrent(rows, f) => IsCurrent(rows, f)'
  <2>1. \A f \in Files \ S : IsCurrent(rows, f) => IsCurrent(rows, f)'
    BY <1>3 DEF IsCurrent
  <2>2. QED
    BY <1>5, <2>1
<1>7. Tracked(disk, u) \subseteq Opened(disk, u) \ Unowned /\ Opened(disk, u) \in SUBSET Files
  BY <1>1, TrackedProps, OpenedProps
<1>8. CurrentUnit(u)'
  <2>1. \A f \in Tracked(disk, u) : IsCurrent(rows, f)'
    BY <1>5, <1>6, <1>7
  <2>2. QED
    BY <2>1 DEF CurrentUnit
<1>9. MatchingUnit(u)'
  <2>1. u \in DOMAIN facts' /\ facts'[u] = Restrict(disk, Opened(disk, u))
    BY <1>2, <1>4
  <2>2. \A f \in Tracked(disk, u) : f \in DOMAIN facts'[u] /\ facts'[u][f] = disk[f]
    BY <1>7, <2>1 DEF Restrict
  <2>3. QED
    BY <2>1, <2>2 DEF MatchingUnit
<1>10. rows'[u].indexed
  BY <1>2, <1>3
<1>11. ASSUME NEW v \in Units \ {u}
       PROVE  /\ rows'[v] = rows[v]
              /\ CurrentUnit(v) => CurrentUnit(v)'
              /\ MatchingUnit(v) => MatchingUnit(v)'
  <2>1. v \notin S
    BY <1>2, FilesKinds
  <2>2. rows'[v] = rows[v]
    BY <1>1, <1>3, <2>1
  <2>3. Tracked(disk, v) \subseteq Files
    BY <1>1, TrackedProps, OpenedProps
  <2>4. CurrentUnit(v) => CurrentUnit(v)'
    <3>1. HAVE CurrentUnit(v)
    <3>2. \A f \in Tracked(disk, v) : IsCurrent(rows, f)'
      BY <1>6, <2>3, <3>1 DEF CurrentUnit
    <3>3. QED
      BY <3>2 DEF CurrentUnit
  <2>5. MatchingUnit(v) => MatchingUnit(v)'
    BY <1>4, <2>1 DEF MatchingUnit
  <2>6. QED
    BY <2>2, <2>4, <2>5
<1>12. QED
  BY <1>8, <1>9, <1>10, <1>11

-----------------------------------------------------------------------------
(* What index_one does to the pass. *)

\* The fields that a unit's step leaves alone, and the list it shortens.
Moves(u) ==
  /\ DOMAIN pass' = PassFields /\ pass' # Idle
  /\ pass'.kind = pass.kind /\ pass'.todo = pass.todo \ {u}
  /\ pass'.truncated = pass.truncated /\ pass'.cancelled = pass.cancelled
  /\ pass'.undisturbed = pass.undisturbed

LEMMA RunningNotIdle ==
  ASSUME NEW p, p.kind \in {"full", "selected", "rebuild"}
  PROVE  p # Idle
BY DEF Idle, None

LEMMA AdvanceFields ==
  ASSUME PassOK, pass # Idle, NEW u, NEW failed
  PROVE  /\ DOMAIN Advance(u, failed) = PassFields
         /\ Advance(u, failed).kind = pass.kind
         /\ Advance(u, failed).todo = pass.todo \ {u}
         /\ Advance(u, failed).failed = pass.failed \cup failed
         /\ Advance(u, failed).truncated = pass.truncated
         /\ Advance(u, failed).cancelled = pass.cancelled
         /\ Advance(u, failed).undisturbed = pass.undisturbed
         /\ Advance(u, failed).faithful = pass.faithful
         /\ Advance(u, failed).digests = pass.digests
BY DEF PassOK, PassFields, Advance

LEMMA ReplayMoves ==
  ASSUME PassOK, pass # Idle, NEW u, Replay(u)
  PROVE  /\ Moves(u) /\ pass'.failed = pass.failed
         /\ pass'.faithful = (pass.faithful /\ Whole(u))
         /\ pass'.digests = Remember({u} \cup cache[Slot(u)].seen)
<1> DEFINE a == Advance(u, {})
<1>1. pass' = [a EXCEPT !.digests = Remember({u} \cup cache[Slot(u)].seen),
                        !.faithful = @ /\ Whole(u)]
  BY DEF Replay
<1>2. /\ DOMAIN a = PassFields /\ a.kind = pass.kind /\ a.todo = pass.todo \ {u}
      /\ a.failed = pass.failed \cup {}
      /\ a.truncated = pass.truncated /\ a.cancelled = pass.cancelled
      /\ a.undisturbed = pass.undisturbed /\ a.faithful = pass.faithful
  BY DEF PassOK, PassFields, Advance
<1> HIDE DEF a
<1>3. /\ DOMAIN pass' = PassFields /\ pass'.kind = pass.kind /\ pass'.todo = pass.todo \ {u}
      /\ pass'.failed = pass.failed
      /\ pass'.truncated = pass.truncated /\ pass'.cancelled = pass.cancelled
      /\ pass'.undisturbed = pass.undisturbed
      /\ pass'.digests = Remember({u} \cup cache[Slot(u)].seen)
  BY <1>1, <1>2 DEF PassFields
<1>4. pass'.faithful = (pass.faithful /\ Whole(u))
  BY <1>1, <1>2 DEF PassFields
<1>5. pass' # Idle
  BY <1>3, RunningNotIdle DEF PassOK
<1>6. QED
  BY <1>3, <1>4, <1>5 DEF Moves

LEMMA ExtractMoves ==
  ASSUME PassOK, pass # Idle, NEW u, Extract(u)
  PROVE  /\ Moves(u) /\ pass'.failed = pass.failed /\ pass'.faithful = pass.faithful
         /\ pass'.digests = IF pass.cached
                            THEN Remember(Closure(u) \cup Looked(u))
                            ELSE pass.digests
<1> DEFINE a == Advance(u, {})
           seen == Closure(u) \cup Looked(u)
<1>1. pass' = [a EXCEPT !.digests = IF pass.cached THEN Remember(seen) ELSE @]
  BY DEF Extract
<1>2. /\ DOMAIN a = PassFields /\ a.kind = pass.kind /\ a.todo = pass.todo \ {u}
      /\ a.failed = pass.failed \cup {} /\ a.digests = pass.digests
      /\ a.truncated = pass.truncated /\ a.cancelled = pass.cancelled
      /\ a.undisturbed = pass.undisturbed /\ a.faithful = pass.faithful
  BY DEF PassOK, PassFields, Advance
<1> HIDE DEF a, seen
<1>3. /\ DOMAIN pass' = PassFields /\ pass'.kind = pass.kind /\ pass'.todo = pass.todo \ {u}
      /\ pass'.failed = pass.failed
      /\ pass'.truncated = pass.truncated /\ pass'.cancelled = pass.cancelled
      /\ pass'.undisturbed = pass.undisturbed /\ pass'.faithful = pass.faithful
      /\ pass'.digests = IF pass.cached THEN Remember(seen) ELSE pass.digests
  BY <1>1, <1>2 DEF PassFields
<1>4. pass' # Idle
  BY <1>3, RunningNotIdle DEF PassOK
<1>5. QED
  BY <1>3, <1>4 DEF Moves, seen

LEMMA FailMoves ==
  ASSUME PassOK, pass # Idle, NEW u, Fail(u)
  PROVE  /\ Moves(u) /\ pass'.failed = pass.failed \cup {u}
         /\ pass'.faithful = pass.faithful
         /\ pass'.digests = IF pass.cached THEN Remember(Looked(u)) ELSE pass.digests
<1> DEFINE a == Advance(u, {u})
           seen == Looked(u)
<1>1. pass' = [a EXCEPT !.digests = IF pass.cached THEN Remember(seen) ELSE @]
  BY DEF Fail
<1>2. /\ DOMAIN a = PassFields /\ a.kind = pass.kind /\ a.todo = pass.todo \ {u}
      /\ a.failed = pass.failed \cup {u} /\ a.digests = pass.digests
      /\ a.truncated = pass.truncated /\ a.cancelled = pass.cancelled
      /\ a.undisturbed = pass.undisturbed /\ a.faithful = pass.faithful
  BY DEF PassOK, PassFields, Advance
<1> HIDE DEF a, seen
<1>3. /\ DOMAIN pass' = PassFields /\ pass'.kind = pass.kind /\ pass'.todo = pass.todo \ {u}
      /\ pass'.failed = pass.failed \cup {u}
      /\ pass'.truncated = pass.truncated /\ pass'.cancelled = pass.cancelled
      /\ pass'.undisturbed = pass.undisturbed /\ pass'.faithful = pass.faithful
      /\ pass'.digests = IF pass.cached THEN Remember(seen) ELSE pass.digests
  BY <1>1, <1>2 DEF PassFields
<1>4. pass' # Idle
  BY <1>3, RunningNotIdle DEF PassOK
<1>5. QED
  BY <1>3, <1>4 DEF Moves, seen

LEMMA RememberProps ==
  ASSUME PassOK, pass # Idle, NEW S \in SUBSET Files
  PROVE  /\ DOMAIN Remember(S) \subseteq Files
         /\ pass.undisturbed => \A f \in DOMAIN Remember(S) : Remember(S)[f] = disk[f]
<1>1. /\ DOMAIN Remember(S) = S \cup DOMAIN pass.digests
      /\ \A f \in S : Remember(S)[f] = Digest(f)
      /\ \A f \in DOMAIN pass.digests \ S : Remember(S)[f] = pass.digests[f]
  BY DEF Remember, Upsert
<1>2. QED
  BY <1>1, DigestOfFile DEF PassOK

\* The pass keeps its shape when a unit is indexed.
LEMMA MovesPassOK ==
  ASSUME PassOK, pass # Idle, disk' = disk, NEW u, Moves(u),
         cut' \in BOOLEAN, pass'.faithful \in BOOLEAN, pass'.failed \subseteq Units,
         pass'.faithful => pass.faithful,
         ~cut' => ~cut /\ pass'.faithful,
         DOMAIN pass'.digests \subseteq Files,
         pass.undisturbed => \A f \in DOMAIN pass'.digests : pass'.digests[f] = disk[f]
  PROVE  PassOK'
BY DEF PassOK, Moves

\* Whatever index_one does, the entries' files and the units stay in their sets.
LEMMA SeenFiles ==
  ASSUME CacheOK, TypeOK, NEW s \in DOMAIN cache
  PROVE  cache[s].seen \in SUBSET Files
<1>1. PICK d \in [Files -> Contents] : EntryOf(cache[s], d, s[1], DOMAIN rows)
  BY DEF CacheOK
<1>2. s[1] \in Units /\ cache[s].seen = Opened(d, s[1])
  BY <1>1 DEF EntryOf, TypeOK
<1>3. QED
  BY <1>2, OpenedProps

-----------------------------------------------------------------------------
(* index_one keeps the invariant. *)

\* What PublishSettles gives.
Settles(u) ==
  /\ CurrentUnit(u)' /\ MatchingUnit(u)'
  /\ \A v \in Units \ {u} :
       (CurrentUnit(v) => CurrentUnit(v)') /\ (MatchingUnit(v) => MatchingUnit(v)')

LEMMA SettledPass ==
  ASSUME PassRows, PassIndexed, PassFacts, pass # Idle, NEW u \in Units, Moves(u),
         pass'.failed = pass.failed,
         rows'[u].indexed, \A v \in Units \ {u} : rows'[v] = rows[v],
         pass'.faithful => pass.faithful /\ Settles(u),
         ~cut' => ~cut
  PROVE  PassRows' /\ PassIndexed' /\ PassFacts' /\ IdleFacts'
<1>1. /\ pass' # Idle /\ pass'.kind = pass.kind /\ pass'.todo = pass.todo \ {u}
      /\ pass'.truncated = pass.truncated /\ pass'.cancelled = pass.cancelled
  BY DEF Moves
<1>2. PassRows'
  <2>1. SUFFICES ASSUME WholePass', NEW v \in Units \ pass'.todo, rows'[v].indexed
                 PROVE  CurrentUnit(v)'
    BY DEF PassRows
  <2>2. pass'.faithful /\ WholePass
    BY <1>1, <2>1 DEF WholePass
  <2>3. CASE v = u
    BY <2>2, <2>3 DEF Settles
  <2>4. CASE v # u
    <3>1. v \in Units \ pass.todo /\ rows[v].indexed
      BY <1>1, <2>1, <2>4
    <3>2. CurrentUnit(v)
      BY <2>2, <3>1 DEF PassRows
    <3>3. QED
      BY <2>2, <2>4, <3>2 DEF Settles
  <2>5. QED
    BY <2>3, <2>4
<1>3. PassIndexed'
  BY <1>1 DEF PassIndexed
<1>4. PassFacts'
  <2>1. SUFFICES ASSUME pass'.faithful, ~pass'.cancelled, pass'.kind = "rebuild" \/ ~cut',
                        NEW v \in Units \ pass'.todo, rows'[v].indexed
                 PROVE  MatchingUnit(v)'
    BY DEF PassFacts
  <2>2. pass.faithful /\ ~pass.cancelled /\ (pass.kind = "rebuild" \/ ~cut)
    BY <1>1, <2>1
  <2>3. CASE v = u
    BY <2>1, <2>3 DEF Settles
  <2>4. CASE v # u
    <3>1. v \in Units \ pass.todo /\ rows[v].indexed
      BY <1>1, <2>1, <2>4
    <3>2. MatchingUnit(v)
      BY <2>2, <3>1 DEF PassFacts
    <3>3. QED
      BY <2>1, <2>4, <3>2 DEF Settles
  <2>5. QED
    BY <2>3, <2>4
<1>5. IdleFacts'
  BY <1>1 DEF IdleFacts
<1>6. QED
  BY <1>2, <1>3, <1>4, <1>5

LEMMA EntryGrows ==
  ASSUME NEW entry, NEW d, NEW u, NEW A, NEW B, A \subseteq B, EntryOf(entry, d, u, A)
  PROVE  EntryOf(entry, d, u, B)
BY DEF EntryOf

\* Rows only come.
LEMMA CacheGrows ==
  ASSUME CacheOK, cache' = cache, DOMAIN rows \subseteq DOMAIN rows'
  PROVE  CacheOK'
<1>1. SUFFICES ASSUME NEW s \in DOMAIN cache
               PROVE  \E d \in [Files -> Contents] : EntryOf(cache[s], d, s[1], DOMAIN rows')
  BY DEF CacheOK
<1>2. PICK d \in [Files -> Contents] : EntryOf(cache[s], d, s[1], DOMAIN rows)
  BY DEF CacheOK
<1>3. QED
  BY <1>2, EntryGrows

LEMMA ReplayKeeps ==
  ASSUME UpdatesInv, pass # Idle, NEW u \in pass.todo, Replay(u), disk' = disk
  PROVE  UpdatesInv'
<1> DEFINE entry == cache[Slot(u)]
           S == DOMAIN entry.routes
<1>1. TypeOK /\ RowsClosed /\ CacheOK /\ PassOK /\ PassRows /\ PassIndexed /\ PassFacts
  BY DEF UpdatesInv
<1>2. u \in Units /\ disk \in [Files -> Contents] /\ DatabaseType
      /\ \A s \in DOMAIN cache : s[1] \in Units
  BY <1>1, TypeSplit DEF PassOK
<1>3. cache' = cache /\ Slot(u) \in DOMAIN cache /\ cut' = (cut \/ ~Whole(u)) /\ Replayable(u)
  BY DEF Replay, Replayable
<1>4. /\ Moves(u) /\ pass'.failed = pass.failed
      /\ pass'.faithful = (pass.faithful /\ Whole(u))
      /\ pass'.digests = Remember({u} \cup entry.seen)
  BY <1>1, ReplayMoves
<1>5. entry.seen \in SUBSET Files
  BY <1>1, <1>3, SeenFiles
<1>6. PICK d \in [Files -> Contents] :
        EntryOf(entry, d, u, DOMAIN rows) /\ Apply(u, RoutesOf(d, u, S), EdgesOf(d, u, S))
  BY <1>1, <1>2, ReplayPublishes
<1>7. Whole(u) => entry.clean /\ \A h \in (entry.seen \cap Owned) \ S : IsCurrent(rows, h)
  BY DEF Whole
<1>8. pass.undisturbed /\ entry.clean => EntryOf(entry, disk, u, DOMAIN rows)
  BY <1>1, <1>2, <1>3, HitIsCurrent
<1>9. Apply(u, entry.routes, entry.edges)
  BY DEF Replay
<1> HIDE DEF entry, S
<1>10. Publishable(d, u, S) /\ Opened(d, u) \ Unowned \subseteq DOMAIN rows
  BY <1>6 DEF EntryOf, S
<1>11. DatabaseType'
  BY <1>2, <1>6, <1>10, ApplyType
<1>12. TypeOK'
  <2>1. disk' \in [Files -> Contents] /\ \A s \in DOMAIN cache' : s[1] \in Units
    BY <1>2, <1>3
  <2>2. QED
    BY <1>11, <2>1, TypeSplit DEF TypeOK, DatabaseType, RowsType
<1>13. RowsClosed'
  BY <1>1, <1>2, <1>6, <1>10, ApplyClosed
<1>14. u \in S /\ S \subseteq {u} \cup Owned
  BY <1>10, PublishableProps
<1>15. /\ DOMAIN rows' = DOMAIN rows \cup S
       /\ \A f \in S : rows'[f] = [md5 |-> d[f], indexed |-> TRUE]
       /\ \A f \in DOMAIN rows \ S : rows'[f] = rows[f]
  BY <1>6, <1>10, ApplyRows
<1>16. CacheOK'
  BY <1>1, <1>3, <1>15, CacheGrows
<1>17. pass'.faithful \in BOOLEAN /\ cut' \in BOOLEAN
  BY <1>3, <1>4
<1>18. PassOK'
  <2>1. {u} \cup entry.seen \in SUBSET Files
    BY <1>2, <1>5, FilesKinds
  <2>2. /\ DOMAIN pass'.digests \subseteq Files
        /\ pass.undisturbed => \A f \in DOMAIN pass'.digests : pass'.digests[f] = disk[f]
    BY <1>1, <1>4, <2>1, RememberProps
  <2>3. (pass'.faithful => pass.faithful) /\ (~cut' => ~cut /\ pass'.faithful)
    BY <1>1, <1>3, <1>4 DEF PassOK
  <2>4. pass'.failed \subseteq Units
    BY <1>1, <1>4 DEF PassOK
  <2>5. QED
    BY <1>1, <1>4, <1>17, <2>2, <2>3, <2>4, MovesPassOK
<1>19. pass'.faithful => pass.faithful /\ Settles(u)
  <2>1. SUFFICES ASSUME pass.faithful, Whole(u) PROVE Settles(u)
    BY <1>4
  <2>2. EntryOf(entry, disk, u, DOMAIN rows)
    BY <1>1, <1>7, <1>8, <2>1 DEF PassOK
  <2>3. /\ Publishable(disk, u, S) /\ entry.seen = Opened(disk, u)
        /\ entry.routes = RoutesOf(disk, u, S) /\ entry.edges = EdgesOf(disk, u, S)
    BY <2>2 DEF EntryOf, S
  <2>4. Apply(u, RoutesOf(disk, u, S), EdgesOf(disk, u, S))
    BY <1>9, <2>3
  <2>5. \A f \in Opened(disk, u) \ Unowned : f \in S \/ IsCurrent(rows, f)
    <3>1. Opened(disk, u) \subseteq {u} \cup Owned \cup Unowned
      BY <1>2, OpenedProps
    <3>2. QED
      BY <1>7, <1>14, <2>1, <2>3, <3>1
  <2>6. QED
    BY <1>1, <1>2, <2>3, <2>4, <2>5, PublishSettles DEF Settles
<1>20. rows'[u].indexed /\ \A v \in Units \ {u} : rows'[v] = rows[v]
  BY <1>1, <1>14, <1>15, FilesKinds DEF TypeOK
<1>21. PassRows' /\ PassIndexed' /\ PassFacts' /\ IdleFacts'
  <2>1. ~cut' => ~cut
    BY <1>3
  <2>2. QED
    BY <1>1, <1>2, <1>4, <1>19, <1>20, <2>1, SettledPass
<1>22. QED
  BY <1>12, <1>13, <1>16, <1>18, <1>21 DEF UpdatesInv

\* The entry that an extraction leaves is what the present contents give.
LEMMA ExtractEntry ==
  ASSUME TypeOK, PassOK, CacheOK, pass # Idle, NEW u \in Units, Extract(u),
         DOMAIN rows' = DOMAIN rows \cup Routes(u)
  PROVE  CacheOK' /\ \A s \in DOMAIN cache' : s[1] \in Units
<1> DEFINE entry == [seen |-> Closure(u), identity |-> compute_identity(Closure(u)),
                     routes |-> [f \in Routes(u) |-> Snapshot(Closure(u))],
                     edges |-> DirectiveEdges(u, Routes(u)), clean |-> pass.undisturbed]
<1>1. cache' = IF pass.cached THEN Upsert([s \in {Slot(u)} |-> entry], cache) ELSE cache
  BY DEF Extract
<1>2. disk \in [Files -> Contents] /\ \A s \in DOMAIN cache : s[1] \in Units
  BY DEF TypeOK
<1>3. Slot(u)[1] = u
  BY DEF Slot
<1>4. EntryOf(entry, disk, u, DOMAIN rows')
  <2>1. /\ Publishable(disk, u, Routes(u))
        /\ Opened(disk, u) \ Unowned \subseteq DOMAIN rows'
    BY ExtractPublishes
  <2>2. Closure(u) = Opened(disk, u)
    BY DEF Closure
  <2>3. entry.routes = RoutesOf(disk, u, Routes(u)) /\ DOMAIN entry.routes = Routes(u)
    BY <2>2 DEF RoutesOf, Snapshot
  <2>4. entry.edges = EdgesOf(disk, u, Routes(u))
    BY DEF DirectiveEdges, EdgesOf
  <2>5. entry.clean => entry.identity = Restrict(disk, Opened(disk, u))
    <3>1. SUFFICES ASSUME pass.undisturbed
                   PROVE  compute_identity(Closure(u)) = Restrict(disk, Opened(disk, u))
      OBVIOUS
    <3>2. \A f \in Closure(u) : Digest(f) = disk[f]
      BY <3>1, DigestOfFile
    <3>3. QED
      BY <2>2, <3>2 DEF compute_identity, Restrict
  <2>6. entry.seen = Opened(disk, u)
    BY <2>2
  <2> HIDE DEF entry
  <2>7. QED
    BY <2>1, <2>3, <2>4, <2>5, <2>6 DEF EntryOf
<1> HIDE DEF entry
<1>5. ASSUME NEW s \in DOMAIN cache'
      PROVE  s[1] \in Units /\ \E d \in [Files -> Contents] : EntryOf(cache'[s], d, s[1], DOMAIN rows')
  <2>1. CASE pass.cached /\ s = Slot(u)
    <3>1. cache'[s] = entry
      BY <1>1, <2>1 DEF Upsert
    <3>2. QED
      BY <1>2, <1>3, <1>4, <2>1, <3>1
  <2>2. CASE ~(pass.cached /\ s = Slot(u))
    <3>1. s \in DOMAIN cache /\ cache'[s] = cache[s]
      BY <1>1, <1>5, <2>2 DEF Upsert
    <3>2. PICK d \in [Files -> Contents] : EntryOf(cache[s], d, s[1], DOMAIN rows)
      BY <3>1 DEF CacheOK
    <3>3. DOMAIN rows \subseteq DOMAIN rows'
      OBVIOUS
    <3>4. QED
      BY <1>2, <3>1, <3>2, <3>3, EntryGrows
  <2>3. QED
    BY <2>1, <2>2
<1>6. QED
  BY <1>5 DEF CacheOK

LEMMA ExtractKeeps ==
  ASSUME UpdatesInv, pass # Idle, NEW u \in pass.todo, Extract(u), disk' = disk
  PROVE  UpdatesInv'
<1> DEFINE S == Routes(u)
           looked == Closure(u) \cup Looked(u)
<1>1. TypeOK /\ RowsClosed /\ CacheOK /\ PassOK /\ PassRows /\ PassIndexed /\ PassFacts
  BY DEF UpdatesInv
<1>2. u \in Units /\ disk \in [Files -> Contents] /\ DatabaseType
  BY <1>1, TypeSplit DEF PassOK
<1>3. cut' = cut
  BY DEF Extract
<1>4. /\ Moves(u) /\ pass'.failed = pass.failed /\ pass'.faithful = pass.faithful
      /\ pass'.digests = IF pass.cached THEN Remember(looked) ELSE pass.digests
  BY <1>1, ExtractMoves
<1>5. looked \in SUBSET Files
  BY <1>1, <1>2, SeenFiles, OpenedProps, FilesKinds DEF Closure, Looked
<1>6. /\ Publishable(disk, u, S) /\ Apply(u, RoutesOf(disk, u, S), EdgesOf(disk, u, S))
      /\ \A f \in Opened(disk, u) \ Unowned : f \in S \/ IsCurrent(rows, f)
      /\ Opened(disk, u) \ Unowned \subseteq DOMAIN rows \cup S
  BY <1>1, <1>2, ExtractPublishes
<1>7. /\ DOMAIN rows' = DOMAIN rows \cup S
      /\ \A f \in S : rows'[f] = [md5 |-> disk[f], indexed |-> TRUE]
      /\ \A f \in DOMAIN rows \ S : rows'[f] = rows[f]
  BY <1>2, <1>6, ApplyRows
<1>8. CacheOK' /\ \A s \in DOMAIN cache' : s[1] \in Units
  BY <1>1, <1>2, <1>7, ExtractEntry
<1> HIDE DEF S, looked
<1>9. DatabaseType'
  BY <1>2, <1>6, ApplyType
<1>10. TypeOK'
  <2>1. disk' \in [Files -> Contents]
    BY <1>2
  <2>2. QED
    BY <1>8, <1>9, <2>1 DEF TypeOK, DatabaseType, RowsType
<1>11. RowsClosed'
  BY <1>1, <1>2, <1>6, ApplyClosed
<1>12. PassOK'
  <2>1. /\ DOMAIN pass'.digests \subseteq Files
        /\ pass.undisturbed => \A f \in DOMAIN pass'.digests : pass'.digests[f] = disk[f]
    <3>1. CASE pass.cached
      BY <1>1, <1>4, <1>5, <3>1, RememberProps
    <3>2. CASE ~pass.cached
      BY <1>1, <1>4, <3>2 DEF PassOK
    <3>3. QED
      BY <3>1, <3>2
  <2>2. /\ cut' \in BOOLEAN /\ pass'.faithful \in BOOLEAN /\ pass'.failed \subseteq Units
        /\ ~cut' => ~cut /\ pass'.faithful
    BY <1>1, <1>3, <1>4 DEF PassOK
  <2>3. QED
    BY <1>1, <1>4, <2>1, <2>2, MovesPassOK
<1>13. /\ rows'[u].indexed /\ Settles(u)
       /\ \A v \in Units \ {u} : rows'[v] = rows[v]
  BY <1>1, <1>2, <1>6, PublishSettles DEF Settles
<1>14. PassRows' /\ PassIndexed' /\ PassFacts' /\ IdleFacts'
  BY <1>1, <1>2, <1>3, <1>4, <1>13, SettledPass
<1>15. QED
  BY <1>8, <1>10, <1>11, <1>12, <1>14 DEF UpdatesInv

LEMMA FailKeeps ==
  ASSUME UpdatesInv, pass # Idle, NEW u \in pass.todo, Fail(u), disk' = disk
  PROVE  UpdatesInv'
<1>1. TypeOK /\ RowsClosed /\ CacheOK /\ PassOK /\ PassRows /\ PassIndexed /\ PassFacts
  BY DEF UpdatesInv
<1>2. u \in Units /\ disk \in [Files -> Contents] /\ DatabaseType
  BY <1>1, TypeSplit DEF PassOK
<1>3. /\ rows' = [rows EXCEPT ![u].indexed = FALSE]
      /\ facts' = facts /\ edges' = edges /\ applies' = applies /\ cache' = cache /\ cut' = cut
  BY DEF Fail
<1>4. /\ Moves(u) /\ pass'.failed = pass.failed \cup {u}
      /\ pass'.faithful = pass.faithful
      /\ pass'.digests = IF pass.cached THEN Remember(Looked(u)) ELSE pass.digests
  BY <1>1, FailMoves
<1>a. Looked(u) \in SUBSET Files
  BY <1>1, <1>2, SeenFiles, FilesKinds DEF Looked
<1>b. /\ DOMAIN pass'.digests \subseteq Files
      /\ pass.undisturbed => \A f \in DOMAIN pass'.digests : pass'.digests[f] = disk[f]
  <2>1. CASE pass.cached
    BY <1>1, <1>4, <1>a, <2>1, RememberProps
  <2>2. CASE ~pass.cached
    BY <1>1, <1>4, <2>2 DEF PassOK
  <2>3. QED
    BY <2>1, <2>2
<1>5. /\ DOMAIN rows' = DOMAIN rows /\ \A f \in DOMAIN rows \ {u} : rows'[f] = rows[f]
      /\ u \in DOMAIN rows /\ rows'[u].md5 = rows[u].md5 /\ rows'[u].indexed = FALSE
      /\ rows'[u] \in [md5 : Contents \cup {None}, indexed : BOOLEAN]
  BY <1>2, <1>3 DEF DatabaseType, RowsType
<1>6. TypeOK'
  <2>1. RowsType(rows')
    BY <1>2, <1>5 DEF DatabaseType, RowsType
  <2>2. \A f \in DOMAIN rows' : rows'[f].md5 # None => f \in DOMAIN facts'
    BY <1>2, <1>3, <1>5 DEF DatabaseType
  <2>3. QED
    BY <1>1, <1>3, <1>5, <2>1, <2>2 DEF TypeOK, RowsType
<1>7. RowsClosed'
  <2>1. \A f \in DOMAIN rows : rows'[f].md5 = rows[f].md5 /\ (rows'[f].indexed => rows[f].indexed)
    BY <1>5
  <2>2. Known(rows') = Known(rows)
    BY <1>5, <2>1 DEF Known
  <2>3. QED
    BY <1>1, <1>3, <1>5, <2>1, <2>2 DEF RowsClosed, Known
<1>8. CacheOK'
  BY <1>1, <1>3, <1>5, CacheGrows
<1>9. PassOK'
  <2>1. /\ cut' \in BOOLEAN /\ pass'.faithful \in BOOLEAN /\ pass'.failed \subseteq Units
        /\ ~cut' => ~cut /\ pass'.faithful
        /\ DOMAIN pass'.digests \subseteq Files
        /\ pass.undisturbed => \A f \in DOMAIN pass'.digests : pass'.digests[f] = disk[f]
    BY <1>1, <1>2, <1>3, <1>4, <1>b DEF PassOK
  <2>2. QED
    BY <1>1, <1>4, <2>1, MovesPassOK
<1>10. /\ pass' # Idle /\ pass'.kind = pass.kind /\ pass'.todo = pass.todo \ {u}
       /\ pass'.truncated = pass.truncated /\ pass'.cancelled = pass.cancelled
  BY <1>4 DEF Moves
<1>11. PassRows'
  <2>1. SUFFICES ASSUME WholePass', NEW v \in Units \ pass'.todo, rows'[v].indexed
                 PROVE  CurrentUnit(v)'
    BY DEF PassRows
  <2>2. WholePass /\ v # u /\ v \in Units \ pass.todo
    BY <1>4, <1>5, <1>10, <2>1 DEF WholePass
  <2>3. CurrentUnit(v)
    BY <1>1, <1>2, <1>5, <2>1, <2>2 DEF PassRows, DatabaseType, RowsType
  <2>4. u \notin Tracked(disk, v)
    BY <1>2, <2>2, TrackedProps, OpenedProps, FilesKinds
  <2>5. \A f \in Tracked(disk, v) : IsCurrent(rows, f)'
    BY <1>5, <2>3, <2>4 DEF CurrentUnit, IsCurrent
  <2>6. QED
    BY <2>5 DEF CurrentUnit
<1>12. PassIndexed'
  BY <1>1, <1>2, <1>4, <1>5, <1>10 DEF PassIndexed, DatabaseType, RowsType
<1>13. PassFacts'
  <2>1. SUFFICES ASSUME pass'.faithful, ~pass'.cancelled, pass'.kind = "rebuild" \/ ~cut',
                        NEW v \in Units \ pass'.todo, rows'[v].indexed
                 PROVE  MatchingUnit(v)'
    BY DEF PassFacts
  <2>2. v # u /\ v \in Units \ pass.todo
    BY <1>5, <1>10, <2>1
  <2>3. MatchingUnit(v)
    BY <1>1, <1>2, <1>3, <1>4, <1>5, <1>10, <2>1, <2>2 DEF PassFacts, DatabaseType, RowsType
  <2>4. QED
    BY <1>3, <2>3 DEF MatchingUnit
<1>14. IdleFacts'
  BY <1>10 DEF IdleFacts
<1>15. QED
  BY <1>6, <1>7, <1>8, <1>9, <1>11, <1>12, <1>13, <1>14 DEF UpdatesInv

-----------------------------------------------------------------------------
(* The start of a pass. *)

\* A unit that a full pass does not target has nothing changed among what it is seen to
\* depend on.
LEMMA UntargetedCurrent ==
  ASSUME TypeOK, RowsClosed, NEW u \in Units, rows[u].indexed, NEW selected,
         u \notin Targets("full", selected)
  PROVE  /\ Tracked(disk, u) = RowTracked(rows, u) /\ CurrentUnit(u)
         /\ \A f \in RowTracked(rows, u) : rows[f].md5 = disk[f]
<1>1. /\ disk \in [Files -> Contents] /\ RowsType(rows) /\ Changed \in SUBSET Files
      /\ DOMAIN rows \subseteq Files
  BY FilesKinds DEF TypeOK, RowsType, Changed
<1>2. u \notin dependents_of_changed_inputs(Changed, Changed \cap Units)
  BY DEF Targets
<1>3. u \in Known(rows)
  BY <1>1 DEF RowsType, RowsClosed, Known
<1>4. RowTracked(rows, u) \subseteq Known(rows)
  BY <1>3, RowTrackedKnown
<1>5. \A f \in RowTracked(rows, u) : f \notin Changed
  BY <1>1, <1>2, <1>3, DependentsReached
<1>6. \A f \in RowTracked(rows, u) : IsCurrent(rows, f)
  BY <1>4, <1>5 DEF Changed, Known
<1>7. \A f \in RowTracked(rows, u) : f \in Known(rows) /\ rows[f].md5 = disk[f]
  BY <1>4, <1>6 DEF IsCurrent
<1>8. Tracked(disk, u) = RowTracked(rows, u)
  BY <1>1, <1>7, RowsAgree
<1>9. QED
  BY <1>6, <1>7, <1>8 DEF CurrentUnit

LEMMA TargetsUnits ==
  ASSUME NEW kind \in {"full", "selected", "rebuild"}, NEW selected
  PROVE  Targets(kind, selected) \subseteq Units
BY DEF Targets, dependents_of_changed_inputs, Reached

LEMMA BeginRows ==
  ASSUME TypeOK, NEW kind, NEW selected, NEW cached, NEW budget,
         Begin(kind, selected, cached, budget)
  PROVE  /\ DOMAIN rows' = DOMAIN rows
         /\ \A f \in DOMAIN rows :
              /\ rows'[f].md5 = rows[f].md5 /\ (rows'[f].indexed => rows[f].indexed)
              /\ rows'[f] \in [md5 : Contents \cup {None}, indexed : BOOLEAN]
         /\ kind = "rebuild" => \A f \in DOMAIN rows : ~rows'[f].indexed
         /\ kind # "rebuild" => rows' = rows
<1>1. RowsType(rows)
  BY DEF TypeOK, RowsType
<1>2. CASE kind = "rebuild"
  <2>1. rows' = [f \in DOMAIN rows |-> [rows[f] EXCEPT !.indexed = FALSE]]
    BY <1>2 DEF Begin
  <2>2. QED
    BY <1>1, <1>2, <2>1 DEF RowsType
<1>3. CASE kind # "rebuild"
  <2>1. rows' = rows
    BY <1>3 DEF Begin
  <2>2. QED
    BY <1>1, <1>3, <2>1 DEF RowsType
<1>4. QED
  BY <1>2, <1>3

LEMMA BeginPass ==
  ASSUME NEW kind \in Kinds, NEW selected, NEW cached, NEW budget,
         Begin(kind, selected, cached, budget)
  PROVE  /\ DOMAIN pass' = PassFields /\ pass' # Idle /\ pass'.kind = kind
         /\ pass'.todo \subseteq Units /\ pass'.failed = {} /\ pass'.cancelled = FALSE
         /\ pass'.undisturbed = TRUE /\ pass'.faithful = TRUE /\ DOMAIN pass'.digests = {}
         /\ pass'.truncated = (budget # 0)
         /\ budget = 0 => pass'.todo = Targets(kind, selected)
<1> DEFINE T == Targets(kind, selected)
           rs == IF kind = "rebuild" THEN [f \in DOMAIN rows |-> [rows[f] EXCEPT !.indexed = FALSE]]
                 ELSE rows
<1>1. PICK kept \in Kept(kind, T, budget) :
        pass' = [kind |-> kind, todo |-> kept, truncated |-> budget # 0, cancelled |-> FALSE,
                 failed |-> {}, undisturbed |-> TRUE, faithful |-> TRUE, cached |-> cached,
                 workspace |-> <<stamp, FreshnessOf(rs)>>, digests |-> <<>>]
  BY DEF Begin
<1>2. kind \in {"full", "selected", "rebuild"}
  BY UpdatesAssumption
<1>3. kept \subseteq Units /\ (budget = 0 => kept = T)
  BY <1>1, <1>2, TargetsUnits DEF Kept, FirstOf
<1> HIDE DEF T, rs
<1>4. DOMAIN pass' = PassFields
  BY <1>1 DEF PassFields
<1>5. /\ pass'.kind = kind /\ pass'.failed = {} /\ pass'.digests = <<>>
      /\ pass'.todo = kept
  BY <1>1
<1>6. /\ pass'.cancelled = FALSE /\ pass'.undisturbed = TRUE /\ pass'.faithful = TRUE
      /\ pass'.truncated = (budget # 0)
  BY <1>1
<1>7. pass' # Idle
  BY <1>2, <1>5, RunningNotIdle
<1>8. DOMAIN pass'.digests = {}
  BY <1>5
<1>9. QED
  BY <1>3, <1>4, <1>5, <1>6, <1>7, <1>8 DEF T

LEMMA BeginKeeps ==
  ASSUME UpdatesInv, NEW kind \in Kinds, NEW selected, NEW cached, NEW budget,
         Begin(kind, selected, cached, budget)
  PROVE  UpdatesInv'
<1>1. TypeOK /\ RowsClosed /\ CacheOK /\ PassOK /\ IdleFacts
  BY DEF UpdatesInv
<1>2. /\ pass = Idle /\ disk' = disk /\ facts' = facts /\ edges' = edges /\ applies' = applies
      /\ cache' = cache /\ cut' = (cut \/ budget # 0 \/ kind = "selected")
  BY DEF Begin
<1>3. /\ DOMAIN rows' = DOMAIN rows
      /\ \A f \in DOMAIN rows :
           /\ rows'[f].md5 = rows[f].md5 /\ (rows'[f].indexed => rows[f].indexed)
           /\ rows'[f] \in [md5 : Contents \cup {None}, indexed : BOOLEAN]
      /\ kind = "rebuild" => \A f \in DOMAIN rows : ~rows'[f].indexed
      /\ kind # "rebuild" => rows' = rows
  BY <1>1, BeginRows
<1>4. /\ DOMAIN pass' = PassFields /\ pass' # Idle /\ pass'.kind = kind
      /\ pass'.todo \subseteq Units /\ pass'.failed = {} /\ pass'.cancelled = FALSE
      /\ pass'.undisturbed = TRUE /\ pass'.faithful = TRUE /\ DOMAIN pass'.digests = {}
      /\ pass'.truncated = (budget # 0)
      /\ budget = 0 => pass'.todo = Targets(kind, selected)
  BY BeginPass
<1>5. kind \in {"full", "selected", "rebuild"} /\ Units \subseteq DOMAIN rows
  BY <1>1, UpdatesAssumption DEF TypeOK
<1>6. TypeOK'
  BY <1>1, <1>2, <1>3 DEF TypeOK
<1>7. RowsClosed'
  <2>1. Known(rows') = Known(rows)
    BY <1>3 DEF Known
  <2>2. QED
    BY <1>1, <1>2, <1>3, <2>1 DEF RowsClosed, Known
<1>8. CacheOK'
  BY <1>1, <1>2, <1>3, CacheGrows
<1>9. PassOK'
  <2>1. cut' \in BOOLEAN
    BY <1>2
  <2>2. {pass'.truncated, pass'.cancelled, pass'.undisturbed, pass'.faithful} \subseteq BOOLEAN
    BY <1>4
  <2>3. ~cut' => ~pass'.truncated /\ pass'.kind # "selected"
    BY <1>2, <1>4
  <2>4. QED
    BY <1>4, <1>5, <2>1, <2>2, <2>3 DEF PassOK
<1>10. ASSUME pass'.kind = "full", ~pass'.truncated, NEW u \in Units \ pass'.todo
       PROVE  rows' = rows /\ u \notin Targets("full", selected)
  BY <1>3, <1>4, <1>10
<1>11. PassRows'
  <2>1. SUFFICES ASSUME WholePass', NEW u \in Units \ pass'.todo, rows'[u].indexed
                 PROVE  CurrentUnit(u)'
    BY DEF PassRows
  <2>2. pass'.kind = "full" /\ ~pass'.truncated
    BY <1>3, <1>4, <1>5, <2>1 DEF WholePass
  <2>3. rows' = rows /\ u \notin Targets("full", selected)
    BY <1>10, <2>1, <2>2
  <2>4. CurrentUnit(u)
    BY <1>1, <2>1, <2>3, UntargetedCurrent
  <2>5. QED
    BY <1>2, <2>3, <2>4 DEF CurrentUnit, IsCurrent
<1>12. PassIndexed'
  <2>1. SUFFICES ASSUME pass'.kind = "full", ~pass'.truncated, NEW u \in Units \ pass'.todo
                 PROVE  rows'[u].indexed
    BY DEF PassIndexed
  <2>2. rows' = rows /\ u \notin Targets("full", selected)
    BY <1>10, <2>1
  <2>3. u \notin Changed
    BY <2>2 DEF Targets
  <2>4. QED
    BY <1>5, <2>2, <2>3 DEF Changed, IsCurrent
<1>13. PassFacts'
  <2>1. SUFFICES ASSUME pass'.kind = "rebuild" \/ ~cut',
                        NEW u \in Units \ pass'.todo, rows'[u].indexed
                 PROVE  MatchingUnit(u)'
    BY DEF PassFacts
  <2>2. ~cut /\ pass'.kind = "full" /\ ~pass'.truncated
    BY <1>2, <1>3, <1>4, <1>5, <2>1
  <2>3. rows' = rows /\ u \notin Targets("full", selected)
    BY <1>10, <2>1, <2>2
  <2>4. /\ Tracked(disk, u) = RowTracked(rows, u)
        /\ \A f \in RowTracked(rows, u) : rows[f].md5 = disk[f]
    BY <1>1, <2>1, <2>3, UntargetedCurrent
  <2>5. /\ u \in DOMAIN facts
        /\ \A f \in RowTracked(rows, u) : f \in DOMAIN facts[u] /\ facts[u][f] = rows[f].md5
    BY <1>1, <1>2, <2>1, <2>2, <2>3 DEF IdleFacts
  <2>6. MatchingUnit(u)
    BY <2>4, <2>5 DEF MatchingUnit
  <2>7. QED
    BY <1>2, <2>6 DEF MatchingUnit
<1>14. IdleFacts'
  BY <1>4 DEF IdleFacts
<1>15. QED
  BY <1>6, <1>7, <1>8, <1>9, <1>11, <1>12, <1>13, <1>14 DEF UpdatesInv

-----------------------------------------------------------------------------
(* The end of a pass, what cuts it short, and edits. *)

LEMMA DatabaseKept ==
  ASSUME TypeOK, RowsClosed, CacheOK, disk' \in [Files -> Contents],
         UNCHANGED <<rows, facts, edges, applies, cache>>
  PROVE  TypeOK' /\ RowsClosed' /\ CacheOK'
<1>1. TypeOK'
  BY DEF TypeOK
<1>2. RowsClosed'
  BY DEF RowsClosed, Known
<1>3. CacheOK'
  BY CacheGrows
<1>4. QED
  BY <1>1, <1>2, <1>3

\* Without a pass the parts about one say nothing.
LEMMA IdlePass ==
  ASSUME pass' = Idle, cut' \in BOOLEAN
  PROVE  PassOK' /\ PassRows' /\ PassIndexed' /\ PassFacts'
BY DEF PassOK, PassRows, WholePass, PassIndexed, PassFacts

\* When a pass that left nothing out ends, what it covered is what the rows record.
LEMMA FinishKeeps ==
  ASSUME UpdatesInv, Finish
  PROVE  UpdatesInv'
<1>1. TypeOK /\ RowsClosed /\ CacheOK /\ PassOK /\ PassRows /\ PassFacts
  BY DEF UpdatesInv
<1>2. /\ pass # Idle /\ pass.todo = {} /\ pass' = Idle /\ disk' = disk /\ rows' = rows
      /\ facts' = facts /\ edges' = edges /\ applies' = applies /\ cache' = cache
      /\ cut' = (cut /\ ~(Complete /\ pass.kind = "rebuild" /\ pass.faithful))
  BY DEF Finish
<1>3. disk \in [Files -> Contents] /\ RowsType(rows)
  BY <1>1 DEF TypeOK, RowsType
<1>4. TypeOK' /\ RowsClosed' /\ CacheOK'
  BY <1>1, <1>2, <1>3, DatabaseKept
<1>5. PassOK' /\ PassRows' /\ PassIndexed' /\ PassFacts'
  BY <1>2, IdlePass
<1>6. IdleFacts'
  <2>1. SUFFICES ASSUME ~cut', NEW u \in Units, rows[u].indexed
                 PROVE  /\ u \in DOMAIN facts
                        /\ \A f \in RowTracked(rows, u) :
                             f \in DOMAIN facts[u] /\ facts[u][f] = rows[f].md5
    BY <1>2 DEF IdleFacts
  <2>2. /\ pass.faithful /\ ~pass.cancelled /\ (pass.kind = "rebuild" \/ ~cut)
        /\ pass.kind = "rebuild" \/ (pass.kind = "full" /\ ~pass.truncated)
    <3>1. CASE cut
      <4>1. Complete /\ pass.kind = "rebuild" /\ pass.faithful
        BY <1>2, <2>1, <3>1
      <4>2. QED
        BY <4>1 DEF Complete
    <3>2. CASE ~cut
      BY <1>1, <1>2, <3>2 DEF PassOK
    <3>3. QED
      BY <3>1, <3>2
  <2>3. CurrentUnit(u)
    BY <1>1, <1>2, <2>1, <2>2 DEF PassRows, WholePass
  <2>4. MatchingUnit(u)
    BY <1>1, <1>2, <2>1, <2>2 DEF PassFacts
  <2>5. \A f \in Tracked(disk, u) : f \in Known(rows) /\ rows[f].md5 = disk[f]
    <3>1. Tracked(disk, u) \subseteq Files
      BY <1>3, TrackedProps, OpenedProps
    <3>2. \A f \in Tracked(disk, u) : disk[f] # None
      BY <1>3, <3>1, UpdatesAssumption
    <3>3. QED
      BY <2>3, <3>2 DEF CurrentUnit, IsCurrent, Known
  <2>6. Tracked(disk, u) = RowTracked(rows, u)
    BY <1>3, <2>5, RowsAgree
  <2>7. QED
    BY <2>4, <2>5, <2>6 DEF MatchingUnit
<1>7. QED
  BY <1>4, <1>5, <1>6 DEF UpdatesInv

LEMMA KillKeeps ==
  ASSUME UpdatesInv, Kill
  PROVE  UpdatesInv'
<1>1. /\ pass' = Idle /\ cut' = TRUE /\ disk' = disk
      /\ UNCHANGED <<rows, facts, edges, applies, cache>>
  BY DEF Kill
<1>2. disk' \in [Files -> Contents]
  BY <1>1 DEF UpdatesInv, TypeOK
<1>3. TypeOK' /\ RowsClosed' /\ CacheOK'
  BY <1>1, <1>2, DatabaseKept DEF UpdatesInv
<1>4. PassOK' /\ PassRows' /\ PassIndexed' /\ PassFacts'
  BY <1>1, IdlePass
<1>5. IdleFacts'
  BY <1>1 DEF IdleFacts
<1>6. QED
  BY <1>3, <1>4, <1>5 DEF UpdatesInv

LEMMA CancelKeeps ==
  ASSUME UpdatesInv, Cancel
  PROVE  UpdatesInv'
<1>1. /\ pass # Idle /\ cut' = TRUE /\ disk' = disk
      /\ pass' = [pass EXCEPT !.todo = {}, !.cancelled = TRUE]
      /\ UNCHANGED <<rows, facts, edges, applies, cache>>
  BY DEF Cancel
<1>2. TypeOK /\ RowsClosed /\ CacheOK /\ PassOK
  BY DEF UpdatesInv
<1>3. disk' \in [Files -> Contents]
  BY <1>1, <1>2 DEF TypeOK
<1>4. TypeOK' /\ RowsClosed' /\ CacheOK'
  BY <1>1, <1>2, <1>3, DatabaseKept
<1>5. /\ DOMAIN pass' = PassFields /\ pass'.kind = pass.kind /\ pass'.todo = {}
      /\ pass'.failed = pass.failed /\ pass'.digests = pass.digests
      /\ pass'.truncated = pass.truncated /\ pass'.cancelled = TRUE
      /\ pass'.undisturbed = pass.undisturbed /\ pass'.faithful = pass.faithful
  BY <1>1, <1>2 DEF PassOK, PassFields
<1>6. PassOK'
  BY <1>1, <1>2, <1>5 DEF PassOK
<1>7. PassRows' /\ PassIndexed' /\ PassFacts'
  BY <1>5 DEF PassRows, WholePass, PassIndexed, PassFacts
<1>8. pass' # Idle
  <2>1. pass'.kind \in {"full", "selected", "rebuild"}
    BY <1>1, <1>2, <1>5 DEF PassOK
  <2>2. QED
    BY <2>1, RunningNotIdle
<1>9. QED
  BY <1>4, <1>6, <1>7, <1>8 DEF UpdatesInv, IdleFacts

\* An edit between passes leaves the index alone; one during a pass marks the pass.
LEMMA EditKeeps ==
  ASSUME UpdatesInv, NEW f \in Files, NEW c \in Contents, Edit(f, c)
  PROVE  UpdatesInv'
<1>1. /\ disk' = [disk EXCEPT ![f] = c] /\ cut' = (cut \/ pass # Idle)
      /\ pass' = IF pass = Idle THEN pass
                 ELSE [pass EXCEPT !.undisturbed = FALSE, !.faithful = FALSE]
      /\ UNCHANGED <<rows, facts, edges, applies, cache>>
  BY DEF Edit
<1>2. TypeOK /\ RowsClosed /\ CacheOK /\ PassOK /\ PassIndexed /\ IdleFacts
  BY DEF UpdatesInv
<1>3. disk' \in [Files -> Contents]
  BY <1>1, <1>2 DEF TypeOK
<1>4. TypeOK' /\ RowsClosed' /\ CacheOK'
  BY <1>1, <1>2, <1>3, DatabaseKept
<1>5. cut' \in BOOLEAN
  BY <1>1
<1>6. CASE pass = Idle
  <2>1. pass' = Idle /\ (~cut' => ~cut)
    BY <1>1, <1>6
  <2>2. PassOK' /\ PassRows' /\ PassIndexed' /\ PassFacts'
    BY <1>5, <2>1, IdlePass
  <2>3. IdleFacts'
    BY <1>1, <1>2, <1>6, <2>1 DEF IdleFacts, RowTracked, RowLeads, Known
  <2>4. QED
    BY <1>4, <2>2, <2>3 DEF UpdatesInv
<1>7. CASE pass # Idle
  <2>1. pass' = [pass EXCEPT !.undisturbed = FALSE, !.faithful = FALSE] /\ cut' = TRUE
    BY <1>1, <1>7
  <2>2. /\ DOMAIN pass' = PassFields /\ pass'.kind = pass.kind /\ pass'.todo = pass.todo
        /\ pass'.failed = pass.failed /\ pass'.digests = pass.digests
        /\ pass'.truncated = pass.truncated /\ pass'.cancelled = pass.cancelled
        /\ pass'.undisturbed = FALSE /\ pass'.faithful = FALSE
    BY <1>2, <1>7, <2>1 DEF PassOK, PassFields
  <2>3. PassOK'
    BY <1>2, <1>7, <2>1, <2>2 DEF PassOK
  <2>4. PassRows' /\ PassFacts'
    BY <2>2 DEF PassRows, WholePass, PassFacts
  <2>5. PassIndexed'
    BY <1>1, <1>2, <1>7, <2>2 DEF PassIndexed
  <2>6. pass' # Idle
    BY <1>2, <1>7, <2>2, RunningNotIdle DEF PassOK
  <2>7. QED
    BY <1>4, <2>3, <2>4, <2>5, <2>6 DEF UpdatesInv, IdleFacts
<1>8. QED
  BY <1>6, <1>7

-----------------------------------------------------------------------------
(* The invariant holds at the start and is kept by every step. *)

LEMMA UpdatesInit ==
  ASSUME Init
  PROVE  UpdatesInv
<1>1. /\ rows = [u \in Units |-> [md5 |-> None, indexed |-> FALSE]]
      /\ facts = <<>> /\ edges = {} /\ applies = {} /\ cache = <<>>
      /\ pass = Idle /\ cut = FALSE
  BY DEF Init
<1>2. disk \in [Files -> Contents]
  BY DEF Init
<1>3. /\ DOMAIN rows = Units
      /\ \A u \in Units : /\ rows[u].md5 = None /\ rows[u].indexed = FALSE
                          /\ rows[u] \in [md5 : Contents \cup {None}, indexed : BOOLEAN]
  BY <1>1
<1>4. DOMAIN facts = {} /\ DOMAIN cache = {}
  BY <1>1
<1>5. TypeOK
  BY <1>1, <1>2, <1>3, <1>4 DEF TypeOK
<1>6. RowsClosed
  <2>1. Known(rows) = {}
    BY <1>3 DEF Known
  <2>2. QED
    BY <1>3, <2>1, FilesKinds DEF RowsClosed
<1>7. CacheOK
  BY <1>4 DEF CacheOK
<1>8. PassOK /\ PassRows /\ PassIndexed /\ PassFacts
  BY <1>1 DEF PassOK, PassRows, WholePass, PassIndexed, PassFacts
<1>9. IdleFacts
  BY <1>3 DEF IdleFacts
<1>10. QED
  BY <1>5, <1>6, <1>7, <1>8, <1>9 DEF UpdatesInv

LEMMA UpdatesStep ==
  ASSUME UpdatesInv, [Next]_vars
  PROVE  UpdatesInv'
<1>1. ASSUME NEW kind \in Kinds, NEW cached \in BOOLEAN, NEW budget \in 0..Len(Order),
             NEW selected, Begin(kind, selected, cached, budget)
      PROVE  UpdatesInv'
  BY <1>1, BeginKeeps
<1>2. ASSUME pass # Idle, NEW u \in pass.todo, index_one(u)
      PROVE  UpdatesInv'
  <2>1. disk' = disk
    BY <1>2 DEF index_one
  <2>2. CASE Replay(u)
    BY <1>2, <2>1, <2>2, ReplayKeeps
  <2>3. CASE Extract(u)
    BY <1>2, <2>1, <2>3, ExtractKeeps
  <2>4. CASE Fail(u)
    BY <1>2, <2>1, <2>4, FailKeeps
  <2>5. QED
    BY <1>2, <2>2, <2>3, <2>4 DEF index_one
<1>3. CASE Finish
  BY <1>3, FinishKeeps
<1>4. CASE Cancel
  BY <1>4, CancelKeeps
<1>5. CASE Kill
  BY <1>5, KillKeeps
<1>6. ASSUME NEW f \in Files, NEW c \in Contents, Edit(f, c)
      PROVE  UpdatesInv'
  BY <1>6, EditKeeps
<1>7. CASE UNCHANGED vars
  <2>1. /\ disk' = disk /\ pass' = pass /\ cut' = cut
        /\ UNCHANGED <<rows, facts, edges, applies, cache>>
    BY <1>7 DEF vars
  <2>2. TypeOK' /\ RowsClosed' /\ CacheOK'
    BY <2>1, DatabaseKept DEF UpdatesInv, TypeOK
  <2>3. PassOK'
    BY <2>1 DEF UpdatesInv, PassOK
  <2>4. PassRows' /\ PassIndexed'
    BY <2>1 DEF UpdatesInv, PassRows, WholePass, PassIndexed, CurrentUnit, IsCurrent
  <2>5. PassFacts'
    BY <2>1 DEF UpdatesInv, PassFacts, MatchingUnit
  <2>6. IdleFacts'
    BY <2>1 DEF UpdatesInv, IdleFacts
  <2>7. QED
    BY <2>2, <2>3, <2>4, <2>5, <2>6 DEF UpdatesInv
<1>8. QED
  BY <1>1, <1>2, <1>3, <1>4, <1>5, <1>6, <1>7 DEF Next, IsNext

-----------------------------------------------------------------------------
(* Theorems. *)

\* UpdatesInv is an invariant: of the file rows, the stored include edges, the fact
\* cache and the unit facts that run_index_pass and index_one keep, through interrupted
\* passes and edits at any time.
THEOREM UpdatesInvariant == Spec => []UpdatesInv
<1>1. Init => UpdatesInv
  BY UpdatesInit
<1>2. UpdatesInv /\ [Next]_vars => UpdatesInv'
  BY UpdatesStep
<1>3. QED
  BY <1>1, <1>2, PTL DEF Spec

\* The database of run_index_pass is well formed after every step: each unit keeps its
\* row, only units and owned headers have one, a row that records a content has facts,
\* and edges, configurations and cache slots name files that exist.
THEOREM UpdatesTypeOK == Spec => []TypeOK
<1>1. UpdatesInv => TypeOK
  BY DEF UpdatesInv
<1>2. QED
  BY <1>1, UpdatesInvariant, PTL

\* When dependents_of_changed_inputs would find nothing changed, the facts of every unit
\* are those of what the unit and the files it is seen to depend on hold now, whatever
\* passes, replays and edits came before, if no pass since the last whole rebuild left
\* something out.
THEOREM UpdatesUnitsCurrent == Spec => []UnitsCurrent
<1>1. ASSUME UpdatesInv PROVE UnitsCurrent
  <2>1. SUFFICES ASSUME pass = Idle, ~cut, Changed = {}, NEW u \in Units
                 PROVE  MatchingUnit(u)
    BY DEF UnitsCurrent, UnitFactsMatch, MatchingUnit
  <2>2. TypeOK /\ RowsClosed /\ IdleFacts /\ disk \in [Files -> Contents] /\ RowsType(rows)
    BY <1>1 DEF UpdatesInv, TypeOK, RowsType
  <2>3. \A f \in DOMAIN rows : rows[f].indexed /\ rows[f].md5 = disk[f]
    BY <2>1 DEF Changed, IsCurrent
  <2>4. u \in Known(rows) /\ rows[u].indexed
    BY <2>2, <2>3 DEF RowsType, RowsClosed, Known
  <2>5. \A f \in RowTracked(rows, u) : f \in Known(rows) /\ rows[f].md5 = disk[f]
    BY <2>2, <2>3, <2>4, RowTrackedKnown DEF Known
  <2>6. Tracked(disk, u) = RowTracked(rows, u)
    BY <2>2, <2>5, RowsAgree
  <2>7. QED
    BY <2>1, <2>2, <2>4, <2>5, <2>6 DEF IdleFacts, MatchingUnit
<1>2. QED
  BY <1>1, UpdatesInvariant, PTL

\* A hit of try_replay publishes, for every file of the entry, the facts that extracting
\* the unit from the present contents would have produced, files outside every component
\* included, if neither the replay nor the extraction it repeats came after a change in
\* the middle of a pass.
THEOREM UpdatesHitSound == Spec => HitSound
<1> DEFINE Sound(u) ==
      /\ decision' = <<u, "replayed">> /\ decision' # decision
      /\ pass.undisturbed /\ cache[Slot(u)].clean
      => \A f \in DOMAIN cache[Slot(u)].routes : facts'[f] = Snapshot(Closure(u))
<1>1. ASSUME UpdatesInv, [Next]_vars PROVE [\A u \in Units : Sound(u)]_vars
  <2>1. SUFFICES ASSUME NEW u \in Units, decision' = <<u, "replayed">>, decision' # decision,
                        pass.undisturbed, cache[Slot(u)].clean
                 PROVE  \A f \in DOMAIN cache[Slot(u)].routes : facts'[f] = Snapshot(Closure(u))
    OBVIOUS
  <2>2. pass # Idle /\ Replay(u)
    <3>1. decision' # NoDecision
      BY <2>1 DEF NoDecision, None
    <3>2. PICK v \in pass.todo : pass # Idle /\ index_one(v)
      BY <1>1, <2>1, <3>1 DEF Next, IsNext, Begin, Finish, Cancel, Kill, Edit, vars
    <3>3. ~Extract(v) /\ ~Fail(v)
      BY <2>1 DEF Extract, Fail
    <3>4. Replay(v) /\ decision' = <<v, "replayed">>
      BY <3>2, <3>3 DEF index_one, Replay
    <3>5. QED
      BY <2>1, <3>2, <3>4
  <2>3. TypeOK /\ CacheOK /\ PassOK /\ disk \in [Files -> Contents]
    BY <1>1 DEF UpdatesInv, TypeOK
  <2> DEFINE entry == cache[Slot(u)]
             S == DOMAIN entry.routes
  <2>4. Replayable(u) /\ Apply(u, entry.routes, entry.edges)
    BY <2>2 DEF Replay
  <2>5. EntryOf(entry, disk, u, DOMAIN rows)
    BY <2>1, <2>2, <2>3, <2>4, HitIsCurrent
  <2> HIDE DEF entry, S
  <2>6. /\ Publishable(disk, u, S)
        /\ entry.routes = RoutesOf(disk, u, S) /\ entry.edges = EdgesOf(disk, u, S)
    BY <2>5 DEF EntryOf, S
  <2>7. Apply(u, RoutesOf(disk, u, S), EdgesOf(disk, u, S))
    BY <2>4, <2>6
  <2>8. \A f \in S : facts'[f] = Restrict(disk, Opened(disk, u))
    BY <2>3, <2>6, <2>7, ApplyFacts
  <2>9. QED
    BY <2>8 DEF S, entry, Snapshot, Closure
<1>2. QED
  BY <1>1, UpdatesInvariant, PTL DEF Spec, HitSound

\* When run_index_pass ends a full pass in which every unit was indexed, no file changed
\* and every replay was whole, each unit and each file it is seen to depend on has a row
\* that is indexed at its present content, whatever earlier passes left out.
THEOREM UpdatesPassCovers == Spec => PassCovers
<1>1. ASSUME UpdatesInv, [Next]_vars PROVE [Finished => Covered']_vars
  <2>1. SUFFICES ASSUME Finished PROVE Covered'
    OBVIOUS
  <2>2. /\ pass # Idle /\ pass' = Idle /\ pass.kind = "full" /\ pass.todo = {} /\ pass.faithful
        /\ ~pass.truncated /\ ~pass.cancelled /\ pass.failed = {}
    BY <2>1 DEF Finished
  <2>3. \A u \in Units : rows[u].indexed
    BY <1>1, <2>2 DEF UpdatesInv, PassIndexed
  <2>4. \A u \in Units : CurrentUnit(u)
    BY <1>1, <2>2, <2>3 DEF UpdatesInv, PassRows, WholePass
  <2>5. disk' = disk /\ rows' = rows
    <3>1. PassOK
      BY <1>1 DEF UpdatesInv
    <3>2. ASSUME NEW u \in pass.todo PROVE FALSE
      BY <2>2, <3>2
    <3>3. ASSUME NEW f \in Files, NEW c \in Contents, Edit(f, c) PROVE FALSE
      <4>1. pass' = [pass EXCEPT !.undisturbed = FALSE, !.faithful = FALSE]
        BY <2>2, <3>3 DEF Edit
      <4>2. pass'.kind = "full"
        BY <2>2, <3>1, <4>1 DEF PassOK, PassFields
      <4>3. QED
        BY <2>2, <4>2, RunningNotIdle
    <3>4. ~Cancel
      BY <2>2 DEF Cancel
    <3>5. pass' # pass
      BY <2>2
    <3>6. Finish \/ Kill
      BY <1>1, <2>2, <3>2, <3>3, <3>4, <3>5 DEF Next, IsNext, Begin, vars
    <3>7. QED
      BY <3>6 DEF Finish, Kill
  <2>6. QED
    BY <2>4, <2>5 DEF Covered, CurrentUnit, IsCurrent
<1>2. QED
  BY <1>1, UpdatesInvariant, PTL DEF Spec, PassCovers

\* The step that ends a rebuild in which every file could be indexed, no file changed
\* and every replay was whole.
Rebuilt == Finish /\ Complete /\ pass.kind = "rebuild" /\ pass.faithful

\* A rebuild of run_index_pass repairs what any earlier pass left out: when it has been
\* completed, the facts of every unit are those of the present contents, the units that
\* an interrupted pass had left behind included.
THEOREM RebuildRepairs == Spec => [][Rebuilt => UnitFactsMatch']_vars
<1>1. ASSUME UpdatesInv, [Next]_vars PROVE [Rebuilt => UnitFactsMatch']_vars
  <2>1. SUFFICES ASSUME Rebuilt PROVE UnitFactsMatch'
    OBVIOUS
  <2>2. /\ pass # Idle /\ pass.todo = {} /\ pass.kind = "rebuild" /\ pass.faithful /\ ~pass.cancelled
        /\ \A f \in DOMAIN rows : rows[f].indexed
        /\ disk' = disk /\ facts' = facts
    BY <2>1 DEF Rebuilt, Finish, Complete, IsCurrent
  <2>3. \A u \in Units : rows[u].indexed
    BY <1>1, <2>2 DEF UpdatesInv, TypeOK
  <2>4. \A u \in Units : MatchingUnit(u)
    BY <1>1, <2>2, <2>3 DEF UpdatesInv, PassFacts
  <2>5. QED
    BY <2>2, <2>4 DEF UnitFactsMatch, MatchingUnit
<1>2. QED
  BY <1>1, UpdatesInvariant, PTL DEF Spec
=============================================================================
