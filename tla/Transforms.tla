----------------------------- MODULE Transforms -----------------------------
(***************************************************************************)
(* The derived facts of an index.  Publishing a file's facts replaces the  *)
(* rows the file owns (fact_batch_writer.cpp) and adds the ids it touched  *)
(* to a durable change set; the transform pipeline                         *)
(* (storage_entity_rollup.cpp) then derives further tables from the rows,  *)
(* either from nothing or, for the transforms that support it and once a   *)
(* result has been published, only for what the change set names.  All of  *)
(* a run is one transaction; a failed run keeps the published rows and     *)
(* records which transforms have no current result.                        *)
(*                                                                         *)
(* The tables are the ones the incremental algorithms read: symbols with   *)
(* their owning file, definitions, calls per definition, call edges and    *)
(* override edges, and the applicability rows that say which file said     *)
(* so under which configuration.  Columns no algorithm branches on         *)
(* (counts, positions) are left out, and with them the edge-site count     *)
(* rollup; the readiness transforms, which derive no rows, are left out    *)
(* too.  Row ids are natural keys, which are not used again: a definition  *)
(* is its file and its symbol, and an applicability row whose fact was     *)
(* deleted names nothing, even when an equal fact is inserted later.       *)
(***************************************************************************)
EXTENDS Naturals, Sequences, FiniteSets

CONSTANTS
    Files,          \* files with facts in the index
    Units,          \* the files that are compiled; the others are headers
    Configs(_),     \* the configurations a file is compiled under
    Symbols,        \* entities that files define and mention
    NoFile,         \* the file of a symbol that is only mentioned (a stub)
    None,           \* no row, no value
    Contents(_),    \* what a file may be found to say when it is extracted
    Selections,     \* sets of files that a delete command may name
    Deletable,      \* symbols that a delete command may name
    MaxPublished, MaxDeleted, MaxFailed   \* bounds on how often each happens

ASSUME NoFileAssumption == NoFile \notin Files

\* The value that stands for "not yet" is no state of a run or of the pipeline.
ASSUME NoneAssumption ==
    None \notin {"ran", "reused", "failed", "stale", "complete", "pending"}

\* Facts are about symbols; a call is recorded for a body in the file and an
\* override where the overriding function is declared.
ASSUME ContentsAssumption ==
    \A f \in Files : \A c \in Contents(f) :
        /\ c \in [defines : SUBSET Symbols, calls : SUBSET (Symbols \X Symbols),
                  overrides : SUBSET (Symbols \X Symbols)]
        /\ \A e \in c.calls \cup c.overrides : e[1] \in c.defines

VARIABLES
    table,      \* the file table: what each file said when published
    home,       \* symbol.file_id of every symbol row
    definition, \* definition rows, <<file, symbol>>
    def_edge,   \* the calls in each body, <<definition, symbol>>
    calls,      \* edge rows of kind 1, <<caller, callee>>
    overrides,  \* edge rows of kind 6, <<override, base>>
    covered,    \* file_config rows of role header, <<file, configuration>>
    support,    \* fact_applicability: <<fact, file, configuration>> by kind
    rows,       \* the derived rows of each transform
    published,  \* what its last success was computed from, and its output
    attempt,    \* how its last attempt ended
    change,     \* the change set: symbols, definitions, generation, trusted
    started,    \* meta transform.generation exists
    state,      \* meta transform.pipeline.state
    made,       \* publications, deletions and failures so far (bounds)
    dirty,      \* history: rows changed since the last attempt
    failed,     \* history: where in the order the last attempt failed, or 0
    unnoted     \* history: rows deleted that the change set does not name, and
                \* no run since that derived from nothing

SymbolRows == DOMAIN home

facts == <<table, home, definition, def_edge, calls, overrides>>
vars == <<facts, covered, support, rows, published, attempt, change, started, state,
          made, dirty, failed, unnoted>>

Transforms == {"multi_def", "possible_call", "dispatch_calls", "entity_edge"}

\* execution_order: dependencies first, registration order otherwise.
Order == <<"multi_def", "possible_call", "dispatch_calls", "entity_edge">>

Dependencies(t) == IF t = "possible_call" THEN {"multi_def"} ELSE {}

supports_incremental(t) == t # "entity_edge"

Published == {"ran", "reused"}

-----------------------------------------------------------------------------
(* What each transform derives from the rows, from nothing. *)

set_multi_def ==
    [s \in DOMAIN home |-> Cardinality({d \in definition : d[2] = s})]

\* A call into a symbol with several bodies may reach any of them.
materialize_possible_calls(multi) ==
    {p \in definition \X definition :
        <<p[1], p[2][2]>> \in def_edge /\ multi[p[2][2]] > 1}

\* What a recursive query collects: the least set of symbols that contains the
\* seeds and whatever an edge leads to from one of its members.
Reach(edges, seeds) ==
    {s \in Symbols : \A C \in SUBSET Symbols :
        seeds \subseteq C /\ (\A e \in edges : e[1] \in C => e[2] \in C) => s \in C}

Flip(edges) == {<<e[2], e[1]>> : e \in edges}

\* The transitive overrides of a base, by the override edges.
Overriders(edges, base) ==
    Reach(Flip(edges), {e[1] : e \in {x \in edges : x[2] = base}})

\* A call of a base reaches every transitive override of it.
materialize_dispatch_calls ==
    {p \in Symbols \X Symbols :
        /\ p[1] # p[2]
        /\ \E e \in calls : e[1] = p[1] /\ p[2] \in Overriders(overrides, e[2])}

materialise_entity_edges == overrides

\* From the rows and the results the transform depends on.
Full(t, done) ==
    CASE t = "multi_def"      -> set_multi_def
      [] t = "possible_call"  -> materialize_possible_calls(done["multi_def"].output)
      [] t = "dispatch_calls" -> materialize_dispatch_calls
      [] t = "entity_edge"    -> materialise_entity_edges

\* The derived rows a rebuild of the whole pipeline would publish.
Rebuilt(t) == Full(t, [multi_def |-> [output |-> set_multi_def]])

-----------------------------------------------------------------------------
(* The same, only for what the change set names. *)

set_multi_def_of ==
    LET counted == set_multi_def
    IN [s \in DOMAIN home |-> IF s \in change.symbols THEN counted[s]
                              ELSE rows["multi_def"][s]]

\* The bodies whose fan-out is recomputed: changed ones, and the ones that
\* call a changed symbol.
PossibleCallSources ==
    change.definitions \cup {e[1] : e \in {x \in def_edge : x[2] \in change.symbols}}

materialize_possible_calls_of(multi) ==
    LET sources == PossibleCallSources
        Affected(p) == p[1] \in sources \/ p[2][2] \in change.symbols
    IN {p \in rows["possible_call"] : ~Affected(p)}
         \cup {p \in materialize_possible_calls(multi) : Affected(p)}

\* Callers of anything in the override families of the changed symbols.
DispatchCallers ==
    LET family == Reach(overrides \cup Flip(overrides), change.symbols)
    IN change.symbols \cup {e[1] : e \in {x \in calls : x[2] \in family}}

materialize_dispatch_calls_of ==
    LET callers == DispatchCallers
    IN {p \in rows["dispatch_calls"] : p[1] \notin callers}
         \cup {p \in materialize_dispatch_calls : p[1] \in callers}

Incremental(t, done) ==
    CASE t = "multi_def"      -> set_multi_def_of
      [] t = "possible_call"  -> materialize_possible_calls_of(done["multi_def"].output)
      [] t = "dispatch_calls" -> materialize_dispatch_calls_of

-----------------------------------------------------------------------------
(* Publishing and deleting the rows the transforms read. *)

\* Mutant: possible_call rows outlive their definitions.
CascadeKeepsCalls(derived, syms, defs) ==
    [multi_def      |-> [s \in syms |-> IF s \in DOMAIN derived["multi_def"]
                                        THEN derived["multi_def"][s] ELSE 0],
     possible_call  |-> derived["possible_call"],
     dispatch_calls |-> derived["dispatch_calls"] \cap (syms \X syms),
     entity_edge    |-> derived["entity_edge"] \cap (syms \X syms)]

\* The rows that go with a deleted definition or symbol (ON DELETE CASCADE).
Cascade(derived, syms, defs) ==
    [multi_def      |-> [s \in syms |-> IF s \in DOMAIN derived["multi_def"]
                                        THEN derived["multi_def"][s] ELSE 0],
     possible_call  |-> derived["possible_call"] \cap (defs \X defs),
     dispatch_calls |-> derived["dispatch_calls"] \cap (syms \X syms),
     entity_edge    |-> derived["entity_edge"] \cap (syms \X syms)]

\* Every edge row that starts or ends at one of the symbols.
Edges == calls \cup overrides \cup rows["dispatch_calls"]
Touching(edges, syms) == {e \in edges : e[1] \in syms \/ e[2] \in syms}
Ends(edges) == {e[1] : e \in edges} \cup {e[2] : e \in edges}

\* The symbols a file is the home of, or has a body of.
Own(f) ==
    {s \in DOMAIN home : home[s] = f} \cup {d[2] : d \in {x \in definition : x[1] = f}}

\* Mutant: the identities the new facts replace are not captured.
NoPriorSymbols(f) == {}

\* capture_prior_transform_changes: the identities a file's facts had.
PriorSymbols(f) ==
    Own(f) \cup Ends(Touching(Edges, Own(f)))
           \cup {e[2] : e \in {x \in def_edge : x[1][1] = f}}

PriorDefinitions(f) == {d \in definition : d[1] = f}

\* They are captured for the routes with cleanup_symbols: the unit itself, and a
\* header that was published under the configuration before.
cleanup_symbols(f, k) == f \in Units \/ <<f, k>> \in covered

\* record_transform_changes: the identities the new facts have.
RecordedSymbols(c) == c.defines \cup Ends(c.calls \cup c.overrides)

\* The sweep at the end of publish_applicability: facts that only this file under
\* this configuration said, and no longer says.
Lost(said, f, k, now) ==
    {x \in {r[1] : r \in said} \ now :
        \A r \in said : r[1] = x => r[2] = f /\ r[3] = k}

\* A deleted edge or definition leaves its applicability rows behind, but they
\* name nothing; definitions need no sweep, since the cleanup deletes them all.
LostSymbols(f, c, k) == Lost(support.symbols, f, k, c.defines)
Elsewhere(said, f) == {r \in said : home[r[1][1]] # f}
LostCalls(f, c, k) == Lost(Elsewhere(support.calls, f), f, k, c.calls)
LostOverrides(f, c, k) == Lost(Elsewhere(support.overrides, f), f, k, c.overrides)

\* Deleting a symbol takes its edges with it, the new ones too.
Spared(edges, syms) == edges \ Touching(edges, syms)
Said(f, c, k) ==
    [defines   |-> c.defines,
     calls     |-> Spared(c.calls, LostSymbols(f, c, k)),
     overrides |-> Spared(c.overrides, LostSymbols(f, c, k))]

\* Rows go that the change set will not name: the route is cleaned without a
\* capture, or the sweep finds a fact that is no longer the file's own.
LosesUnnoted(f, c, k) ==
    \/ ~cleanup_symbols(f, k) /\ Own(f) # {}
    \/ ~(LostSymbols(f, c, k) \subseteq Own(f))
    \/ LET lost == LostCalls(f, c, k) \cup LostOverrides(f, c, k)
       IN lost # Touching(lost, Own(f))

\* One publication of a file under a configuration, a single transaction: prior
\* ids, cleanup of the file's edges and definitions, upserts, the sweep of what
\* nobody says any more, new ids.
Publish(f, c, k) ==
    LET gone == LostSymbols(f, c, k)
        said == Said(f, c, k)
        kept == {d \in definition : d[1] # f /\ d[2] \notin gone}
        Stay(edges) == {e \in Spared(edges, gone) : home[e[1]] # f}
        Applicable(old, live, new) ==
            {r \in old : r[1] \in live /\ ~(r[2] = f /\ r[3] = k)}
              \cup {<<x, f, k>> : x \in new}
    IN
    /\ made.published < MaxPublished
    /\ table' = [table EXCEPT ![f] = c]
    /\ home' = [s \in (DOMAIN home \cup RecordedSymbols(c)) \ gone |->
                  IF s \in c.defines THEN f
                  ELSE IF s \in DOMAIN home THEN home[s] ELSE NoFile]
    /\ definition' = kept \cup ({f} \X c.defines)
    /\ def_edge' = {e \in def_edge : e[1] \in kept /\ e[2] \notin gone}
                     \cup {<<<<f, e[1]>>, e[2]>> : e \in said.calls}
    /\ calls' = (Stay(calls) \ LostCalls(f, c, k)) \cup said.calls
    /\ overrides' = (Stay(overrides) \ LostOverrides(f, c, k)) \cup said.overrides
    /\ rows' = Cascade([rows EXCEPT !["dispatch_calls"] = Stay(@)], DOMAIN home', kept)
    /\ covered' = covered \cup {<<f, k>>}
    /\ support' =
         [symbols   |-> Applicable(support.symbols, DOMAIN home', c.defines),
          calls     |-> Applicable(support.calls, Stay(calls), said.calls),
          overrides |-> Applicable(support.overrides, Stay(overrides), said.overrides)]
    /\ LET captured == started /\ cleanup_symbols(f, k)
       IN change' = IF started
                    THEN [symbols |-> change.symbols \cup RecordedSymbols(said)
                                        \cup (IF captured THEN PriorSymbols(f) ELSE {}),
                          definitions |-> change.definitions \cup ({f} \X c.defines)
                                        \cup (IF captured THEN PriorDefinitions(f) ELSE {}),
                          generation |-> change.generation + 1,
                          trusted |-> TRUE]
                    ELSE change
    /\ made' = [made EXCEPT !.published = @ + 1]
    /\ dirty' = TRUE
    /\ unnoted' = (unnoted \/ LosesUnnoted(f, c, k))
    /\ UNCHANGED <<published, attempt, started, state, failed>>

\* Deleting rows by command notes nothing in the change set.
Remove(fs, syms) ==
    /\ made.deleted < MaxDeleted
    /\ table' = [f \in Files |-> IF f \in fs THEN None ELSE table[f]]
    /\ home' = [s \in DOMAIN home \ syms |-> home[s]]
    /\ definition' = {d \in definition : d[1] \notin fs /\ d[2] \notin syms}
    /\ def_edge' = {e \in def_edge : e[1] \in definition' /\ e[2] \notin syms}
    /\ calls' = Spared(calls, syms)
    /\ overrides' = Spared(overrides, syms)
    /\ rows' = Cascade(rows, DOMAIN home', definition')
    /\ covered' = {r \in covered : r[1] \notin fs}
    /\ LET Applicable(old, live) == {r \in old : r[1] \in live /\ r[2] \notin fs}
       IN support' = [symbols   |-> Applicable(support.symbols, DOMAIN home'),
                      calls     |-> Applicable(support.calls, calls'),
                      overrides |-> Applicable(support.overrides, overrides')]
    /\ made' = [made EXCEPT !.deleted = @ + 1]
    /\ dirty' = TRUE
    /\ unnoted' = TRUE
    /\ UNCHANGED <<published, attempt, change, started, state, failed>>

\* delete_file, delete_directory, delete_component: the symbols at home in
\* the files go first, then the files.
delete_files(fs) ==
    /\ \E f \in fs : table[f] # None
    /\ Remove(fs, {s \in DOMAIN home : home[s] \in fs})

delete_symbol(s) == s \in DOMAIN home /\ Remove({}, {s})

-----------------------------------------------------------------------------
(* The pipeline. *)

\* What a transform reads, besides the results it depends on.
Input(t) ==
    CASE t = "multi_def"      -> <<DOMAIN home, definition>>
      [] t = "possible_call"  -> <<def_edge, definition>>
      [] t = "dispatch_calls" -> <<calls, overrides>>
      [] t = "entity_edge"    -> <<DOMAIN home, calls, overrides>>

has_published_baseline(t) == published[t] # None

incremental(t) ==
    /\ supports_incremental(t)
    /\ change.trusted   \* and then it names at least the published file
    /\ has_published_baseline(t)

\* input_identity: an incremental run is named by the change generation, a
\* full one by the file table and the rows it reads; both by the tokens of
\* the results they depend on.
input_identity(t, done) ==
    <<IF incremental(t) THEN [generation |-> change.generation]
                        ELSE [files |-> table, rows |-> Input(t)],
      done>>

\* One transform of a run, given the results it depends on: a published result
\* with this identity, whose rows are still what was published, is kept.
Outcome(t, done) ==
    LET identity == input_identity(t, done)
    IN IF /\ has_published_baseline(t)
          /\ published[t] = [input |-> identity, output |-> rows[t]]
       THEN [input |-> identity, output |-> rows[t], how |-> "reused"]
       ELSE [input |-> identity,
             output |-> IF incremental(t) THEN Incremental(t, done) ELSE Full(t, done),
             how |-> "ran"]

\* The results a transform depends on; those depend on nothing themselves.
Done(t) ==
    [d \in Dependencies(t) |->
        LET result == Outcome(d, <<>>)
        IN [input |-> result.input, output |-> result.output]]

Result(t) == Outcome(t, Done(t))

\* Mutant: the change set is not cleared once it has been applied.
SucceedKeepsChanges ==
    LET run == [t \in Transforms |-> Result(t)]
    IN /\ rows' = [t \in Transforms |-> run[t].output]
       /\ published' = [t \in Transforms |->
                          [input |-> run[t].input, output |-> run[t].output]]
       /\ attempt' = [t \in Transforms |-> run[t].how]
       /\ started' = TRUE
       /\ state' = "complete"
       /\ dirty' = FALSE
       /\ failed' = 0
       /\ unnoted' = (unnoted /\ change.trusted)
       /\ UNCHANGED <<facts, covered, support, change, made>>

\* A run that gets through every transform commits once.
Succeed ==
    LET run == [t \in Transforms |-> Result(t)]
    IN /\ rows' = [t \in Transforms |-> run[t].output]
       /\ published' = [t \in Transforms |->
                          [input |-> run[t].input, output |-> run[t].output]]
       /\ attempt' = [t \in Transforms |-> run[t].how]
       /\ started' = TRUE
       /\ state' = "complete"
       /\ change' = [change EXCEPT !.symbols = {}, !.definitions = {}, !.trusted = FALSE]
       /\ dirty' = FALSE
       /\ failed' = 0
       /\ unnoted' = (unnoted /\ change.trusted)
       /\ UNCHANGED <<facts, covered, support, made>>

\* Everything that depends on the failed transform.
Downstream(t) == {u \in Transforms : t \in Dependencies(u)}

\* Mutant: transforms that had run in the failed generation stay as they were.
FailLeavesEarlier(n) ==
    /\ made.failed < MaxFailed
    /\ made' = [made EXCEPT !.failed = @ + 1]
    /\ attempt' = [u \in Transforms |->
                      IF u = Order[n] THEN "failed"
                      ELSE IF u \in Downstream(Order[n]) THEN "stale"
                      ELSE attempt[u]]
    /\ started' = TRUE
    /\ state' = "failed"
    /\ dirty' = FALSE
    /\ failed' = n
    /\ UNCHANGED <<facts, covered, support, rows, published, change, unnoted>>

\* A run in which the n-th transform fails: everything it wrote is rolled
\* back and the change set stays; the transforms that had run, and the ones
\* that depend on the failed one, are recorded as stale.
Fail(n) ==
    LET t == Order[n]
        ran == {u \in {Order[i] : i \in 1..(n - 1)} : Result(u).how = "ran"}
    IN /\ made.failed < MaxFailed
       /\ made' = [made EXCEPT !.failed = @ + 1]
       /\ attempt' = [u \in Transforms |->
                         IF u = t THEN "failed"
                         ELSE IF u \in ran \cup Downstream(t) THEN "stale"
                         ELSE attempt[u]]
       /\ started' = TRUE
       /\ state' = "failed"
       /\ dirty' = FALSE
       /\ failed' = n
       /\ UNCHANGED <<facts, covered, support, rows, published, change, unnoted>>

\* The end of `cidx index` with graph extraction when no file is pending,
\* and `cidx resolve` unless extraction was disabled.
run_transform_pipeline == Succeed \/ \E n \in 1..Len(Order) : Fail(n)

\* The end of an index run that does not derive: extraction was disabled, or
\* deriving was deferred or has to wait for the files still to be indexed.
mark_transform_pipeline_pending ==
    /\ state' = "pending"
    /\ UNCHANGED <<facts, covered, support, rows, published, attempt, change, started,
                   made, dirty, failed, unnoted>>

\* transform_status of one fact set.
Ready(t) ==
    /\ state # "pending"
    /\ has_published_baseline(t)
    /\ attempt[t] \in Published

-----------------------------------------------------------------------------
Init ==
    /\ table = [f \in Files |-> None]
    /\ home = [s \in {} |-> NoFile]
    /\ definition = {} /\ def_edge = {} /\ calls = {} /\ overrides = {}
    /\ covered = {} /\ support = [symbols |-> {}, calls |-> {}, overrides |-> {}]
    /\ rows = [multi_def |-> home, possible_call |-> {}, dispatch_calls |-> {},
               entity_edge |-> {}]
    /\ published = [t \in Transforms |-> None]
    /\ attempt = [t \in Transforms |-> None]
    /\ change = [symbols |-> {}, definitions |-> {}, generation |-> 0, trusted |-> FALSE]
    /\ started = FALSE
    /\ state = None
    /\ made = [published |-> 0, deleted |-> 0, failed |-> 0]
    /\ dirty = FALSE
    /\ failed = 0
    /\ unnoted = FALSE

Next ==
    \/ \E f \in Files : \E c \in Contents(f), k \in Configs(f) : Publish(f, c, k)
    \/ \E fs \in Selections : delete_files(fs)
    \/ \E s \in Deletable : delete_symbol(s)
    \/ run_transform_pipeline
    \/ mark_transform_pipeline_pending

\* Someone runs `cidx index` again until it succeeds; every run derives.
Fairness == WF_vars(Succeed)

Spec == Init /\ [][Next]_vars /\ Fairness

-----------------------------------------------------------------------------
(* Properties. *)

TypeOK ==
    /\ DOMAIN home \subseteq Symbols
    /\ \A s \in DOMAIN home : home[s] \in Files \cup {NoFile}
    /\ definition \subseteq Files \X SymbolRows
    /\ def_edge \subseteq definition \X SymbolRows
    /\ calls \subseteq SymbolRows \X SymbolRows
    /\ overrides \subseteq SymbolRows \X SymbolRows
    /\ \A r \in support.symbols : r[1] \in SymbolRows
    /\ \A r \in support.calls : r[1] \in calls
    /\ \A r \in support.overrides : r[1] \in overrides
    /\ DOMAIN rows["multi_def"] = DOMAIN home
    /\ rows["possible_call"] \subseteq definition \X definition
    /\ rows["dispatch_calls"] \subseteq SymbolRows \X SymbolRows
    /\ rows["entity_edge"] \subseteq SymbolRows \X SymbolRows
    /\ \A t \in Transforms : attempt[t] \in Published \cup {None, "failed", "stale"}
    /\ change.trusted => change.symbols \subseteq Symbols
    /\ state \in {None, "complete", "failed", "pending"}

\* Deriving only what changed gives what deriving everything would: when a
\* run has completed and no row was published since, the derived rows are
\* those of a rebuild, whatever publications, failures, deferrals and kills
\* came before (run_transform_pipeline with a trusted change set, and the
\* incremental forms of its transforms).  Some deletions are not noted: those by
\* command, the replaced rows of a header that is published under one more
\* configuration, and swept facts that other publications have taken from their
\* file.  What these leave behind counts only once a full run followed.
DerivedCurrent ==
    state = "complete" /\ ~dirty /\ ~unnoted => \A t \in Transforms : rows[t] = Rebuilt(t)

\* After a failed run, a transform the run reached, or one that depends on
\* the transform that failed, is reported ready only if its rows are those
\* of the current facts (transform_status).
FailedNotReady ==
    failed # 0 /\ ~dirty /\ ~unnoted
        => \A n \in 1..Len(Order) :
              (n <= failed \/ Order[n] \in Downstream(Order[failed])) /\ Ready(Order[n])
                  => rows[Order[n]] = Rebuilt(Order[n])

\* The stronger reading of the comment in run_transform_pipeline's failure
\* path: no fact set is reported ready for facts it was not derived from.
NoStaleReadiness ==
    failed # 0 /\ ~dirty /\ ~unnoted
        => \A t \in Transforms : Ready(t) => rows[t] = Rebuilt(t)

\* symbol.multi_def is the number of the symbol's definitions after every
\* completed run.
MultiDefCounts ==
    state = "complete" /\ ~dirty => rows["multi_def"] = set_multi_def

\* Whatever happened, deletions included, running the index again until it
\* succeeds leaves the derived rows of the facts for good.
EventuallyCurrent == <>[](\A t \in Transforms : rows[t] = Rebuilt(t))

=============================================================================
