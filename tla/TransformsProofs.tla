-------------------------- MODULE TransformsProofs --------------------------
(***************************************************************************)
(* Proofs about Transforms: for every set of files, symbols and contents,  *)
(* deriving only what the change set names gives what deriving everything  *)
(* would.                                                                  *)
(***************************************************************************)
EXTENDS Transforms, TLAPS

-----------------------------------------------------------------------------
(***************************************************************************)
(* The inductive invariant.                                                *)
(***************************************************************************)

Shape ==
    /\ rows = [t \in Transforms |-> rows[t]]
    /\ change \in [symbols : SUBSET Symbols, definitions : SUBSET (Files \X Symbols),
                   generation : Nat, trusted : BOOLEAN]

\* What a transform derives from what it reads.
Computed(t, read, done) ==
    CASE t = "multi_def" ->
           [s \in read[1] |-> Cardinality({d \in read[2] : d[2] = s})]
      [] t = "possible_call" ->
           {p \in read[2] \X read[2] :
               <<p[1], p[2][2]>> \in read[1] /\ done["multi_def"].output[p[2][2]] > 1}
      [] t = "dispatch_calls" ->
           {p \in Symbols \X Symbols :
               /\ p[1] # p[2]
               /\ \E e \in read[1] : e[1] = p[1] /\ p[2] \in Overriders(read[2], e[2])}
      [] t = "entity_edge" -> read[3]

\* A published result whose identity is that of an incremental run belongs to
\* an earlier change set than the one in hand; any other is what its transform
\* derives from the rows that are part of the identity.
Identified(t) ==
    LET identity == published[t].input[1]
    IN IF "generation" \in DOMAIN identity
       THEN /\ identity.generation \in 0..change.generation
            /\ change.trusted => identity.generation < change.generation
       ELSE published[t].output = Computed(t, identity.rows, published[t].input[2])

Recorded ==
    \A t \in Transforms : has_published_baseline(t) =>
        /\ Identified(t)
        /\ started

\* The pairs of bodies that the change set names, and the larger set whose fan-out
\* an incremental run computes again.  Only the first grows with the change set:
\* a call of a deleted symbol takes its body out of the second.
Named(p) == p[1] \in change.definitions \/ p[2][2] \in change.symbols
Affected(p) == p[1] \in PossibleCallSources \/ p[2][2] \in change.symbols

\* Whatever the change set does not name is as a rebuild would derive it.
CountsAgree ==
    \A s \in DOMAIN home \ change.symbols : rows["multi_def"][s] = set_multi_def[s]
CallsAgree ==
    \A p \in definition \X definition : ~Named(p) =>
        (p \in rows["possible_call"] <=> p \in materialize_possible_calls(set_multi_def))
DispatchAgrees ==
    \A p \in SymbolRows \X SymbolRows : p[1] \notin DispatchCallers =>
        (p \in rows["dispatch_calls"] <=> p \in materialize_dispatch_calls)

Agreement ==
    ~unnoted /\ (\E t \in Transforms : has_published_baseline(t)) =>
        CountsAgree /\ CallsAgree /\ DispatchAgrees

IInv ==
    /\ TypeOK /\ Shape /\ Recorded /\ Agreement
    /\ DerivedCurrent /\ FailedNotReady

-----------------------------------------------------------------------------
(***************************************************************************)
(* Operators.                                                              *)
(***************************************************************************)

\* No edge leads out of a set.
Closed(edges, C) == \A e \in edges : e[1] \in C => e[2] \in C

\* A recursive query stays inside every closed set that contains its seeds.
LEMMA ReachLeast ==
    ASSUME NEW edges, NEW seeds, NEW C \in SUBSET Symbols, seeds \subseteq C,
           Closed(edges, C)
    PROVE  Reach(edges, seeds) \subseteq C
  BY DEF Reach, Closed

\* It contains its seeds and what the edges lead to.
LEMMA ReachClosed ==
    ASSUME NEW edges \in SUBSET (Symbols \X Symbols), NEW seeds \in SUBSET Symbols
    PROVE  /\ seeds \subseteq Reach(edges, seeds)
           /\ Closed(edges, Reach(edges, seeds))
           /\ Reach(edges, seeds) \in SUBSET Symbols
  <1>1. seeds \subseteq Reach(edges, seeds) /\ Reach(edges, seeds) \in SUBSET Symbols
    BY DEF Reach
  <1>2. ASSUME NEW e \in edges, e[1] \in Reach(edges, seeds)
        PROVE  e[2] \in Reach(edges, seeds)
    <2>1. e[2] \in Symbols
      OBVIOUS
    <2>2. ASSUME NEW C \in SUBSET Symbols, seeds \subseteq C,
                 \A x \in edges : x[1] \in C => x[2] \in C
          PROVE  e[2] \in C
      BY <1>2, <2>2 DEF Reach
    <2>3. QED
      BY <2>1, <2>2 DEF Reach
  <1>3. QED
    BY <1>1, <1>2 DEF Closed

\* Inside a region that no edge leaves, only the edges of the region matter.
LEMMA ReachLocal ==
    ASSUME NEW edges, NEW others, NEW seeds, NEW K \in SUBSET Symbols, seeds \subseteq K,
           Closed(edges, K), \A e \in edges : e[1] \in K => e \in others
    PROVE  Reach(edges, seeds) \subseteq Reach(others, seeds)
  <1>1. SUFFICES ASSUME NEW s \in Reach(edges, seeds), NEW C \in SUBSET Symbols,
                        seeds \subseteq C, \A e \in others : e[1] \in C => e[2] \in C
                 PROVE  s \in C
    BY DEF Reach
  <1>2. Closed(edges, C \cap K)
    BY <1>1 DEF Closed
  <1>3. QED
    BY <1>1, <1>2, ReachLeast

\* The rows a full run derives are about rows that exist.
LEMMA DerivedTypes ==
    ASSUME TypeOK
    PROVE  /\ \A multi : materialize_possible_calls(multi) \subseteq definition \X definition
           /\ materialize_dispatch_calls \subseteq SymbolRows \X SymbolRows
  <1>1. \A multi : materialize_possible_calls(multi) \subseteq definition \X definition
    BY DEF materialize_possible_calls
  <1>2. ASSUME NEW base
        PROVE  Overriders(overrides, base) \subseteq SymbolRows
    <2>1. SymbolRows \in SUBSET Symbols
      BY DEF TypeOK, SymbolRows
    <2>2. {e[1] : e \in {x \in overrides : x[2] = base}} \subseteq SymbolRows
      BY DEF TypeOK
    <2>3. Closed(Flip(overrides), SymbolRows)
      BY DEF TypeOK, Closed, Flip
    <2>4. QED
      BY <2>1, <2>2, <2>3, ReachLeast DEF Overriders
  <1>3. \A e \in calls : e[1] \in SymbolRows
    BY DEF TypeOK
  <1>4. materialize_dispatch_calls \subseteq SymbolRows \X SymbolRows
    BY <1>2, <1>3 DEF materialize_dispatch_calls
  <1>5. QED
    BY <1>1, <1>4

\* A full run depends on nothing but what the identity of the run names.
LEMMA FullComputed ==
    ASSUME NEW t \in Transforms, NEW done
    PROVE  Full(t, done) = Computed(t, Input(t), done)
  <1>1. CASE t = "multi_def"
    BY <1>1 DEF Full, Computed, Input, set_multi_def
  <1>2. CASE t = "possible_call"
    BY <1>2 DEF Full, Computed, Input, materialize_possible_calls
  <1>3. CASE t = "dispatch_calls"
    BY <1>3 DEF Full, Computed, Input, materialize_dispatch_calls
  <1>4. CASE t = "entity_edge"
    BY <1>4 DEF Full, Computed, Input, materialise_entity_edges
  <1>5. QED
    BY <1>1, <1>2, <1>3, <1>4 DEF Transforms

-----------------------------------------------------------------------------
(***************************************************************************)
(* The results of a run.                                                   *)
(***************************************************************************)

\* Where everything outside the change set agrees, an incremental run derives
\* what a full one does.
LEMMA IncrementalIsFull ==
    ASSUME TypeOK, CountsAgree, CallsAgree, DispatchAgrees,
           NEW t \in Transforms, incremental(t), NEW done,
           t = "possible_call" => done["multi_def"].output = set_multi_def
    PROVE  Incremental(t, done) = Full(t, done)
  <1>1. CASE t = "multi_def"
    <2>1. \A s \in DOMAIN home : s \notin change.symbols => rows["multi_def"][s] = set_multi_def[s]
      BY DEF CountsAgree
    <2>2. set_multi_def_of = [s \in DOMAIN home |-> set_multi_def[s]]
      BY <2>1 DEF set_multi_def_of
    <2>3. set_multi_def = [s \in DOMAIN home |-> set_multi_def[s]]
      BY DEF set_multi_def
    <2>4. QED
      BY <1>1, <2>2, <2>3 DEF Incremental, Full
  <1>2. CASE t = "possible_call"
    <2> DEFINE full == materialize_possible_calls(set_multi_def)
    <2>1. rows["possible_call"] \subseteq definition \X definition
      BY DEF TypeOK
    <2>2. full \subseteq definition \X definition
      BY DerivedTypes
    <2>3. materialize_possible_calls_of(set_multi_def) =
            {p \in rows["possible_call"] : ~Affected(p)} \cup {p \in full : Affected(p)}
      BY DEF materialize_possible_calls_of, Affected
    <2>4. \A p \in definition \X definition : ~Affected(p) =>
            (p \in rows["possible_call"] <=> p \in full)
      BY DEF CallsAgree, Named, Affected, PossibleCallSources
    <2> HIDE DEF full
    <2>5. materialize_possible_calls_of(set_multi_def) = full
      BY <2>1, <2>2, <2>3, <2>4
    <2>6. QED
      BY <1>2, <2>5 DEF Incremental, Full, full
  <1>3. CASE t = "dispatch_calls"
    <2>1. rows["dispatch_calls"] \subseteq SymbolRows \X SymbolRows
      BY DEF TypeOK
    <2>2. materialize_dispatch_calls \subseteq SymbolRows \X SymbolRows
      BY DerivedTypes
    <2>3. materialize_dispatch_calls_of = materialize_dispatch_calls
      BY <2>1, <2>2 DEF materialize_dispatch_calls_of, DispatchAgrees
    <2>4. QED
      BY <1>3, <2>3 DEF Incremental, Full
  <1>4. QED
    BY <1>1, <1>2, <1>3 DEF Transforms, incremental, supports_incremental

\* A result is kept only if it is the one a full run would derive.
LEMMA ReusedIsFull ==
    ASSUME Shape, Recorded, NEW t \in Transforms, NEW done,
           has_published_baseline(t),
           published[t] = [input |-> input_identity(t, done), output |-> rows[t]]
    PROVE  ~incremental(t) /\ rows[t] = Full(t, done)
  <1>1. published[t].input = input_identity(t, done) /\ published[t].output = rows[t]
    OBVIOUS
  <1>2. Identified(t)
    BY DEF Recorded
  <1>3. ASSUME incremental(t)
        PROVE  FALSE
    <2>1. published[t].input[1] = [generation |-> change.generation]
      BY <1>1, <1>3 DEF input_identity
    <2>2. change.trusted => change.generation < change.generation
      BY <1>2, <2>1 DEF Identified
    <2>3. QED
      BY <1>3, <2>2 DEF incremental, Shape
  <1>4. /\ published[t].input[1] = [files |-> table, rows |-> Input(t)]
        /\ published[t].input[2] = done
    BY <1>1, <1>3 DEF input_identity
  <1>5. published[t].output = Computed(t, Input(t), done)
    BY <1>2, <1>4 DEF Identified
  <1>6. QED
    BY <1>1, <1>3, <1>5, FullComputed

\* The fields of the result of one transform.
LEMMA OutcomeFields ==
    ASSUME Shape, Recorded, NEW t \in Transforms, NEW done
    PROVE  /\ Outcome(t, done).input = input_identity(t, done)
           /\ Outcome(t, done).how \in Published
           /\ Outcome(t, done).how = "reused" =>
                ~incremental(t) /\ Outcome(t, done).output = rows[t]
           /\ Outcome(t, done).output =
                IF incremental(t) THEN Incremental(t, done) ELSE Full(t, done)
  <1>1. CASE /\ has_published_baseline(t)
             /\ published[t] = [input |-> input_identity(t, done), output |-> rows[t]]
    <2>1. Outcome(t, done) =
            [input |-> input_identity(t, done), output |-> rows[t], how |-> "reused"]
      BY <1>1 DEF Outcome
    <2>2. ~incremental(t) /\ rows[t] = Full(t, done)
      BY <1>1, ReusedIsFull
    <2>3. QED
      BY <2>1, <2>2 DEF Published
  <1>2. CASE ~(/\ has_published_baseline(t)
               /\ published[t] = [input |-> input_identity(t, done), output |-> rows[t]])
    <2>1. Outcome(t, done) =
            [input |-> input_identity(t, done),
             output |-> IF incremental(t) THEN Incremental(t, done) ELSE Full(t, done),
             how |-> "ran"]
      BY <1>2 DEF Outcome
    <2>2. QED
      BY <2>1 DEF Published
  <1>3. QED
    BY <1>1, <1>2

\* Either nothing was left out of the change set, or a run ignores it.
Exact == ~unnoted \/ ~change.trusted

\* A run with an exact change set derives what a rebuild would.
LEMMA OutcomeExact ==
    ASSUME IInv, Exact, NEW t \in Transforms, NEW done,
           t = "possible_call" => done["multi_def"].output = set_multi_def
    PROVE  Outcome(t, done).output = Full(t, done)
  <1>1. CASE incremental(t)
    <2>1. CountsAgree /\ CallsAgree /\ DispatchAgrees
      BY <1>1 DEF IInv, Agreement, Exact, incremental
    <2>2. Incremental(t, done) = Full(t, done)
      BY <1>1, <2>1, IncrementalIsFull DEF IInv
    <2>3. QED
      BY <1>1, <2>2, OutcomeFields DEF IInv
  <1>2. CASE ~incremental(t)
    BY <1>2, OutcomeFields DEF IInv
  <1>3. QED
    BY <1>1, <1>2

\* So the rows of every transform are those of a rebuild.
LEMMA ResultExact ==
    ASSUME IInv, Exact, NEW t \in Transforms
    PROVE  Result(t).output = Rebuilt(t)
  <1>1. CASE t # "possible_call"
    <2>1. Result(t).output = Full(t, Done(t))
      BY <1>1, OutcomeExact DEF Result
    <2>2. QED
      BY <1>1, <2>1 DEF Full, Rebuilt, Transforms
  <1>2. CASE t = "possible_call"
    <2>1. Outcome("multi_def", <<>>).output = set_multi_def
      <3>1. "multi_def" \in Transforms
        BY DEF Transforms
      <3>2. Outcome("multi_def", <<>>).output = Full("multi_def", <<>>)
        BY <3>1, OutcomeExact
      <3>3. QED
        BY <3>2 DEF Full
    <2>2. Done(t)["multi_def"].output = set_multi_def
      BY <1>2, <2>1 DEF Done, Dependencies
    <2>3. Result(t).output = Full(t, Done(t))
      BY <2>2, OutcomeExact DEF Result
    <2>4. QED
      BY <1>2, <2>2, <2>3 DEF Full, Rebuilt
  <1>3. QED
    BY <1>1, <1>2

\* What a run derives is about rows that exist, whatever the change set says.
LEMMA ResultTypes ==
    ASSUME TypeOK, Shape, Recorded
    PROVE  /\ DOMAIN Result("multi_def").output = DOMAIN home
           /\ Result("possible_call").output \subseteq definition \X definition
           /\ Result("dispatch_calls").output \subseteq SymbolRows \X SymbolRows
           /\ Result("entity_edge").output \subseteq SymbolRows \X SymbolRows
  <1>1. \A t \in Transforms :
          Result(t).output = IF incremental(t) THEN Incremental(t, Done(t))
                             ELSE Full(t, Done(t))
    BY OutcomeFields DEF Result
  <1>2. DOMAIN Result("multi_def").output = DOMAIN home
    BY <1>1 DEF Transforms, Incremental, Full, set_multi_def, set_multi_def_of
  <1>3. Result("possible_call").output \subseteq definition \X definition
    <2>1. \A multi : materialize_possible_calls_of(multi) \subseteq definition \X definition
      BY DerivedTypes DEF materialize_possible_calls_of, TypeOK
    <2>2. QED
      BY <1>1, <2>1, DerivedTypes DEF Transforms, Incremental, Full
  <1>4. Result("dispatch_calls").output \subseteq SymbolRows \X SymbolRows
    <2>1. materialize_dispatch_calls_of \subseteq SymbolRows \X SymbolRows
      BY DerivedTypes DEF materialize_dispatch_calls_of, TypeOK
    <2>2. QED
      BY <1>1, <2>1, DerivedTypes DEF Transforms, Incremental, Full
  <1>5. Result("entity_edge").output \subseteq SymbolRows \X SymbolRows
    BY <1>1 DEF Transforms, incremental, supports_incremental, Full,
                materialise_entity_edges, TypeOK
  <1>6. QED
    BY <1>2, <1>3, <1>4, <1>5

-----------------------------------------------------------------------------
(***************************************************************************)
(* The pipeline keeps the invariant.                                       *)
(***************************************************************************)

LEMMA InitInv == Init => IInv
  <1> SUFFICES ASSUME Init
               PROVE  IInv
    OBVIOUS
  <1>1. TypeOK
    BY DEF Init, TypeOK, Transforms, Published, SymbolRows
  <1>2. Shape
    BY DEF Init, Shape, Transforms
  <1>3. Recorded /\ Agreement
    BY DEF Init, Recorded, Agreement, has_published_baseline
  <1>4. DerivedCurrent /\ FailedNotReady
    BY NoneAssumption DEF Init, DerivedCurrent, FailedNotReady
  <1>5. QED
    BY <1>1, <1>2, <1>3, <1>4 DEF IInv

\* What a rebuild would derive depends on the facts alone.
LEMMA SameFacts ==
    ASSUME UNCHANGED facts
    PROVE  /\ set_multi_def' = set_multi_def
           /\ materialize_dispatch_calls' = materialize_dispatch_calls
           /\ \A multi : materialize_possible_calls(multi)' = materialize_possible_calls(multi)
           /\ \A t \in Transforms : Rebuilt(t)' = Rebuilt(t)
  <1>1. /\ set_multi_def' = set_multi_def
        /\ materialize_dispatch_calls' = materialize_dispatch_calls
        /\ materialise_entity_edges' = materialise_entity_edges
    BY DEF facts, set_multi_def, materialize_dispatch_calls, materialise_entity_edges
  <1>2. \A multi : materialize_possible_calls(multi)' = materialize_possible_calls(multi)
    BY DEF facts, materialize_possible_calls
  <1>3. materialize_possible_calls(set_multi_def)' = materialize_possible_calls(set_multi_def)
    BY <1>1 DEF facts, materialize_possible_calls
  <1>4. \A t \in Transforms : Rebuilt(t)' = Rebuilt(t)
    BY <1>1, <1>3 DEF Rebuilt, Full, Transforms
  <1>5. QED
    BY <1>1, <1>2, <1>4

\* A completed run publishes the rows of a rebuild, and clears the change set.
LEMMA SucceedKeeps ==
    ASSUME IInv, Succeed
    PROVE  IInv'
  <1> USE DEF IInv
  <1>1. /\ \A t \in Transforms :
             /\ rows'[t] = Result(t).output
             /\ published'[t] = [input |-> Result(t).input, output |-> Result(t).output]
             /\ attempt'[t] = Result(t).how
        /\ rows' = [t \in Transforms |-> Result(t).output]
        /\ UNCHANGED <<facts, support>>
        /\ started' = TRUE /\ state' = "complete" /\ dirty' = FALSE /\ failed' = 0
        /\ change' = [change EXCEPT !.symbols = {}, !.definitions = {}, !.trusted = FALSE]
        /\ unnoted' = (unnoted /\ change.trusted)
    BY DEF Succeed
  <1>2. Shape'
    BY <1>1 DEF Shape
  <1>3. /\ change'.symbols = {} /\ change'.trusted = FALSE
        /\ change'.generation = change.generation /\ change.generation \in Nat
    BY <1>1 DEF Shape
  <1>4. TypeOK'
    <2>1. \A t \in Transforms : attempt'[t] \in Published
      BY <1>1, OutcomeFields DEF Result
    <2>2. QED
      BY <1>1, <1>3, <2>1, ResultTypes DEF TypeOK, facts, SymbolRows, Transforms
  <1>5. Recorded'
    <2>1. ASSUME NEW t \in Transforms
          PROVE  Identified(t)'
      <3>1. /\ published'[t].input = input_identity(t, Done(t))
            /\ published'[t].output = Result(t).output
        <4>1. Result(t).input = input_identity(t, Done(t))
          BY OutcomeFields DEF Result
        <4>2. published'[t] = [input |-> Result(t).input, output |-> Result(t).output]
          BY <1>1
        <4>3. QED
          BY <4>1, <4>2
      <3>2. CASE incremental(t)
        <4>1. published'[t].input[1] = [generation |-> change.generation]
          BY <3>1, <3>2 DEF input_identity
        <4>2. QED
          BY <1>3, <4>1 DEF Identified
      <3>3. CASE ~incremental(t)
        <4>1. /\ published'[t].input[1] = [files |-> table, rows |-> Input(t)]
              /\ published'[t].input[2] = Done(t)
          BY <3>1, <3>3 DEF input_identity
        <4>2. published'[t].output = Computed(t, Input(t), Done(t))
          <5>1. Result(t).output = Full(t, Done(t))
            BY <3>3, OutcomeFields DEF Result
          <5>2. QED
            BY <3>1, <5>1, FullComputed
        <4>3. published'[t].output =
                Computed(t, published'[t].input[1].rows, published'[t].input[2])
          BY <4>1, <4>2
        <4>4. "generation" \notin DOMAIN published'[t].input[1]
          BY <4>1
        <4>5. QED
          BY <4>3, <4>4 DEF Identified, Computed
      <3>4. QED
        BY <3>2, <3>3
    <2>2. QED
      BY <1>1, <2>1 DEF Recorded
  <1>6. ASSUME ~unnoted'
        PROVE  \A t \in Transforms : rows'[t] = Rebuilt(t)'
    BY <1>1, <1>6, ResultExact, SameFacts DEF Exact
  <1>7. Agreement'
    <2>1. SUFFICES ASSUME ~unnoted'
                   PROVE  CountsAgree' /\ CallsAgree' /\ DispatchAgrees'
      BY DEF Agreement
    <2>2. /\ rows'["multi_def"] = set_multi_def'
          /\ rows'["possible_call"] = materialize_possible_calls(set_multi_def)'
          /\ rows'["dispatch_calls"] = materialize_dispatch_calls'
      BY <2>1, <1>6 DEF Rebuilt, Full, Transforms
    <2>3. QED
      BY <2>2 DEF CountsAgree, CallsAgree, DispatchAgrees
  <1>8. DerivedCurrent' /\ FailedNotReady'
    BY <1>1, <1>6 DEF DerivedCurrent, FailedNotReady
  <1>9. QED
    BY <1>2, <1>4, <1>5, <1>7, <1>8

\* The derived rows, the facts and the change set are left alone.
LEMMA RecordsKept ==
    ASSUME IInv, UNCHANGED <<facts, rows, published, change, unnoted>>, started => started'
    PROVE  Shape' /\ Recorded' /\ Agreement'
  <1>1. Shape'
    BY DEF IInv, Shape
  <1>2. \A t \in Transforms :
          /\ has_published_baseline(t)' <=> has_published_baseline(t)
          /\ Identified(t)' <=> Identified(t)
    BY DEF has_published_baseline, Identified, Computed, Overriders, Reach
  <1>3. Recorded'
    BY <1>2 DEF IInv, Recorded
  <1>4. (CountsAgree /\ CallsAgree /\ DispatchAgrees)
          <=> (CountsAgree' /\ CallsAgree' /\ DispatchAgrees')
    <2>1. DispatchCallers' = DispatchCallers
      BY DEF facts, DispatchCallers
    <2>2. materialize_possible_calls(set_multi_def)' = materialize_possible_calls(set_multi_def)
      BY DEF facts, materialize_possible_calls, set_multi_def
    <2>3. QED
      BY <2>1, <2>2, SameFacts DEF facts, CountsAgree, CallsAgree, DispatchAgrees,
                                   Named, SymbolRows
  <1>5. Agreement'
    BY <1>2, <1>4 DEF IInv, Agreement
  <1>6. QED
    BY <1>1, <1>3, <1>5

\* A failed run leaves only those transforms ready whose result it would keep.
LEMMA FailKeeps ==
    ASSUME IInv, NEW n \in 1..Len(Order), Fail(n)
    PROVE  IInv'
  <1> DEFINE ran == {u \in {Order[i] : i \in 1..(n - 1)} : Result(u).how = "ran"}
  <1>1. /\ attempt' = [u \in Transforms |->
                         IF u = Order[n] THEN "failed"
                         ELSE IF u \in ran \cup Downstream(Order[n]) THEN "stale"
                         ELSE attempt[u]]
        /\ started' = TRUE /\ state' = "failed" /\ dirty' = FALSE /\ failed' = n
        /\ UNCHANGED <<facts, support, rows, published, change, unnoted>>
    BY DEF Fail
  <1>2. \A i \in 1..4 : Order[i] \in Transforms
    BY DEF Order, Transforms
  <1>3. Len(Order) = 4
    BY DEF Order
  <1> HIDE DEF ran
  <1>4. TypeOK'
    BY <1>1 DEF IInv, TypeOK, facts, SymbolRows, Transforms
  <1>5. Shape' /\ Recorded' /\ Agreement'
    BY <1>1, RecordsKept
  <1>6. DerivedCurrent'
    BY <1>1 DEF DerivedCurrent
  <1>7. FailedNotReady'
    <2>1. SUFFICES ASSUME ~unnoted, NEW m \in 1..4,
                          m <= n \/ Order[m] \in Downstream(Order[n]), Ready(Order[m])'
                   PROVE  rows'[Order[m]] = Rebuilt(Order[m])'
      BY <1>1, <1>3 DEF FailedNotReady
    <2>2. attempt'[Order[m]] \in Published
      BY <2>1 DEF Ready
    <2>3. /\ Order[m] # Order[n] /\ Order[m] \notin ran
          /\ Order[m] \notin Downstream(Order[n])
      BY <1>1, <1>2, <2>2 DEF Published
    <2>4. m \in 1..(n - 1)
      BY <1>3, <2>1, <2>3
    <2>5. Result(Order[m]).how # "ran"
      BY <2>3, <2>4 DEF ran
    <2>6. Result(Order[m]).output = rows[Order[m]]
      BY <1>2, <2>5, OutcomeFields DEF IInv, Result, Published
    <2>7. rows[Order[m]] = Rebuilt(Order[m])
      BY <1>2, <2>1, <2>6, ResultExact DEF Exact
    <2>8. QED
      BY <1>1, <1>2, <2>7, SameFacts
  <1>8. QED
    BY <1>4, <1>5, <1>6, <1>7 DEF IInv

\* A run that is put off reports nothing ready.
LEMMA PendingKeeps ==
    ASSUME IInv, mark_transform_pipeline_pending
    PROVE  IInv'
  <1>1. /\ state' = "pending"
        /\ UNCHANGED <<facts, support, rows, published, attempt, change, started, dirty,
                       failed, unnoted>>
    BY DEF mark_transform_pipeline_pending
  <1>2. TypeOK'
    BY <1>1 DEF IInv, TypeOK, facts, SymbolRows
  <1>3. Shape' /\ Recorded' /\ Agreement'
    BY <1>1, RecordsKept
  <1>4. DerivedCurrent' /\ FailedNotReady'
    BY <1>1 DEF DerivedCurrent, FailedNotReady, Ready
  <1>5. QED
    BY <1>2, <1>3, <1>4 DEF IInv

-----------------------------------------------------------------------------
(***************************************************************************)
(* Publishing and deleting keep the invariant.                             *)
(***************************************************************************)

\* The tables refer to rows that exist.
LEMMA Types ==
    ASSUME IInv
    PROVE  /\ SymbolRows \subseteq Symbols
           /\ definition \subseteq Files \X SymbolRows
           /\ def_edge \subseteq definition \X SymbolRows
           /\ calls \subseteq SymbolRows \X SymbolRows
           /\ overrides \subseteq SymbolRows \X SymbolRows
           /\ rows["dispatch_calls"] \subseteq SymbolRows \X SymbolRows
  BY DEF IInv, TypeOK, SymbolRows

\* What a deletion leaves refers to rows that are still there.
LEMMA RemoveKeeps ==
    ASSUME IInv, NEW fs, NEW syms, Remove(fs, syms)
    PROVE  IInv'
  <1>1. /\ home' = [s \in SymbolRows \ syms |-> home[s]]
        /\ definition' = {d \in definition : d[1] \notin fs /\ d[2] \notin syms}
        /\ def_edge' = {e \in def_edge : e[1] \in definition' /\ e[2] \notin syms}
        /\ calls' = calls \ Touching(calls, syms)
        /\ overrides' = overrides \ Touching(overrides, syms)
        /\ rows' = Cascade(rows, SymbolRows', definition')
        /\ dirty' = TRUE /\ unnoted' = TRUE
        /\ UNCHANGED <<published, attempt, change, started, state, failed>>
    BY DEF Remove, SymbolRows, Spared
  <1>2. /\ SymbolRows' = SymbolRows \ syms
        /\ \A s \in SymbolRows' : home'[s] = home[s]
    BY <1>1 DEF SymbolRows
  <1>3. TypeOK'
    <2>1. /\ SymbolRows' \subseteq Symbols
          /\ \A s \in SymbolRows' : home'[s] \in Files \cup {NoFile}
      BY <1>2 DEF IInv, TypeOK, SymbolRows
    <2>2. definition' \subseteq Files \X SymbolRows'
      BY <1>1, <1>2 DEF IInv, TypeOK, SymbolRows
    <2>3. def_edge' \subseteq definition' \X SymbolRows'
      <3>1. def_edge \subseteq definition \X SymbolRows
        BY DEF IInv, TypeOK, SymbolRows
      <3>2. QED
        BY <1>1, <1>2, <3>1
    <2>4. /\ calls' \subseteq SymbolRows' \X SymbolRows'
          /\ overrides' \subseteq SymbolRows' \X SymbolRows'
      <3>1. ASSUME NEW edges, edges \subseteq SymbolRows \X SymbolRows
            PROVE  edges \ Touching(edges, syms) \subseteq SymbolRows' \X SymbolRows'
        BY <1>2, <3>1 DEF Touching
      <3>2. QED
        BY <1>1, <3>1, Types
    <2>5. /\ DOMAIN rows'["multi_def"] = SymbolRows'
          /\ rows'["possible_call"] \subseteq definition' \X definition'
          /\ rows'["dispatch_calls"] \subseteq SymbolRows' \X SymbolRows'
          /\ rows'["entity_edge"] \subseteq SymbolRows' \X SymbolRows'
      <3>1. rows' = Cascade(rows, SymbolRows', definition')
        BY <1>1
      <3>2. /\ rows'["multi_def"] = [s \in SymbolRows' |-> IF s \in DOMAIN rows["multi_def"]
                                       THEN rows["multi_def"][s] ELSE 0]
            /\ rows'["possible_call"] = rows["possible_call"] \cap (definition' \X definition')
            /\ rows'["dispatch_calls"] = rows["dispatch_calls"] \cap (SymbolRows' \X SymbolRows')
            /\ rows'["entity_edge"] = rows["entity_edge"] \cap (SymbolRows' \X SymbolRows')
        BY <3>1 DEF Cascade
      <3>3. DOMAIN rows'["multi_def"] = SymbolRows'
        BY <3>2
      <3>4. QED
        BY <3>2, <3>3, Zenon
    <2>6. /\ \A t \in Transforms : attempt'[t] \in Published \cup {None, "failed", "stale"}
          /\ change'.trusted => change'.symbols \subseteq Symbols
          /\ state' \in {None, "complete", "failed", "pending"}
      BY <1>1 DEF IInv, TypeOK
    <2>7. /\ \A r \in support'.symbols : r[1] \in SymbolRows'
          /\ \A r \in support'.calls : r[1] \in calls'
          /\ \A r \in support'.overrides : r[1] \in overrides'
      BY DEF Remove, SymbolRows
    <2>8. QED
      BY <2>1, <2>2, <2>3, <2>4, <2>5, <2>6, <2>7 DEF TypeOK, SymbolRows
  <1>4. Shape'
    <2>1. rows' = [t \in Transforms |-> rows'[t]]
      <3>1. rows' = Cascade(rows, SymbolRows', definition')
        BY <1>1
      <3>2. QED
        BY <3>1 DEF Cascade, Transforms
    <2>2. QED
      BY <1>1, <2>1 DEF IInv, Shape
  <1>5. Recorded'
    BY <1>1 DEF IInv, Recorded, has_published_baseline, Identified, Computed
  <1>6. Agreement' /\ DerivedCurrent' /\ FailedNotReady'
    BY <1>1 DEF Agreement, DerivedCurrent, FailedNotReady
  <1>7. QED
    BY <1>3, <1>4, <1>5, <1>6 DEF IInv

\* The definitions that a publication of the file leaves alone, when the sweep
\* takes the given symbols.
Kept(f, gone) == {d \in definition : d[1] # f /\ d[2] \notin gone}

\* The edges that the cleanup of the file and the sweep of symbols leave.
Staying(edges, f, gone) == {e \in Spared(edges, gone) : home[e[1]] # f}

\* What a publication says once the sweep is done: all the file defines, and
\* the edges whose ends are still there.
LEMMA SaidFields ==
    ASSUME NEW f \in Files, NEW d \in Contents(f), NEW k
    PROVE  /\ LostSymbols(f, d, k) \cap d.defines = {}
           /\ Said(f, d, k).defines = d.defines
           /\ d.defines \subseteq RecordedSymbols(Said(f, d, k))
           /\ RecordedSymbols(Said(f, d, k)) = RecordedSymbols(d) \ LostSymbols(f, d, k)
           /\ RecordedSymbols(Said(f, d, k)) \in SUBSET Symbols
           /\ Said(f, d, k).calls \subseteq
                RecordedSymbols(Said(f, d, k)) \X RecordedSymbols(Said(f, d, k))
           /\ Said(f, d, k).overrides \subseteq
                RecordedSymbols(Said(f, d, k)) \X RecordedSymbols(Said(f, d, k))
           /\ \A e \in Said(f, d, k).calls : e[1] \in d.defines
  <1> DEFINE gone == LostSymbols(f, d, k)
             c == Said(f, d, k)
  <1>1. /\ d \in [defines : SUBSET Symbols, calls : SUBSET (Symbols \X Symbols),
                  overrides : SUBSET (Symbols \X Symbols)]
        /\ \A e \in d.calls \cup d.overrides : e[1] \in d.defines
    BY ContentsAssumption
  <1>2. gone \cap d.defines = {}
    BY DEF LostSymbols, Lost
  <1>3. c.defines = d.defines /\ c.calls = Spared(d.calls, gone)
          /\ c.overrides = Spared(d.overrides, gone)
    BY DEF Said
  <1> HIDE DEF gone, c
  <1>4. /\ c.calls = {e \in d.calls : e[2] \notin gone}
        /\ c.overrides = {e \in d.overrides : e[2] \notin gone}
    BY <1>1, <1>2, <1>3 DEF Spared, Touching
  <1>5. /\ RecordedSymbols(c) = c.defines \cup {e[1] : e \in c.calls \cup c.overrides}
                                  \cup {e[2] : e \in c.calls \cup c.overrides}
        /\ RecordedSymbols(d) = d.defines \cup {e[1] : e \in d.calls \cup d.overrides}
                                  \cup {e[2] : e \in d.calls \cup d.overrides}
    BY DEF RecordedSymbols, Ends
  <1>6. RecordedSymbols(c) = RecordedSymbols(d) \ gone
    BY <1>1, <1>2, <1>3, <1>4, <1>5
  <1>7. d.defines \subseteq RecordedSymbols(c) /\ RecordedSymbols(c) \in SUBSET Symbols
    BY <1>1, <1>3, <1>4, <1>5
  <1>8. /\ c.calls \subseteq RecordedSymbols(c) \X RecordedSymbols(c)
        /\ c.overrides \subseteq RecordedSymbols(c) \X RecordedSymbols(c)
    BY <1>1, <1>4, <1>5
  <1>9. \A e \in c.calls : e[1] \in d.defines
    BY <1>1, <1>4
  <1>10. QED
    BY <1>2, <1>3, <1>6, <1>7, <1>8, <1>9 DEF gone, c

\* The symbols a publication adds and takes away.
LEMMA PublishSymbols ==
    ASSUME IInv, NEW f \in Files, NEW d \in Contents(f), NEW k, Publish(f, d, k),
           NEW c, c = Said(f, d, k), NEW gone, gone = LostSymbols(f, d, k)
    PROVE  /\ SymbolRows' = (SymbolRows \ gone) \cup RecordedSymbols(c)
           /\ gone \cap SymbolRows' = {}
           /\ \A s \in SymbolRows' : home'[s] \in Files \cup {NoFile}
  <1>1. home' = [s \in (SymbolRows \cup RecordedSymbols(d)) \ gone |->
                   IF s \in d.defines THEN f
                   ELSE IF s \in SymbolRows THEN home[s] ELSE NoFile]
    BY DEF Publish, SymbolRows
  <1>2. SymbolRows' = (SymbolRows \cup RecordedSymbols(d)) \ gone
    BY <1>1 DEF SymbolRows
  <1>3. RecordedSymbols(c) = RecordedSymbols(d) \ gone
    BY SaidFields
  <1>4. \A s \in SymbolRows' : home'[s] \in Files \cup {NoFile}
    BY <1>1, <1>2 DEF IInv, TypeOK, SymbolRows
  <1>5. QED
    BY <1>2, <1>3, <1>4

\* The rows of the file are replaced, the rows of others stay unless the sweep
\* takes them.
LEMMA PublishRows ==
    ASSUME NEW f \in Files, NEW d \in Contents(f), NEW k, Publish(f, d, k),
           NEW c, c = Said(f, d, k), NEW gone, gone = LostSymbols(f, d, k)
    PROVE  /\ definition' = Kept(f, gone) \cup ({f} \X c.defines)
           /\ def_edge' = {e \in def_edge : e[1] \in Kept(f, gone) /\ e[2] \notin gone}
                            \cup {<<<<f, e[1]>>, e[2]>> : e \in c.calls}
           /\ calls' = (Staying(calls, f, gone) \ LostCalls(f, d, k)) \cup c.calls
           /\ overrides' = (Staying(overrides, f, gone) \ LostOverrides(f, d, k))
                             \cup c.overrides
  <1>1. c.defines = d.defines
    BY SaidFields
  <1>2. QED
    BY <1>1 DEF Publish, Kept, Staying

\* The derived rows that stay.
LEMMA PublishDerived ==
    ASSUME IInv, NEW f \in Files, NEW d \in Contents(f), NEW k, Publish(f, d, k),
           NEW gone, gone = LostSymbols(f, d, k)
    PROVE  /\ rows' = [t \in Transforms |-> rows'[t]]
           /\ rows'["multi_def"] = [s \in SymbolRows' |-> IF s \in SymbolRows
                                      THEN rows["multi_def"][s] ELSE 0]
           /\ rows'["possible_call"] =
                rows["possible_call"] \cap (Kept(f, gone) \X Kept(f, gone))
           /\ rows'["dispatch_calls"] = Staying(rows["dispatch_calls"], f, gone)
                                          \cap (SymbolRows' \X SymbolRows')
           /\ rows'["entity_edge"] = rows["entity_edge"] \cap (SymbolRows' \X SymbolRows')
  <1> DEFINE before == [rows EXCEPT !["dispatch_calls"] = Staying(@, f, gone)]
  <1>1. rows' = Cascade(before, SymbolRows', Kept(f, gone))
    BY DEF Publish, Kept, SymbolRows, Staying
  <1>2. /\ before["dispatch_calls"] = Staying(rows["dispatch_calls"], f, gone)
        /\ before["multi_def"] = rows["multi_def"]
        /\ before["possible_call"] = rows["possible_call"]
        /\ before["entity_edge"] = rows["entity_edge"]
    BY DEF IInv, Shape, Transforms
  <1> HIDE DEF before
  <1>3. DOMAIN rows["multi_def"] = SymbolRows
    BY DEF IInv, TypeOK, SymbolRows
  <1>4. rows'["multi_def"] = [s \in SymbolRows' |-> IF s \in SymbolRows
                                THEN rows["multi_def"][s] ELSE 0]
    BY <1>1, <1>2, <1>3 DEF Cascade
  <1>5. /\ rows'["possible_call"] =
             rows["possible_call"] \cap (Kept(f, gone) \X Kept(f, gone))
        /\ rows'["dispatch_calls"] = Staying(rows["dispatch_calls"], f, gone)
                                       \cap (SymbolRows' \X SymbolRows')
        /\ rows'["entity_edge"] = rows["entity_edge"] \cap (SymbolRows' \X SymbolRows')
        /\ rows' = [t \in Transforms |-> rows'[t]]
    BY <1>1, <1>2 DEF Cascade, Transforms
  <1>6. QED
    BY <1>4, <1>5

\* The identities a file's facts had are symbols.
LEMMA PriorTypes ==
    ASSUME IInv, NEW f \in Files
    PROVE  /\ PriorSymbols(f) \in SUBSET Symbols
           /\ PriorDefinitions(f) \in SUBSET (Files \X Symbols)
  <1>1. Edges \subseteq SymbolRows \X SymbolRows
    BY Types DEF Edges
  <1>2. ASSUME NEW syms
        PROVE  Ends(Touching(Edges, syms)) \subseteq SymbolRows
    <2>1. Touching(Edges, syms) \subseteq SymbolRows \X SymbolRows
      BY <1>1 DEF Touching
    <2>2. QED
      BY <2>1 DEF Ends
  <1>3. {d[2] : d \in {x \in definition : x[1] = f}} \subseteq SymbolRows
    BY Types
  <1>4. {e[2] : e \in {x \in def_edge : x[1][1] = f}} \subseteq SymbolRows
    BY Types
  <1>5. PriorSymbols(f) \subseteq SymbolRows
    BY <1>2, <1>3, <1>4 DEF PriorSymbols, Own, SymbolRows
  <1>6. QED
    BY <1>5, Types DEF PriorDefinitions

\* A publication of a started index notes every new identity, and the prior ones
\* where they are captured.
LEMMA PublishNotes ==
    ASSUME IInv, NEW f \in Files, NEW d \in Contents(f), NEW k, Publish(f, d, k),
           NEW c, c = Said(f, d, k)
    PROVE  /\ Shape'
           /\ change.symbols \subseteq change'.symbols
           /\ change.definitions \subseteq change'.definitions
           /\ started =>
                /\ change'.trusted /\ change'.generation = change.generation + 1
                /\ RecordedSymbols(c) \subseteq change'.symbols
                /\ cleanup_symbols(f, k) => PriorSymbols(f) \subseteq change'.symbols
                /\ {x \in definition' : x[1] = f} \subseteq change'.definitions
  <1> DEFINE prior == IF cleanup_symbols(f, k) THEN PriorSymbols(f) ELSE {}
             defs == IF cleanup_symbols(f, k) THEN PriorDefinitions(f) ELSE {}
  <1>1. change' = IF started
                  THEN [symbols |-> change.symbols \cup RecordedSymbols(c) \cup prior,
                        definitions |-> change.definitions \cup ({f} \X d.defines) \cup defs,
                        generation |-> change.generation + 1,
                        trusted |-> TRUE]
                  ELSE change
    BY DEF Publish
  <1>2. change \in [symbols : SUBSET Symbols, definitions : SUBSET (Files \X Symbols),
                    generation : Nat, trusted : BOOLEAN]
    BY DEF IInv, Shape
  <1>3. prior \in SUBSET Symbols /\ defs \in SUBSET (Files \X Symbols)
    BY PriorTypes
  <1>4. cleanup_symbols(f, k) => PriorSymbols(f) = prior
    OBVIOUS
  <1> HIDE DEF prior, defs
  <1>5. /\ {f} \X d.defines \in SUBSET (Files \X Symbols)
        /\ RecordedSymbols(c) \in SUBSET Symbols
    BY SaidFields
  <1>6. Shape'
    <2>1. rows' = [t \in Transforms |-> rows'[t]]
      BY PublishDerived
    <2>2. QED
      BY <1>1, <1>2, <1>3, <1>5, <2>1 DEF Shape
  <1>7. change.symbols \subseteq change'.symbols /\ change.definitions \subseteq change'.definitions
    BY <1>1
  <1>8. ASSUME started
        PROVE  /\ change'.trusted /\ change'.generation = change.generation + 1
               /\ RecordedSymbols(c) \subseteq change'.symbols
               /\ cleanup_symbols(f, k) => PriorSymbols(f) \subseteq change'.symbols
               /\ {x \in definition' : x[1] = f} \subseteq change'.definitions
    <2>1. {x \in definition' : x[1] = f} \subseteq {f} \X d.defines
      <3>1. definition' = Kept(f, LostSymbols(f, d, k)) \cup ({f} \X c.defines)
        BY PublishRows
      <3>2. c.defines = d.defines
        BY SaidFields
      <3>3. QED
        BY <3>1, <3>2 DEF Kept
    <2>2. QED
      BY <1>1, <1>4, <1>8, <2>1
  <1>9. QED
    BY <1>6, <1>7, <1>8

\* The edges that stay are between symbols that stay.
LEMMA StayingTypes ==
    ASSUME NEW edges, NEW f, NEW gone, NEW syms, edges \subseteq syms \X syms
    PROVE  Staying(edges, f, gone) \subseteq (syms \ gone) \X (syms \ gone)
  BY DEF Staying, Spared, Touching

\* The published rows refer to rows that exist.
LEMMA PublishTypes ==
    ASSUME IInv, NEW f \in Files, NEW d \in Contents(f), NEW k, Publish(f, d, k)
    PROVE  TypeOK'
  <1> DEFINE c == Said(f, d, k)
             gone == LostSymbols(f, d, k)
             stays == SymbolRows \ gone
  <1>a. /\ SymbolRows' = stays \cup RecordedSymbols(c)
        /\ \A s \in SymbolRows' : home'[s] \in Files \cup {NoFile}
    BY PublishSymbols
  <1>b. /\ c.defines \subseteq RecordedSymbols(c)
        /\ RecordedSymbols(c) \in SUBSET Symbols
        /\ c.calls \subseteq RecordedSymbols(c) \X RecordedSymbols(c)
        /\ c.overrides \subseteq RecordedSymbols(c) \X RecordedSymbols(c)
        /\ \A e \in c.calls : e[1] \in c.defines
        /\ c.defines = d.defines
    BY SaidFields
  <1>c. /\ definition' = Kept(f, gone) \cup ({f} \X c.defines)
        /\ def_edge' = {e \in def_edge : e[1] \in Kept(f, gone) /\ e[2] \notin gone}
                            \cup {<<<<f, e[1]>>, e[2]>> : e \in c.calls}
        /\ calls' = (Staying(calls, f, gone) \ LostCalls(f, d, k)) \cup c.calls
        /\ overrides' = (Staying(overrides, f, gone) \ LostOverrides(f, d, k))
                          \cup c.overrides
    BY PublishRows
  <1>d. /\ DOMAIN rows'["multi_def"] = SymbolRows'
        /\ rows'["possible_call"] \subseteq Kept(f, gone) \X Kept(f, gone)
        /\ rows'["dispatch_calls"] \subseteq SymbolRows' \X SymbolRows'
        /\ rows'["entity_edge"] \subseteq SymbolRows' \X SymbolRows'
    <2>1. DOMAIN rows'["multi_def"] = SymbolRows'
      BY PublishDerived
    <2>2. rows'["possible_call"] \subseteq Kept(f, gone) \X Kept(f, gone)
      <3>1. rows'["possible_call"] =
              rows["possible_call"] \cap (Kept(f, gone) \X Kept(f, gone))
        BY PublishDerived
      <3>2. QED
        BY <3>1, Zenon
    <2>3. /\ rows'["dispatch_calls"] \subseteq SymbolRows' \X SymbolRows'
          /\ rows'["entity_edge"] \subseteq SymbolRows' \X SymbolRows'
      <3>1. /\ rows'["dispatch_calls"] = Staying(rows["dispatch_calls"], f, gone)
                                            \cap (SymbolRows' \X SymbolRows')
            /\ rows'["entity_edge"] = rows["entity_edge"] \cap (SymbolRows' \X SymbolRows')
        BY PublishDerived
      <3>2. QED
        BY <3>1, Zenon
    <2>4. QED
      BY <2>1, <2>2, <2>3
  <1>e. /\ support'.symbols =
             {r \in support.symbols : r[1] \in SymbolRows' /\ ~(r[2] = f /\ r[3] = k)}
               \cup {<<x, f, k>> : x \in d.defines}
        /\ support'.calls =
             {r \in support.calls : r[1] \in Staying(calls, f, gone) /\ ~(r[2] = f /\ r[3] = k)}
               \cup {<<x, f, k>> : x \in c.calls}
        /\ support'.overrides =
             {r \in support.overrides :
                r[1] \in Staying(overrides, f, gone) /\ ~(r[2] = f /\ r[3] = k)}
               \cup {<<x, f, k>> : x \in c.overrides}
    BY DEF Publish, Staying, SymbolRows
  <1>f. /\ \A r \in support.calls : home[r[1][1]] # f /\ r[1] \in LostCalls(f, d, k)
             => r[2] = f /\ r[3] = k
        /\ \A r \in support.overrides : home[r[1][1]] # f /\ r[1] \in LostOverrides(f, d, k)
             => r[2] = f /\ r[3] = k
    BY DEF LostCalls, LostOverrides, Lost, Elsewhere
  <1>g. /\ Staying(calls, f, gone) \subseteq stays \X stays
        /\ Staying(overrides, f, gone) \subseteq stays \X stays
    BY Types, StayingTypes
  <1>h. \A e : /\ e \in Staying(calls, f, gone) => home[e[1]] # f
               /\ e \in Staying(overrides, f, gone) => home[e[1]] # f
    BY DEF Staying
  <1> HIDE DEF c, gone
  <1>1. SymbolRows' \subseteq Symbols /\ stays \subseteq SymbolRows'
    BY <1>a, <1>b, Types
  <1>2. Kept(f, gone) \subseteq definition' /\ definition' \subseteq Files \X SymbolRows'
    <2>1. Kept(f, gone) \subseteq Files \X stays
      BY Types DEF Kept
    <2>2. {f} \X c.defines \subseteq Files \X SymbolRows'
      BY <1>a, <1>b
    <2>3. QED
      BY <1>1, <1>c, <2>1, <2>2
  <1>3. def_edge' \subseteq definition' \X SymbolRows'
    <2>1. {e \in def_edge : e[1] \in Kept(f, gone) /\ e[2] \notin gone}
            \subseteq definition' \X SymbolRows'
      BY <1>1, <1>2, Types
    <2>2. ASSUME NEW e \in c.calls
          PROVE  <<<<f, e[1]>>, e[2]>> \in definition' \X SymbolRows'
      <3>1. e[1] \in c.defines /\ e[2] \in SymbolRows'
        BY <1>a, <1>b, <2>2
      <3>2. <<f, e[1]>> \in definition'
        BY <1>c, <3>1
      <3>3. QED
        BY <3>1, <3>2
    <2>3. QED
      BY <1>c, <2>1, <2>2
  <1>4. /\ calls' \subseteq SymbolRows' \X SymbolRows'
        /\ overrides' \subseteq SymbolRows' \X SymbolRows'
    BY <1>1, <1>a, <1>b, <1>c, <1>g
  <1>5. rows'["possible_call"] \subseteq definition' \X definition'
    <2>1. Kept(f, gone) \X Kept(f, gone) \subseteq definition' \X definition'
      BY <1>2
    <2>2. QED
      BY <1>d, <2>1, Zenon
  <1>6. change'.symbols \subseteq Symbols
    BY PublishNotes DEF Shape
  <1>7. /\ \A r \in support'.symbols : r[1] \in SymbolRows'
        /\ \A r \in support'.calls : r[1] \in calls'
        /\ \A r \in support'.overrides : r[1] \in overrides'
    <2>1. \A r \in support'.symbols : r[1] \in SymbolRows'
      BY <1>a, <1>b, <1>e
    <2>2. ASSUME NEW r \in support'.calls
          PROVE  r[1] \in calls'
      <3>1. CASE \E x \in c.calls : r = <<x, f, k>>
        BY <3>1, <1>c
      <3>2. CASE r \in support.calls /\ r[1] \in Staying(calls, f, gone) /\ ~(r[2] = f /\ r[3] = k)
        BY <3>2, <1>c, <1>f, <1>h
      <3>3. QED
        BY <3>1, <3>2, <1>e
    <2>3. ASSUME NEW r \in support'.overrides
          PROVE  r[1] \in overrides'
      <3>1. CASE \E x \in c.overrides : r = <<x, f, k>>
        BY <3>1, <1>c
      <3>2. CASE /\ r \in support.overrides /\ r[1] \in Staying(overrides, f, gone)
                 /\ ~(r[2] = f /\ r[3] = k)
        BY <3>2, <1>c, <1>f, <1>h
      <3>3. QED
        BY <3>1, <3>2, <1>e
    <2>4. QED
      BY <2>1, <2>2, <2>3
  <1>8. /\ \A t \in Transforms : attempt'[t] \in Published \cup {None, "failed", "stale"}
        /\ state' \in {None, "complete", "failed", "pending"}
    BY DEF Publish, IInv, TypeOK
  <1>9. QED
    BY <1>1, <1>2, <1>3, <1>4, <1>5, <1>6, <1>7, <1>8, <1>a, <1>d DEF TypeOK, SymbolRows

\* An edge row that starts or ends at one of the file's symbols has both its ends
\* among the prior identities.
LEMMA PriorEnds ==
    ASSUME NEW f, NEW e \in Edges, e[1] \in Own(f) \/ e[2] \in Own(f)
    PROVE  e[1] \in PriorSymbols(f) /\ e[2] \in PriorSymbols(f)
  <1>1. e \in Touching(Edges, Own(f))
    BY DEF Touching
  <1>2. e[1] \in Ends(Touching(Edges, Own(f))) /\ e[2] \in Ends(Touching(Edges, Own(f)))
    BY <1>1 DEF Ends
  <1>3. QED
    BY <1>2 DEF PriorSymbols

\* Where nothing goes unnoted, the prior identities are in the change set: a route
\* without a capture had none.
LEMMA PriorNoted ==
    ASSUME IInv, NEW f \in Files, NEW d \in Contents(f), NEW k, Publish(f, d, k), started,
           ~unnoted'
    PROVE  /\ Own(f) \subseteq change'.symbols
           /\ \A e \in Edges : e[1] \in Own(f) \/ e[2] \in Own(f) =>
                e[1] \in change'.symbols /\ e[2] \in change'.symbols
  <1>1. CASE cleanup_symbols(f, k)
    <2>1. PriorSymbols(f) \subseteq change'.symbols
      BY <1>1, PublishNotes
    <2>2. Own(f) \subseteq PriorSymbols(f)
      BY DEF PriorSymbols
    <2>3. QED
      BY <2>1, <2>2, PriorEnds
  <1>2. CASE ~cleanup_symbols(f, k)
    <2>1. Own(f) = {}
      BY <1>2 DEF Publish, LosesUnnoted
    <2>2. QED
      BY <2>1
  <1>3. QED
    BY <1>1, <1>2

\* What a publication does not note, it did not touch: the file neither had nor
\* has the symbol, and an edge that goes or comes has both its ends noted.
LEMMA Untouched ==
    ASSUME IInv, NEW f \in Files, NEW d \in Contents(f), NEW k, Publish(f, d, k), started,
           ~unnoted', NEW c, c = Said(f, d, k), NEW gone, gone = LostSymbols(f, d, k)
    PROVE  /\ \A s \in SymbolRows : home[s] = f => s \in change'.symbols
           /\ \A x \in definition : x[1] = f => x[2] \in change'.symbols
           /\ gone \subseteq change'.symbols
           /\ \A x \in definition' : x[1] = f =>
                x[2] \in change'.symbols /\ x \in change'.definitions
           /\ \A e \in calls : e \in calls' \/
                (e[1] \in change'.symbols /\ e[2] \in change'.symbols)
           /\ \A e \in overrides : e \in overrides' \/
                (e[1] \in change'.symbols /\ e[2] \in change'.symbols)
           /\ \A e \in calls' : e \in calls \/
                (e[1] \in change'.symbols /\ e[2] \in change'.symbols)
           /\ \A e \in overrides' : e \in overrides \/
                (e[1] \in change'.symbols /\ e[2] \in change'.symbols)
           /\ \A s \in SymbolRows' : s \notin change'.symbols => s \in SymbolRows
  <1> DEFINE own == Own(f)
             noted == change'.symbols
  <1>1. /\ own \subseteq noted
        /\ \A e \in Edges : e[1] \in own \/ e[2] \in own => e[1] \in noted /\ e[2] \in noted
    BY PriorNoted
  <1>2. /\ \A s \in SymbolRows : home[s] = f => s \in own
        /\ \A x \in definition : x[1] = f => x[2] \in own
    BY DEF Own, SymbolRows
  <1>3. /\ gone \subseteq own
        /\ \A e \in LostCalls(f, d, k) \cup LostOverrides(f, d, k) : e[1] \in own \/ e[2] \in own
    BY DEF Publish, LosesUnnoted, Touching
  <1>4. /\ RecordedSymbols(c) \subseteq noted
        /\ {x \in definition' : x[1] = f} \subseteq change'.definitions
    BY PublishNotes
  <1>5. /\ c.defines \subseteq RecordedSymbols(c)
        /\ \A e \in c.calls \cup c.overrides :
             e[1] \in RecordedSymbols(c) /\ e[2] \in RecordedSymbols(c)
    <2>1. /\ c.calls \subseteq RecordedSymbols(c) \X RecordedSymbols(c)
          /\ c.overrides \subseteq RecordedSymbols(c) \X RecordedSymbols(c)
          /\ c.defines \subseteq RecordedSymbols(c)
      BY SaidFields
    <2>2. QED
      BY <2>1
  <1> HIDE DEF own, noted
  <1>6. ASSUME NEW e \in calls, e \notin calls'
        PROVE  e[1] \in noted /\ e[2] \in noted
    <2>1. e \notin Staying(calls, f, gone) \/ e \in LostCalls(f, d, k)
      BY <1>6, PublishRows
    <2>2. e[1] \in SymbolRows
      BY Types
    <2>3. e[1] \in own \/ e[2] \in own
      BY <1>2, <1>3, <2>1, <2>2 DEF Staying, Spared, Touching
    <2>4. QED
      BY <1>1, <2>3 DEF Edges
  <1>7. ASSUME NEW e \in overrides, e \notin overrides'
        PROVE  e[1] \in noted /\ e[2] \in noted
    <2>1. e \notin Staying(overrides, f, gone) \/ e \in LostOverrides(f, d, k)
      BY <1>7, PublishRows
    <2>2. e[1] \in SymbolRows
      BY Types
    <2>3. e[1] \in own \/ e[2] \in own
      BY <1>2, <1>3, <2>1, <2>2 DEF Staying, Spared, Touching
    <2>4. QED
      BY <1>1, <2>3 DEF Edges
  <1>8. /\ \A e \in calls' : e \in calls \/ e \in c.calls
        /\ \A e \in overrides' : e \in overrides \/ e \in c.overrides
    BY PublishRows DEF Staying, Spared
  <1>9. \A x \in definition' : x[1] = f => x[2] \in noted /\ x \in change'.definitions
    <2>1. \A x \in definition' : x[1] = f => x[2] \in c.defines
      BY PublishRows DEF Kept
    <2>2. QED
      BY <1>4, <1>5, <2>1
  <1>10. \A s \in SymbolRows' : s \notin noted => s \in SymbolRows
    BY <1>4, PublishSymbols
  <1>11. gone \subseteq noted
    BY <1>1, <1>3
  <1>12. QED
    BY <1>1, <1>2, <1>4, <1>5, <1>6, <1>7, <1>8, <1>9, <1>10, <1>11 DEF noted

\* The count of a symbol that is not noted is what it was.
LEMMA SameCount ==
    ASSUME IInv, NEW f \in Files, NEW d \in Contents(f), NEW k, Publish(f, d, k), started,
           ~unnoted', NEW s \in SymbolRows', s \notin change'.symbols
    PROVE  s \in SymbolRows /\ set_multi_def'[s] = set_multi_def[s]
  <1> DEFINE gone == LostSymbols(f, d, k)
             c == Said(f, d, k)
  <1>1. s \in SymbolRows
    BY Untouched
  <1>2. {x \in definition' : x[2] = s} = {x \in definition : x[2] = s}
    <2>1. definition' = Kept(f, gone) \cup ({f} \X c.defines)
      BY PublishRows
    <2>2. s \notin gone
      BY Untouched
    <2> HIDE DEF gone, c
    <2>3. ASSUME NEW x \in definition', x[2] = s
          PROVE  x \in definition
      <3>1. x[1] # f
        BY <2>3, Untouched
      <3>2. QED
        BY <2>1, <3>1 DEF Kept
    <2>4. ASSUME NEW x \in definition, x[2] = s
          PROVE  x \in definition'
      <3>1. x[1] # f
        BY <2>4, Untouched
      <3>2. x \in Kept(f, gone)
        BY <2>2, <2>4, <3>1 DEF Kept
      <3>3. QED
        BY <2>1, <3>2
    <2>5. QED
      BY <2>3, <2>4
  <1>3. /\ set_multi_def'[s] = Cardinality({x \in definition' : x[2] = s})
        /\ set_multi_def[s] = Cardinality({x \in definition : x[2] = s})
    BY <1>1 DEF set_multi_def, SymbolRows
  <1>4. QED
    BY <1>1, <1>2, <1>3

\* Hence the counts outside the change set stay right,
LEMMA PublishCounts ==
    ASSUME IInv, NEW f \in Files, NEW d \in Contents(f), NEW k, Publish(f, d, k), started,
           ~unnoted', CountsAgree
    PROVE  CountsAgree'
  <1>1. SUFFICES ASSUME NEW s \in SymbolRows', s \notin change'.symbols
                 PROVE  rows'["multi_def"][s] = set_multi_def'[s]
    BY DEF CountsAgree, SymbolRows
  <1>2. s \in SymbolRows /\ set_multi_def'[s] = set_multi_def[s]
    BY <1>1, SameCount
  <1>3. rows'["multi_def"][s] = rows["multi_def"][s]
    BY <1>1, <1>2, PublishDerived
  <1>4. s \notin change.symbols
    BY <1>1, PublishNotes
  <1>5. rows["multi_def"][s] = set_multi_def[s]
    BY <1>2, <1>4 DEF CountsAgree, SymbolRows
  <1>6. QED
    BY <1>2, <1>3, <1>5

\* so do the possible calls,
LEMMA PublishCalls ==
    ASSUME IInv, NEW f \in Files, NEW d \in Contents(f), NEW k, Publish(f, d, k), started,
           ~unnoted', CallsAgree
    PROVE  CallsAgree'
  <1> DEFINE gone == LostSymbols(f, d, k)
             c == Said(f, d, k)
             kept == Kept(f, gone)
  <1>1. SUFFICES ASSUME NEW p \in definition' \X definition', ~Named(p)'
                 PROVE  p \in rows'["possible_call"]
                          <=> p \in materialize_possible_calls(set_multi_def)'
    BY DEF CallsAgree
  <1>2. /\ p[1] \in definition' /\ p[2] \in definition' /\ p = <<p[1], p[2]>>
        /\ p[1] \notin change'.definitions
        /\ p[2][2] \notin change'.symbols
    BY <1>1 DEF Named
  <1>3. /\ definition' = kept \cup ({f} \X c.defines)
        /\ def_edge' = {e \in def_edge : e[1] \in kept /\ e[2] \notin gone}
                            \cup {<<<<f, e[1]>>, e[2]>> : e \in c.calls}
        /\ rows'["possible_call"] = rows["possible_call"] \cap (kept \X kept)
    <2>1. /\ definition' = kept \cup ({f} \X c.defines)
          /\ def_edge' = {e \in def_edge : e[1] \in kept /\ e[2] \notin gone}
                            \cup {<<<<f, e[1]>>, e[2]>> : e \in c.calls}
      BY PublishRows
    <2>2. rows'["possible_call"] = rows["possible_call"] \cap (kept \X kept)
      BY PublishDerived
    <2>3. QED
      BY <2>1, <2>2
  <1>4. p[1][1] # f /\ p[2][1] # f
    BY <1>2, Untouched
  <1>5. p[2][2] \notin gone
    BY <1>2, Untouched
  <1>6. \A x \in kept : x \in definition
    BY DEF Kept
  <1> HIDE DEF gone, c, kept
  <1>7. p[1] \in kept /\ p[2] \in kept
    BY <1>2, <1>3, <1>4
  <1>8. p[1] \in definition /\ p[2] \in definition /\ p \in definition \X definition
    BY <1>2, <1>6, <1>7
  <1>9. <<p[1], p[2][2]>> \in def_edge' <=> <<p[1], p[2][2]>> \in def_edge
    <2>1. ASSUME <<p[1], p[2][2]>> \in def_edge'
          PROVE  <<p[1], p[2][2]>> \in def_edge
      <3>1. \/ <<p[1], p[2][2]>> \in def_edge
            \/ \E e \in c.calls : <<p[1], p[2][2]>> = <<<<f, e[1]>>, e[2]>>
        BY <1>3, <2>1
      <3>2. QED
        BY <1>4, <3>1
    <2>2. ASSUME <<p[1], p[2][2]>> \in def_edge
          PROVE  <<p[1], p[2][2]>> \in def_edge'
      BY <1>3, <1>5, <1>7, <2>2
    <2>3. QED
      BY <2>1, <2>2
  <1>10. ~Named(p)
    <2>1. p[1] \notin change.definitions /\ p[2][2] \notin change.symbols
      BY <1>2, PublishNotes
    <2>2. QED
      BY <2>1 DEF Named
  <1>11. set_multi_def'[p[2][2]] = set_multi_def[p[2][2]]
    <2>1. definition' \subseteq Files \X SymbolRows'
      BY PublishTypes DEF TypeOK
    <2>2. p[2][2] \in SymbolRows'
      BY <1>2, <2>1
    <2>3. QED
      BY <1>2, <2>2, SameCount
  <1>12. p \in materialize_possible_calls(set_multi_def)'
           <=> p \in materialize_possible_calls(set_multi_def)
    BY <1>1, <1>8, <1>9, <1>11 DEF materialize_possible_calls
  <1>13. p \in rows'["possible_call"] <=> p \in rows["possible_call"]
    <2>1. p \in kept \X kept
      BY <1>2, <1>7
    <2>2. QED
      BY <1>3, <2>1
  <1>14. QED
    BY <1>8, <1>10, <1>12, <1>13 DEF CallsAgree

\* The override families of the changed symbols.
Family == Reach(overrides \cup Flip(overrides), change.symbols)

\* Both ends of an override edge are in a family or neither is.
LEMMA FamilyClosed ==
    ASSUME NEW edges \in SUBSET (Symbols \X Symbols), NEW seeds \in SUBSET Symbols
    PROVE  /\ Reach(edges \cup Flip(edges), seeds) \in SUBSET Symbols
           /\ seeds \subseteq Reach(edges \cup Flip(edges), seeds)
           /\ \A e \in edges : e[1] \in Reach(edges \cup Flip(edges), seeds)
                                <=> e[2] \in Reach(edges \cup Flip(edges), seeds)
  <1> DEFINE F == Reach(edges \cup Flip(edges), seeds)
  <1>1. edges \cup Flip(edges) \in SUBSET (Symbols \X Symbols)
    BY DEF Flip
  <1>2. seeds \subseteq F /\ Closed(edges \cup Flip(edges), F) /\ F \in SUBSET Symbols
    BY <1>1, ReachClosed
  <1> HIDE DEF F
  <1>3. ASSUME NEW e \in edges
        PROVE  e[1] \in F <=> e[2] \in F
    <2> DEFINE back == <<e[2], e[1]>>
    <2>1. back \in Flip(edges) /\ back[1] = e[2] /\ back[2] = e[1]
      BY DEF Flip
    <2> HIDE DEF back
    <2>2. QED
      BY <1>2, <2>1 DEF Closed
  <1>4. QED
    BY <1>2, <1>3 DEF F

\* and the dispatch targets: a caller of nothing in a family of what is noted
\* calls what it called, and the overrides of those symbols are what they were.
LEMMA PublishDispatch ==
    ASSUME IInv, NEW f \in Files, NEW d \in Contents(f), NEW k, Publish(f, d, k), started,
           ~unnoted', DispatchAgrees
    PROVE  DispatchAgrees'
  <1>1. SUFFICES ASSUME NEW p \in SymbolRows' \X SymbolRows', p[1] \notin DispatchCallers'
                 PROVE  p \in rows'["dispatch_calls"] <=> p \in materialize_dispatch_calls'
    BY DEF DispatchAgrees
  <1> DEFINE a == p[1]
             F == Family'
             K == Symbols \ F
  <1>2. /\ a \notin change'.symbols
        /\ \A e \in calls' : e[1] = a => e[2] \notin F
    BY <1>1 DEF DispatchCallers, Family
  <1>3. /\ F \in SUBSET Symbols
        /\ change'.symbols \subseteq F
        /\ \A e \in overrides' : e[1] \in F <=> e[2] \in F
    <2>1. F = Reach(overrides' \cup Flip(overrides'), change'.symbols)
      BY DEF Family
    <2>2. overrides' \in SUBSET (Symbols \X Symbols)
      <3>1. overrides' \subseteq SymbolRows' \X SymbolRows' /\ SymbolRows' \subseteq Symbols
        BY PublishTypes DEF TypeOK, SymbolRows
      <3>2. QED
        BY <3>1
    <2>3. change'.symbols \in SUBSET Symbols
      BY PublishNotes DEF Shape
    <2> DEFINE R == Reach(overrides' \cup Flip(overrides'), change'.symbols)
    <2>4. /\ R \in SUBSET Symbols
          /\ change'.symbols \subseteq R
          /\ \A e \in overrides' : e[1] \in R <=> e[2] \in R
      BY <2>2, <2>3, FamilyClosed
    <2> HIDE DEF F, R
    <2>5. F = R
      BY <2>1 DEF R
    <2>6. QED
      BY <2>4, <2>5
  <1>4. \A e \in overrides : e \in overrides' \/ (e[1] \in F /\ e[2] \in F)
    BY <1>3, Untouched
  <1>5. \A e \in overrides' : e \in overrides \/ (e[1] \in F /\ e[2] \in F)
    BY <1>3, Untouched
  <1> HIDE DEF F
  <1>6. \A e \in overrides : e[1] \in F <=> e[2] \in F
    BY <1>3, <1>4
  <1>7. Family \subseteq F
    <2>1. Closed(overrides \cup Flip(overrides), F)
      BY <1>6 DEF Closed, Flip
    <2>2. change.symbols \subseteq F
      BY <1>3, PublishNotes
    <2>3. QED
      BY <1>3, <2>1, <2>2, ReachLeast DEF Family
  <1>8. a \in SymbolRows /\ home[a] # f
    BY <1>1, <1>2, Untouched
  <1>9. \A e : e[1] = a => (e \in calls' <=> e \in calls)
    BY <1>2, Untouched
  <1>10. a \notin DispatchCallers
    <2>1. a \notin change.symbols
      BY <1>2, PublishNotes
    <2>2. \A e \in calls : e[1] = a => e[2] \notin Family
      BY <1>2, <1>7, <1>9
    <2>3. QED
      BY <2>1, <2>2 DEF DispatchCallers, Family
  <1>11. ASSUME NEW m \in K
         PROVE  Overriders(overrides, m) = Overriders(overrides', m)
    <2> DEFINE seeds == {e[1] : e \in {x \in overrides : x[2] = m}}
    <2>1. seeds = {e[1] : e \in {x \in overrides' : x[2] = m}}
      BY <1>4, <1>5, <1>11
    <2>2. seeds \subseteq K
      <3>1. \A e \in overrides : e[1] \in Symbols
        BY Types
      <3>2. QED
        BY <1>6, <1>11, <3>1
    <2>3. Closed(Flip(overrides), K) /\ Closed(Flip(overrides'), K)
      <3>1. \A e \in overrides : e[1] \in Symbols
        BY Types
      <3>2. \A e \in overrides' : e[1] \in Symbols
        <4>1. overrides' \subseteq SymbolRows' \X SymbolRows' /\ SymbolRows' \subseteq Symbols
          BY PublishTypes DEF TypeOK, SymbolRows
        <4>2. QED
          BY <4>1
      <3>3. QED
        BY <1>3, <1>6, <3>1, <3>2 DEF Closed, Flip
    <2>4. /\ \A e \in Flip(overrides) : e[1] \in K => e \in Flip(overrides')
          /\ \A e \in Flip(overrides') : e[1] \in K => e \in Flip(overrides)
      BY <1>4, <1>5 DEF Flip
    <2> HIDE DEF seeds
    <2>5. K \in SUBSET Symbols
      OBVIOUS
    <2>6. Reach(Flip(overrides), seeds) = Reach(Flip(overrides'), seeds)
      <3>1. Reach(Flip(overrides), seeds) \subseteq Reach(Flip(overrides'), seeds)
        BY <2>2, <2>3, <2>4, <2>5, ReachLocal
      <3>2. Reach(Flip(overrides'), seeds) \subseteq Reach(Flip(overrides), seeds)
        BY <2>2, <2>3, <2>4, <2>5, ReachLocal
      <3>3. QED
        BY <3>1, <3>2
    <2>7. QED
      BY <2>1, <2>6 DEF Overriders, seeds
  <1>12. p \in materialize_dispatch_calls' <=> p \in materialize_dispatch_calls
    <2>1. materialize_dispatch_calls' =
            {q \in Symbols \X Symbols :
               /\ q[1] # q[2]
               /\ \E e \in calls' : e[1] = q[1] /\ q[2] \in Overriders(overrides', e[2])}
      BY DEF materialize_dispatch_calls
    <2>2. ASSUME NEW e \in calls', e[1] = a
          PROVE  e \in calls /\ Overriders(overrides', e[2]) = Overriders(overrides, e[2])
      <3>1. e[2] \in Symbols
        <4>1. calls' \subseteq SymbolRows' \X SymbolRows' /\ SymbolRows' \subseteq Symbols
          BY PublishTypes DEF TypeOK, SymbolRows
        <4>2. QED
          BY <4>1
      <3>2. e[2] \in K
        BY <1>2, <2>2, <3>1
      <3>3. QED
        BY <1>9, <1>11, <2>2, <3>2
    <2>3. \A e \in calls : e[1] = a => e \in calls'
      BY <1>9
    <2>4. (\E e \in calls' : e[1] = a /\ p[2] \in Overriders(overrides', e[2]))
            <=> (\E e \in calls : e[1] = a /\ p[2] \in Overriders(overrides, e[2]))
      BY <2>2, <2>3
    <2>5. QED
      BY <2>1, <2>4 DEF materialize_dispatch_calls
  <1>13. p \in rows'["dispatch_calls"] <=> p \in rows["dispatch_calls"]
    <2> DEFINE gone == LostSymbols(f, d, k)
    <2>1. rows'["dispatch_calls"] = Staying(rows["dispatch_calls"], f, gone)
                                      \cap (SymbolRows' \X SymbolRows')
      BY PublishDerived
    <2>2. gone \cap SymbolRows' = {}
      BY PublishSymbols
    <2> HIDE DEF gone
    <2>3. QED
      BY <1>1, <1>8, <2>1, <2>2 DEF Staying, Spared, Touching
  <1>14. p \in rows["dispatch_calls"] <=> p \in materialize_dispatch_calls
    <2>1. CASE p \in SymbolRows \X SymbolRows
      BY <1>10, <2>1 DEF DispatchAgrees
    <2>2. CASE p \notin SymbolRows \X SymbolRows
      <3>1. rows["dispatch_calls"] \subseteq SymbolRows \X SymbolRows
        BY Types
      <3>2. materialize_dispatch_calls \subseteq SymbolRows \X SymbolRows
        BY DerivedTypes DEF IInv
      <3>3. QED
        BY <2>2, <3>1, <3>2
    <2>3. QED
      BY <2>1, <2>2
  <1>15. QED
    BY <1>12, <1>13, <1>14

\* So a publication keeps the invariant.
LEMMA PublishKeeps ==
    ASSUME IInv, NEW f \in Files, NEW d \in Contents(f), NEW k, Publish(f, d, k)
    PROVE  IInv'
  <1>1. dirty' = TRUE /\ UNCHANGED <<published, started>> /\ (unnoted => unnoted')
    BY DEF Publish
  <1>2. Recorded'
    <2>1. SUFFICES ASSUME NEW t \in Transforms, has_published_baseline(t)
                   PROVE  Identified(t)' /\ started'
      BY <1>1 DEF Recorded, has_published_baseline
    <2>2. Identified(t) /\ started
      BY <2>1 DEF IInv, Recorded
    <2>3. change'.generation = change.generation + 1 /\ change.generation \in Nat
      BY <2>2, PublishNotes DEF IInv, Shape
    <2>4. CASE "generation" \in DOMAIN published[t].input[1]
      <3>1. published[t].input[1].generation \in 0..change.generation
        BY <2>2, <2>4 DEF Identified
      <3>2. /\ published[t].input[1].generation \in 0..change'.generation
            /\ published[t].input[1].generation < change'.generation
        BY <2>3, <3>1
      <3>3. QED
        BY <1>1, <2>2, <2>4, <3>2 DEF Identified
    <2>5. CASE "generation" \notin DOMAIN published[t].input[1]
      BY <1>1, <2>2, <2>5 DEF Identified, Computed
    <2>6. QED
      BY <2>4, <2>5
  <1>3. Agreement'
    <2>1. SUFFICES ASSUME ~unnoted', NEW t \in Transforms, has_published_baseline(t)
                   PROVE  CountsAgree' /\ CallsAgree' /\ DispatchAgrees'
      BY <1>1 DEF Agreement, has_published_baseline
    <2>2. CountsAgree /\ CallsAgree /\ DispatchAgrees /\ started
      BY <1>1, <2>1 DEF IInv, Agreement, Recorded
    <2>3. QED
      BY <2>1, <2>2, PublishCounts, PublishCalls, PublishDispatch
  <1>4. DerivedCurrent' /\ FailedNotReady'
    BY <1>1 DEF DerivedCurrent, FailedNotReady
  <1>5. QED
    BY <1>2, <1>3, <1>4, PublishTypes, PublishNotes DEF IInv

-----------------------------------------------------------------------------
(***************************************************************************)
(* The theorems.                                                           *)
(***************************************************************************)

\* Every step keeps the invariant.
LEMMA NextKeeps ==
    ASSUME IInv, [Next]_vars
    PROVE  IInv'
  <1>1. CASE \E f \in Files : \E c \in Contents(f), k \in Configs(f) : Publish(f, c, k)
    BY <1>1, PublishKeeps
  <1>2. CASE \E fs \in Selections : delete_files(fs)
    BY <1>2, RemoveKeeps DEF delete_files
  <1>3. CASE \E s \in Deletable : delete_symbol(s)
    BY <1>3, RemoveKeeps DEF delete_symbol
  <1>4. CASE run_transform_pipeline
    BY <1>4, SucceedKeeps, FailKeeps DEF run_transform_pipeline
  <1>5. CASE mark_transform_pipeline_pending
    BY <1>5, PendingKeeps
  <1>6. CASE UNCHANGED vars
    <2>1. UNCHANGED <<facts, support, rows, published, attempt, change, started, state,
                      dirty, failed, unnoted>>
      BY <1>6 DEF vars
    <2>2. Shape' /\ Recorded' /\ Agreement'
      BY <2>1, RecordsKept
    <2>3. TypeOK'
      BY <2>1 DEF IInv, TypeOK, facts, SymbolRows
    <2>4. DerivedCurrent'
      BY <2>1, SameFacts DEF IInv, DerivedCurrent
    <2>5. FailedNotReady'
      <3>1. \A n \in 1..Len(Order) : Order[n] \in Transforms
        BY DEF Order, Transforms
      <3>2. QED
        BY <2>1, <3>1, SameFacts DEF IInv, FailedNotReady, Ready, has_published_baseline
    <2>6. QED
      BY <2>2, <2>3, <2>4, <2>5 DEF IInv
  <1>7. QED
    BY <1>1, <1>2, <1>3, <1>4, <1>5, <1>6 DEF Next

\* Hence the invariant always holds.
LEMMA Invariance == Spec => []IInv
  BY InitInv, NextKeeps, PTL DEF Spec

\* The tables are well typed: no fact and no derived row ever refers to a
\* symbol or a definition that was deleted or replaced.
THEOREM TypeCorrect == Spec => []TypeOK
  BY Invariance, PTL DEF IInv

\* A completed run leaves the derived rows of a rebuild, whether its transforms
\* were derived in full, derived for the change set or kept, and whatever was
\* published, put off and failed before it, as long as every deletion since the
\* last full run was noted.
THEOREM IncrementalEqualsFull == Spec => []DerivedCurrent
  BY Invariance, PTL DEF IInv

\* After a failed run a transform that it reached, or that depends on the one
\* that failed, is reported ready only with the rows of the current facts.
THEOREM FailureReported == Spec => []FailedNotReady
  BY Invariance, PTL DEF IInv
=============================================================================
