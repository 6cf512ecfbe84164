--------------------------- MODULE ParallelIndex ---------------------------
(***************************************************************************)
(* Bounded parallel indexing: the windowed runner                          *)
(* (src/src/index/parallel_runner_impl.hpp), the extract and publish       *)
(* callbacks production gives it (src/src/index/parallel_index.cpp), what   *)
(* run_index_one does at the ordered gate (src/src/ast/index_engine.cpp),  *)
(* and the writer's publication window (src/src/storage/                   *)
(* fact_batch_writer.cpp), composed with the claim oracle of HeaderClaims. *)
(*                                                                         *)
(* Processes: the workers, and the calling thread, which is the publisher. *)
(* One action is one critical section or one call made outside the locks.  *)
(* A condition variable is modelled by its sleepers: a thread whose wait   *)
(* predicate is false goes to a *_wait state that only a notify leaves.    *)
(* Each notify_all follows its critical section with nothing in between    *)
(* that can block, so it is part of the same step.                         *)
(*                                                                         *)
(* Faults names the failures the environment may inject.                   *)
(***************************************************************************)
EXTENDS HeaderClaims, Integers, FiniteSets

CONSTANTS
    Workers,         \* worker threads, plan.workers
    Includes,        \* rank -> claim keys of the owned headers it includes
    Current,         \* keys the database holds current before the run
    Bytes,           \* rank -> artifact size of its batch
    MaxQueueItems,   \* plan.max_queue_items, also the window bound
    MaxQueueBytes,   \* plan.max_queue_bytes
    MaxRetries,      \* kDefaultSourceChangeRetries
    MaxEdits,        \* bound: edits of one header during the run
    NoRow,           \* absence of a current file_config row
    Faults

\* throw          extraction throws before it claims (the worker's database
\*                handle or its descriptor cannot be built)
\* pch            the declared PCH fails its preflight
\* parse          the front end fails before owned-header discovery
\* parse_changed  ... on a source that also changed under the parse
\* extract        extraction fails or throws after the claim
\* changed        the unit's own source changed under the parse
\* window         the speculative window transaction fails
\* rollback       ... and its ROLLBACK fails too
\* writer         one unit's own transaction fails
\* begin          ... or cannot be begun
\* observer       the caller's observer throws
\* spawn          a worker thread cannot be created
\* cancel         the user cancels the run
FaultKinds ==
    {"throw", "pch", "parse", "parse_changed", "extract", "changed", "window",
     "rollback", "writer", "begin", "observer", "spawn", "cancel"}

ASSUME PlanAssumption ==
    /\ IsFiniteSet(Workers) /\ Workers # {} /\ Cardinality(Workers) <= Count
    /\ Includes \in [Ranks -> SUBSET Keys]
    /\ Current \subseteq Keys
    /\ Bytes \in [Ranks -> Nat]
    /\ MaxQueueItems \in Nat \ {0}
    /\ MaxQueueBytes \in Nat \ {0}
    /\ MaxRetries \in Nat
    /\ MaxEdits \in Nat
    /\ Digests = 0 .. MaxEdits
    /\ NoRow \notin Digests
    /\ Faults \subseteq FaultKinds

VARIABLES
    \* the runner's shared state, under its mutex
    nextDispatch,    \* next_dispatch
    nextPublish,     \* next_publish
    ready,           \* ready: the reorder buffer, as the set of its ranks
    bufferedBytes,   \* buffered_bytes
    stopping,        \* stopping
    status,          \* status
    \* the workers
    pc,              \* control state of each worker thread
    job,             \* rank a worker extracts
    attempt,         \* retries that worker has used for it
    \* what extraction produced, by rank
    outcome,         \* none | ok | failed | changed
    parsed,          \* digests the last parse of the rank saw
    owned,           \* keys the oracle granted to it
    \* the publisher
    ppc,             \* control state of the calling thread
    windowStart,     \* first rank of the window in hand
    windowBytes,     \* window_bytes
    pos,             \* rank the replay or the report has reached
    applied,         \* ranks of the window whose writer result is ok
    keepGoing,       \* keep_going
    reported,        \* rank -> what the observer was told
    abandoned,       \* ranks on_abandon was called for
    \* the database and the outside world
    committed,       \* ranks whose publication the database holds
    row,             \* key -> digest of its committed header row
    content,         \* key -> digest of the header on disk
    cancelRequested  \* cancelled()

runnerVars == <<nextDispatch, nextPublish, ready, bufferedBytes, stopping, status>>
workerVars == <<pc, job, attempt>>
resultVars == <<outcome, parsed, owned>>
windowVars == <<ppc, windowStart, windowBytes, pos, applied, keepGoing, reported, abandoned>>
dbVars == <<committed, row>>
envVars == <<content, cancelRequested>>

vars == <<claimVars, runnerVars, workerVars, resultVars, windowVars, dbVars, envVars>>

WorkerStates ==
    {"unborn", "dispatch", "parse", "gate", "gate_wait", "extract",
     "admit", "admit_wait", "abandon", "done"}

PublisherStates ==
    {"spawn", "top", "collect", "arrive_wait", "apply", "replay", "settle",
     "guard", "join", "drain", "cancel_oracle", "done"}

RunnerTypeOK ==
    /\ nextDispatch \in 0 .. Count
    /\ nextPublish \in 0 .. Count
    /\ ready \in SUBSET Ranks
    /\ bufferedBytes \in Int
    /\ stopping \in BOOLEAN
    /\ status \in {"none", "cancelled", "exception"}

WorkersTypeOK ==
    /\ pc \in [Workers -> WorkerStates]
    /\ job \in [Workers -> Ranks]
    /\ attempt \in [Workers -> 0 .. MaxRetries]

ResultsTypeOK ==
    /\ outcome \in [Ranks -> {"none", "ok", "failed", "changed"}]
    /\ parsed \in [Ranks -> [Keys -> Digests]]
    /\ owned \in [Ranks -> SUBSET Keys]

WindowTypeOK ==
    /\ ppc \in PublisherStates
    /\ windowStart \in 0 .. Count
    /\ windowBytes \in Int
    /\ pos \in 0 .. Count
    /\ applied \in SUBSET Ranks
    /\ keepGoing \in BOOLEAN
    /\ reported \in [Ranks -> {"none", "published", "failed"}]
    /\ abandoned \in SUBSET Ranks

DbTypeOK ==
    /\ committed \in SUBSET Ranks
    /\ row \in [Keys -> Digests \cup {NoRow}]

EnvTypeOK ==
    /\ content \in [Keys -> Digests]
    /\ cancelRequested \in BOOLEAN

\* Every variable stays in the set its C++ counterpart ranges over: ranks
\* below the number of targets, thread states, publisher states.
TypeOK ==
    /\ ClaimsTypeOK
    /\ RunnerTypeOK
    /\ WorkersTypeOK
    /\ ResultsTypeOK
    /\ WindowTypeOK
    /\ DbTypeOK
    /\ EnvTypeOK

Init ==
    /\ ClaimsInit
    /\ nextDispatch = 0
    /\ nextPublish = 0
    /\ ready = {}
    /\ bufferedBytes = 0
    /\ stopping = FALSE
    /\ status = "none"
    /\ pc = [w \in Workers |-> "unborn"]
    /\ job = [w \in Workers |-> 0]
    /\ attempt = [w \in Workers |-> 0]
    /\ outcome = [r \in Ranks |-> "none"]
    /\ parsed = [r \in Ranks |-> [k \in Keys |-> 0]]
    /\ owned = [r \in Ranks |-> {}]
    /\ ppc = "spawn"
    /\ windowStart = 0
    /\ windowBytes = 0
    /\ pos = 0
    /\ applied = {}
    /\ keepGoing = TRUE
    /\ reported = [r \in Ranks |-> "none"]
    /\ abandoned = {}
    /\ committed = {}
    /\ row = [k \in Keys |-> IF k \in Current THEN 0 ELSE NoRow]
    /\ content = [k \in Keys |-> 0]
    /\ cancelRequested = FALSE

-----------------------------------------------------------------------------
(***************************************************************************)
(* notify_all of the three condition variables.                            *)
(***************************************************************************)
WakeGate(p) == [w \in Workers |-> IF p[w] = "gate_wait" THEN "gate" ELSE p[w]]

\* Mutant of WakeAdmit: the publisher frees space without notify_all.
WakeNobody(p) == p

WakeAdmit(p) == [w \in Workers |-> IF p[w] = "admit_wait" THEN "admit" ELSE p[w]]

WakePublisher == ppc' = IF ppc = "arrive_wait" THEN "collect" ELSE ppc

-----------------------------------------------------------------------------
(***************************************************************************)
(* Workers: worker_body, and the extract callback it calls.                *)
(***************************************************************************)

\* Mutant of Dispatch: `>` for `>=` in the exhaustion test.
DispatchPastEnd(w) ==
    /\ pc[w] = "dispatch"
    /\ IF stopping \/ nextDispatch > Count
       THEN /\ pc' = [pc EXCEPT ![w] = "done"]
            /\ UNCHANGED <<nextDispatch, job, attempt>>
       ELSE /\ job' = [job EXCEPT ![w] = nextDispatch]
            /\ nextDispatch' = nextDispatch + 1
            /\ attempt' = [attempt EXCEPT ![w] = 0]
            /\ pc' = [pc EXCEPT ![w] = "parse"]
    /\ UNCHANGED <<claimVars, nextPublish, ready, bufferedBytes, stopping, status,
                   resultVars, windowVars, dbVars, envVars>>

\* The critical section at the top of worker_body's loop.
Dispatch(w) ==
    /\ pc[w] = "dispatch"
    /\ IF stopping \/ nextDispatch >= Count
       THEN /\ pc' = [pc EXCEPT ![w] = "done"]
            /\ UNCHANGED <<nextDispatch, job, attempt>>
       ELSE /\ job' = [job EXCEPT ![w] = nextDispatch]
            /\ nextDispatch' = nextDispatch + 1
            /\ attempt' = [attempt EXCEPT ![w] = 0]
            /\ pc' = [pc EXCEPT ![w] = "parse"]
    /\ UNCHANGED <<claimVars, nextPublish, ready, bufferedBytes, stopping, status,
                   resultVars, windowVars, dbVars, envVars>>

\* A result that carries no publication batch.
Drop(w, oc) ==
    /\ outcome' = [outcome EXCEPT ![job[w]] = oc]
    /\ owned' = [owned EXCEPT ![job[w]] = {}]
    /\ UNCHANGED parsed

\* extract() throws before the unit claims: worker_body's catch turns it into
\* an error result.  Nothing releases the rank at the ordered gate.
ThrowBeforeClaim(w) ==
    /\ "throw" \in Faults
    /\ pc[w] = "parse"
    /\ Drop(w, "failed")
    /\ pc' = [pc EXCEPT ![w] = "admit"]
    /\ UNCHANGED <<claimVars, runnerVars, job, attempt, windowVars, dbVars, envVars>>

\* run_index_one returns from the failed PCH preflight, ahead of its
\* release_unclaimed.
PchPreflightFails(w) ==
    /\ "pch" \in Faults
    /\ pc[w] = "parse"
    /\ Drop(w, "failed")
    /\ pc' = [pc EXCEPT ![w] = "admit"]
    /\ UNCHANGED <<claimVars, runnerVars, job, attempt, windowVars, dbVars, envVars>>

\* The retry loop of extract: only a changed source is retried.
RetryAllowed(w, oc) ==
    /\ oc = "changed"
    /\ attempt[w] < MaxRetries
    /\ ~cancelRequested

\* Where the worker goes when run_index_one returned oc without a batch.
AttemptWithoutBatch(w, oc, p) ==
    /\ IF RetryAllowed(w, oc)
       THEN /\ attempt' = [attempt EXCEPT ![w] = @ + 1]
            /\ pc' = [p EXCEPT ![w] = "parse"]
       ELSE /\ attempt' = attempt
            /\ pc' = [p EXCEPT ![w] = "admit"]
    /\ Drop(w, oc)

\* The front end never reached owned-header discovery: run_index_one releases
\* the rank at the gate on its way out.  When the source changed as well, the
\* unit is retried, and the retry may still claim.
FrontEndFails(w) ==
    /\ "parse" \in Faults
    /\ pc[w] = "parse"
    /\ \E oc \in {"failed", "changed"} :
          /\ oc = "changed" => "parse_changed" \in Faults
          /\ ReleaseUnclaimed(job[w])
          /\ AttemptWithoutBatch(w, oc, WakeGate(pc))
    /\ UNCHANGED <<runnerVars, job, windowVars, dbVars, envVars>>

\* The parse succeeds; it saw the headers as they are on disk now.
Parse(w) ==
    /\ pc[w] = "parse"
    /\ parsed' = [parsed EXCEPT ![job[w]] =
          [k \in Keys |-> IF k \in Includes[job[w]] THEN content[k] ELSE 0]]
    /\ pc' = [pc EXCEPT ![w] = "gate"]
    /\ UNCHANGED <<claimVars, runnerVars, job, attempt, outcome, owned,
                   windowVars, dbVars, envVars>>

\* Mutant of AlreadyIndexed: the currency check is dropped.
AssumeIndexed(r) == Includes[r]

\* classify_included_header: current in the database the workers read (the
\* snapshot taken before the run) and unchanged since it was parsed.
AlreadyIndexed(r) ==
    {k \in Includes[r] \cap Current : parsed[r][k] = content[k] /\ content[k] = 0}

\* discover_owned_headers asks the oracle, and blocks at the gate.
ClaimHeaders(w) ==
    LET r == job[w] IN
    /\ pc[w] = "gate"
    /\ IF GateOpen(r)
       THEN /\ Claim(r, Includes[r], parsed[r], AlreadyIndexed(r))
            /\ owned' = [owned EXCEPT ![r] =
                  OwnedKeys(r, Includes[r], parsed[r], AlreadyIndexed(r))]
            /\ pc' = WakeGate([pc EXCEPT ![w] = "extract"])
       ELSE /\ pc' = [pc EXCEPT ![w] = "gate_wait"]
            /\ UNCHANGED <<claimVars, owned>>
    /\ UNCHANGED <<runnerVars, job, attempt, outcome, parsed, windowVars, dbVars, envVars>>

\* Mutant of SourcesCurrent: the sources are not checked again.
SourcesUnchecked(r) == TRUE

\* The bytes of every owned header are still the ones that were parsed.
SourcesCurrent(r) == \A k \in owned[r] : parsed[r][k] = content[k]

\* The passes and finalize_index_one, with a batch to publish.
ExtractOk(w) ==
    /\ pc[w] = "extract"
    /\ SourcesCurrent(job[w])
    /\ outcome' = [outcome EXCEPT ![job[w]] = "ok"]
    /\ pc' = [pc EXCEPT ![w] = "admit"]
    /\ UNCHANGED <<claimVars, runnerVars, job, attempt, parsed, owned,
                   windowVars, dbVars, envVars>>

\* The passes or finalize_index_one fail, or find a source that changed.  The
\* grants of the rank stay in the oracle.
ExtractFails(w) ==
    /\ pc[w] = "extract"
    /\ \E oc \in {"failed", "changed"} :
          /\ oc = "failed" => "extract" \in Faults
          /\ oc = "changed" => "changed" \in Faults \/ ~SourcesCurrent(job[w])
          /\ AttemptWithoutBatch(w, oc, pc)
    /\ UNCHANGED <<claimVars, runnerVars, job, windowVars, dbVars, envVars>>

\* Only a batch has bytes (batch_bytes).
ResultBytes(r) == IF outcome[r] = "ok" THEN Bytes[r] ELSE 0

\* Mutant of MayAdmit: the bytes of the incoming result are not counted.
MayAdmitUncounted(r) ==
    \/ stopping
    \/ r = nextPublish
    \/ /\ Cardinality(ready) < MaxQueueItems
       /\ bufferedBytes <= MaxQueueBytes

\* The backpressure predicate: the rank the publisher waits for always enters.
MayAdmit(r) ==
    \/ stopping
    \/ r = nextPublish
    \/ /\ Cardinality(ready) < MaxQueueItems
       /\ bufferedBytes + ResultBytes(r) <= MaxQueueBytes

\* The second critical section of worker_body.
Admit(w) ==
    LET r == job[w] IN
    /\ pc[w] = "admit"
    /\ IF ~MayAdmit(r)
       THEN /\ pc' = [pc EXCEPT ![w] = "admit_wait"]
            /\ UNCHANGED <<ready, bufferedBytes, ppc>>
       ELSE IF stopping
       THEN /\ pc' = [pc EXCEPT ![w] = "abandon"]
            /\ UNCHANGED <<ready, bufferedBytes, ppc>>
       ELSE /\ ready' = ready \cup {r}
            /\ bufferedBytes' = bufferedBytes + ResultBytes(r)
            /\ pc' = [pc EXCEPT ![w] = "dispatch"]
            /\ WakePublisher
    /\ UNCHANGED <<claimVars, nextDispatch, nextPublish, stopping, status, job, attempt,
                   resultVars, windowStart, windowBytes, pos, applied, keepGoing, reported,
                   abandoned, dbVars, envVars>>

\* The run is unwinding: on_abandon, outside the runner's mutex.
Abandon(w) ==
    /\ pc[w] = "abandon"
    /\ ReleaseUnclaimed(job[w])
    /\ abandoned' = abandoned \cup {job[w]}
    /\ pc' = WakeGate([pc EXCEPT ![w] = "done"])
    /\ UNCHANGED <<runnerVars, job, attempt, resultVars, ppc, windowStart, windowBytes,
                   pos, applied, keepGoing, reported, dbVars, envVars>>

WorkerStep(w) ==
    \/ Dispatch(w)
    \/ ThrowBeforeClaim(w)
    \/ PchPreflightFails(w)
    \/ FrontEndFails(w)
    \/ Parse(w)
    \/ ClaimHeaders(w)
    \/ ExtractOk(w)
    \/ ExtractFails(w)
    \/ Admit(w)
    \/ Abandon(w)

-----------------------------------------------------------------------------
(***************************************************************************)
(* The publisher: the calling thread of run_parallel_extraction_windowed.  *)
(***************************************************************************)

\* One turn of the worker creation loop.
Spawn ==
    /\ ppc = "spawn"
    /\ \E w \in Workers :
          /\ pc[w] = "unborn"
          /\ pc' = [pc EXCEPT ![w] = "dispatch"]
          /\ ppc' = IF \A v \in Workers \ {w} : pc[v] # "unborn" THEN "top" ELSE "spawn"
    /\ UNCHANGED <<claimVars, runnerVars, job, attempt, resultVars, windowStart,
                   windowBytes, pos, applied, keepGoing, reported, abandoned, dbVars, envVars>>

\* Thread creation throws: the exception unwinds through the PoolGuard.
SpawnFails ==
    /\ "spawn" \in Faults
    /\ ppc = "spawn"
    /\ ppc' = "guard"
    /\ status' = "exception"
    /\ UNCHANGED <<claimVars, nextDispatch, nextPublish, ready, bufferedBytes, stopping,
                   workerVars, resultVars, windowStart, windowBytes, pos, applied, keepGoing,
                   reported, abandoned, dbVars, envVars>>

\* Top of the publication loop: poll cancelled(), else open an empty window.
PollCancelled ==
    /\ ppc = "top"
    /\ IF cancelRequested
       THEN /\ stopping' = TRUE
            /\ status' = "cancelled"
            /\ ppc' = "guard"
            /\ UNCHANGED windowBytes
       ELSE /\ ppc' = "collect"
            /\ windowBytes' = 0
            /\ UNCHANGED <<stopping, status>>
    /\ UNCHANGED <<claimVars, nextDispatch, nextPublish, ready, bufferedBytes, workerVars,
                   resultVars, windowStart, pos, applied, keepGoing, reported, abandoned, dbVars,
                   envVars>>

WindowEmpty == windowStart = nextPublish

\* The collection loop ends here: the window is full, no rank is left, the
\* next rank is not ready, or it would exceed the byte bound.
WindowEnds ==
    \/ nextPublish - windowStart >= MaxQueueItems
    \/ nextPublish >= Count
    \/ ~WindowEmpty /\ nextPublish \notin ready
    \/ /\ ~WindowEmpty
       /\ nextPublish \in ready
       /\ windowBytes + ResultBytes(nextPublish) > MaxQueueBytes

\* One turn of the collection loop under the mutex: sleep for the first rank,
\* or move the next rank from the buffer to the window and wake the admitters.
Collect ==
    /\ ppc = "collect"
    /\ ~WindowEnds
    /\ IF nextPublish \in ready
       THEN /\ ready' = ready \ {nextPublish}
            /\ bufferedBytes' = bufferedBytes - ResultBytes(nextPublish)
            /\ windowBytes' = windowBytes + ResultBytes(nextPublish)
            /\ nextPublish' = nextPublish + 1
            /\ pc' = WakeAdmit(pc)
            /\ UNCHANGED ppc
       ELSE /\ ppc' = "arrive_wait"
            /\ UNCHANGED <<ready, bufferedBytes, windowBytes, nextPublish, pc>>
    /\ UNCHANGED <<claimVars, nextDispatch, stopping, status, job, attempt, resultVars,
                   windowStart, pos, applied, keepGoing, reported, abandoned, dbVars, envVars>>

\* The window is closed: publish it, or leave the loop when it is empty.
CloseWindow ==
    /\ ppc = "collect"
    /\ WindowEnds
    /\ ppc' = IF WindowEmpty THEN "guard" ELSE "apply"
    /\ applied' = {}
    /\ keepGoing' = TRUE
    /\ pos' = windowStart
    /\ UNCHANGED <<claimVars, runnerVars, workerVars, resultVars, windowStart, windowBytes,
                   reported, abandoned, dbVars, envVars>>

Window == windowStart .. (nextPublish - 1)

\* What publish() hands to the writer.
WriterItems == {r \in Window : outcome[r] = "ok"}

\* Header rows once the batches of ranks rs are in: mark_file_indexed records
\* the snapshot the unit parsed, and the last unit that carries a header wins.
RowsWith(rs) ==
    [k \in Keys |->
       LET owners == {r \in rs : k \in owned[r]} IN
       IF owners = {}
       THEN row[k]
       ELSE parsed[CHOOSE r \in owners : \A s \in owners : s <= r][k]]

\* apply_window, speculative: every item in one transaction.
ApplyWindow ==
    /\ ppc = "apply"
    /\ WriterItems = Window
    /\ \A r \in Window : SourcesCurrent(r)
    /\ ~cancelRequested
    /\ committed' = committed \cup Window
    /\ row' = RowsWith(Window)
    /\ applied' = Window
    /\ ppc' = "settle"
    /\ UNCHANGED <<claimVars, runnerVars, workerVars, resultVars, windowStart, windowBytes,
                   pos, keepGoing, reported, abandoned, envVars>>

\* Mutant of ReplayWindow: the failed window keeps its first item.
ReplayAfterPartialCommit ==
    /\ ppc = "apply"
    /\ \/ WriterItems # Window
       \/ "window" \in Faults
       \/ cancelRequested
       \/ \E r \in Window : ~SourcesCurrent(r)
    /\ ppc' = IF WriterItems = {} THEN "settle" ELSE "replay"
    /\ committed' = committed \cup {windowStart}
    /\ UNCHANGED <<claimVars, runnerVars, workerVars, resultVars, windowStart, windowBytes,
                   pos, applied, keepGoing, reported, abandoned, row, envVars>>

\* The window transaction is rolled back (an item or the COMMIT failed, a
\* source changed, the run was cancelled), or was never tried because an item
\* of the window had already failed (replay_only).
ReplayWindow ==
    /\ ppc = "apply"
    /\ \/ WriterItems # Window
       \/ "window" \in Faults
       \/ cancelRequested
       \/ \E r \in Window : ~SourcesCurrent(r)
    /\ ppc' = IF WriterItems = {} THEN "settle" ELSE "replay"
    /\ UNCHANGED <<claimVars, runnerVars, workerVars, resultVars, windowStart, windowBytes,
                   pos, applied, keepGoing, reported, abandoned, dbVars, envVars>>

\* ROLLBACK of the window fails: the transaction is still open, the replay is
\* refused as nested, apply_window throws, and publish() fails every item.
RollbackFails ==
    /\ "rollback" \in Faults
    /\ ppc = "apply"
    /\ WriterItems = Window
    /\ ppc' = "settle"
    /\ UNCHANGED <<claimVars, runnerVars, workerVars, resultVars, windowStart, windowBytes,
                   pos, applied, keepGoing, reported, abandoned, dbVars, envVars>>

Unreplayed == {r \in WriterItems : r >= pos}

\* Mutant of ReplayItem: the items are replayed in any order.
ReplayUnordered ==
    /\ ppc = "replay"
    /\ \E r \in WriterItems \ applied :
          /\ SourcesCurrent(r)
          /\ committed' = committed \cup {r}
          /\ row' = RowsWith({r})
          /\ applied' = applied \cup {r}
          /\ pos' = IF applied' = WriterItems THEN nextPublish ELSE pos
    /\ UNCHANGED <<claimVars, runnerVars, workerVars, resultVars, ppc, windowStart,
                   windowBytes, keepGoing, reported, abandoned, envVars>>

\* replay_items: the next item in a transaction of its own, committed or
\* rolled back.  A replay is not interrupted by cancellation.
ReplayItem ==
    /\ ppc = "replay"
    /\ \E r \in Unreplayed :
          /\ \A s \in Unreplayed : r <= s
          /\ pos' = r + 1
          /\ \/ /\ SourcesCurrent(r)
                /\ committed' = committed \cup {r}
                /\ row' = RowsWith({r})
                /\ applied' = applied \cup {r}
             \/ /\ "writer" \in Faults \/ ~SourcesCurrent(r)
                /\ UNCHANGED <<committed, row, applied>>
    /\ UNCHANGED <<claimVars, runnerVars, workerVars, resultVars, ppc, windowStart,
                   windowBytes, keepGoing, reported, abandoned, envVars>>

\* BEGIN itself fails, outside the try block of apply: the exception leaves
\* apply_window, and publish() fails every item of the window, the ones that
\* were already committed included.
ReplayAborts ==
    /\ "begin" \in Faults
    /\ ppc = "replay"
    /\ Unreplayed # {}
    /\ applied' = {}
    /\ pos' = windowStart
    /\ ppc' = "settle"
    /\ UNCHANGED <<claimVars, runnerVars, workerVars, resultVars, windowStart, windowBytes,
                   keepGoing, reported, abandoned, dbVars, envVars>>

ReplayDone ==
    /\ ppc = "replay"
    /\ Unreplayed = {}
    /\ ppc' = "settle"
    /\ pos' = windowStart
    /\ UNCHANGED <<claimVars, runnerVars, workerVars, resultVars, windowStart, windowBytes,
                   applied, keepGoing, reported, abandoned, dbVars, envVars>>

\* publish()'s reporting loop, up to the call of the observer: the grants of
\* an item the writer refused are revoked first.
TellObserver ==
    /\ ppc = "settle"
    /\ pos < nextPublish
    /\ IF pos \in WriterItems \ applied
       THEN RevokeGrants(pos)
       ELSE UNCHANGED claimVars
    /\ reported' = [reported EXCEPT ![pos] =
                       IF pos \in applied THEN "published" ELSE "failed"]

\* One turn of the reporting loop.
Settle ==
    /\ TellObserver
    /\ keepGoing' = (keepGoing /\ ~cancelRequested)
    /\ pos' = pos + 1
    /\ UNCHANGED <<runnerVars, workerVars, resultVars, ppc, windowStart, windowBytes,
                   applied, abandoned, dbVars, envVars>>

\* The observer is told, and its own database write fails: the exception
\* leaves publish() and unwinds through the PoolGuard.
ObserverThrows ==
    /\ "observer" \in Faults
    /\ TellObserver
    /\ ppc' = "guard"
    /\ status' = "exception"
    /\ windowStart' = nextPublish
    /\ UNCHANGED <<nextDispatch, nextPublish, ready, bufferedBytes, stopping, workerVars,
                   resultVars, windowBytes, pos, applied, keepGoing, abandoned, dbVars, envVars>>

\* publish() returns.  If the observer saw the cancellation, the run stops;
\* otherwise the loop goes round.
WindowPublished ==
    /\ ppc = "settle"
    /\ pos = nextPublish
    /\ windowStart' = nextPublish
    /\ IF keepGoing
       THEN /\ ppc' = "top"
            /\ UNCHANGED <<stopping, status, pc>>
       ELSE /\ ppc' = "guard"
            /\ stopping' = TRUE
            /\ status' = "cancelled"
            /\ pc' = WakeAdmit(pc)
    /\ UNCHANGED <<claimVars, nextDispatch, nextPublish, ready, bufferedBytes, job, attempt,
                   resultVars, windowBytes, pos, applied, keepGoing, reported, abandoned, dbVars,
                   envVars>>

\* PoolGuard's destructor: stop and wake everyone, then join.
StopPool ==
    /\ ppc = "guard"
    /\ stopping' = TRUE
    /\ pc' = WakeAdmit(pc)
    /\ ppc' = "join"
    /\ UNCHANGED <<claimVars, nextDispatch, nextPublish, ready, bufferedBytes, status,
                   job, attempt, resultVars, windowStart, windowBytes, pos, applied, keepGoing,
                   reported, abandoned, dbVars, envVars>>

\* Every created worker has ended.  An exception then leaves the runner, and
\* the oracle's destructor cancels it.
JoinPool ==
    /\ ppc = "join"
    /\ \A w \in Workers : pc[w] \in {"unborn", "done"}
    /\ ppc' = IF status = "exception" THEN "cancel_oracle" ELSE "drain"
    /\ UNCHANGED <<claimVars, runnerVars, workerVars, resultVars, windowStart, windowBytes,
                   pos, applied, keepGoing, reported, abandoned, dbVars, envVars>>

\* Mutant of DrainReady: buffered results are dropped without on_abandon.
DropReady ==
    /\ ppc = "drain"
    /\ \E r \in ready :
          /\ \A s \in ready : r <= s
          /\ ready' = ready \ {r}
    /\ UNCHANGED <<claimVars, nextDispatch, nextPublish, bufferedBytes, stopping, status,
                   workerVars, resultVars, ppc, windowStart, windowBytes, pos, applied,
                   keepGoing, reported, abandoned, dbVars, envVars>>

\* What was extracted but never published is abandoned too, then dropped.
DrainReady ==
    /\ ppc = "drain"
    /\ \E r \in ready :
          /\ \A s \in ready : r <= s
          /\ ReleaseUnclaimed(r)
          /\ ready' = ready \ {r}
          /\ abandoned' = abandoned \cup {r}
    /\ UNCHANGED <<nextDispatch, nextPublish, bufferedBytes, stopping, status, workerVars,
                   resultVars, ppc, windowStart, windowBytes, pos, applied, keepGoing, reported,
                   dbVars, envVars>>

Drained ==
    /\ ppc = "drain"
    /\ ready = {}
    /\ ppc' = "cancel_oracle"
    /\ UNCHANGED <<claimVars, runnerVars, workerVars, resultVars, windowStart, windowBytes,
                   pos, applied, keepGoing, reported, abandoned, dbVars, envVars>>

CancelAfterRun ==
    /\ ppc = "cancel_oracle"
    /\ CancelOracle
    /\ pc' = WakeGate(pc)
    /\ ppc' = "done"
    /\ UNCHANGED <<runnerVars, job, attempt, resultVars, windowStart, windowBytes, pos,
                   applied, keepGoing, reported, abandoned, dbVars, envVars>>

PublisherStep ==
    \/ Spawn
    \/ SpawnFails
    \/ PollCancelled
    \/ Collect
    \/ CloseWindow
    \/ ApplyWindow
    \/ ReplayWindow
    \/ RollbackFails
    \/ ReplayItem
    \/ ReplayAborts
    \/ ReplayDone
    \/ Settle
    \/ ObserverThrows
    \/ WindowPublished
    \/ StopPool
    \/ JoinPool
    \/ DrainReady
    \/ Drained
    \/ CancelAfterRun

-----------------------------------------------------------------------------
(***************************************************************************)
(* The outside world: the user, and whoever edits headers meanwhile.       *)
(***************************************************************************)
RequestCancel ==
    /\ "cancel" \in Faults
    /\ ~cancelRequested
    /\ ppc # "done"
    /\ cancelRequested' = TRUE
    /\ UNCHANGED <<claimVars, runnerVars, workerVars, resultVars, windowVars, dbVars, content>>

EditHeader ==
    /\ ppc # "done"
    /\ \E k \in Keys :
          /\ content[k] < MaxEdits
          /\ content' = [content EXCEPT ![k] = @ + 1]
    /\ UNCHANGED <<claimVars, runnerVars, workerVars, resultVars, windowVars, dbVars,
                   cancelRequested>>

\* The run has returned; nothing is left to do.
Returned == ppc = "done" /\ UNCHANGED vars

Next ==
    \/ \E w \in Workers : WorkerStep(w)
    \/ PublisherStep
    \/ RequestCancel
    \/ EditHeader
    \/ Returned

Spec == Init /\ [][Next]_vars

\* The operating system schedules every runnable thread; a fault, a
\* cancellation or an edit need never happen.
FairSpec ==
    /\ Spec
    /\ \A w \in Workers : WF_vars(WorkerStep(w))
    /\ WF_vars(PublisherStep)

-----------------------------------------------------------------------------
(***************************************************************************)
(* Properties.                                                             *)
(***************************************************************************)

\* A worker that has not yet claimed for the rank it holds, on its first try.
BeforeFirstClaim(w) ==
    /\ pc[w] \in {"parse", "gate", "gate_wait"}
    /\ attempt[w] = 0

\* Ownership is decided in rank order: while a unit has still to make its
\* first claim, no higher-ranked unit holds a grant, so none can have taken a
\* header from it (the ordered gate of claim() and release()).
NoOvertaking ==
    \A w \in Workers : BeforeFirstClaim(w) =>
        \A k \in Keys : granted[k] # NoGrant => granted[k].owner < job[w]

\* A worker between its dispatch and the end of its turn.
Busy(w) == pc[w] \notin {"unborn", "dispatch", "done"}

\* Busy workers hold distinct ranks, all of them dispatched.
JobsDistinct ==
    /\ \A v, w \in Workers : v # w /\ Busy(v) /\ Busy(w) => job[v] # job[w]
    /\ \A w \in Workers : Busy(w) => job[w] < nextDispatch

\* Only dispatched ranks are buffered, released or through the gate.
GateBehindDispatch ==
    /\ \A r \in released \cup ready : r < nextDispatch
    /\ nextRank <= nextDispatch

\* The gate has neither passed nor recorded a rank that has yet to claim.
UnclaimedAhead ==
    \A w \in Workers : BeforeFirstClaim(w) => nextRank <= job[w] /\ job[w] \notin released

\* Whoever holds a grant is through the gate.
GrantsThrough == \A k \in Keys : granted[k] # NoGrant => granted[k].owner < nextRank

\* The pool has been joined.
Joined == ppc \in {"drain", "cancel_oracle", "done"}

\* No worker runs once the pool is joined, and the oracle is only cancelled
\* after that.
JoinedQuiet ==
    /\ Joined => \A w \in Workers : pc[w] \in {"unborn", "done"}
    /\ oracleCancelled => ppc = "done"

\* The inductive strengthening of NoOvertaking.
GateInv ==
    /\ JobsDistinct
    /\ GateBehindDispatch
    /\ UnclaimedAhead
    /\ GrantsThrough
    /\ JoinedQuiet

\* A unit whose batch is in the database or may still get there.
Live(r) == outcome[r] = "ok" /\ reported[r] # "failed"

\* Amortisation: a header that nobody edits during the run is extracted by at
\* most one unit that is, or may yet be, published; revocations, retries and
\* replays included.
ExtractedOnce ==
    \A r, s \in Ranks : r # s /\ Live(r) /\ Live(s) =>
        \A k \in owned[r] \cap owned[s] : content[k] # 0

\* Persistence order is rank order, whatever the completion order and however
\* windows are split, rolled back and replayed.
CommitOrder ==
    [][\A r \in committed' \ committed : \A s \in committed : s < r]_vars

\* The observer is told "published" exactly for the units the database holds,
\* so a unit reported failed has left nothing behind.
ReportMatchesCommit ==
    \A r \in Ranks : reported[r] # "none" =>
        (reported[r] = "published" <=> r \in committed)

\* When the runner returns, every rank it dispatched was either reported or
\* abandoned, never both, and a run that was not stopped reported them all.
NoRankLost ==
    ppc = "done" /\ status # "exception" =>
        /\ \A r \in Ranks : (reported[r] = "none") <=> (r >= nextDispatch \/ r \in abandoned)
        /\ status = "none" => \A r \in Ranks : reported[r] # "none"

\* The bytes of the batches of some ranks, each byte as its rank and its place.
BytesOf(rs) == UNION {{r} \X (1 .. ResultBytes(r)) : r \in rs}

\* Completed but unpublished results respect both budgets; only the rank the
\* publisher waits for may go beyond them, and until the pool is joined
\* buffered_bytes never drifts from what the buffer holds.
BufferBounded ==
    LET behind == ready \ {nextPublish} IN
    /\ Cardinality(behind) <= MaxQueueItems
    /\ Cardinality(BytesOf(behind)) <= MaxQueueBytes
    /\ ~Joined => bufferedBytes = Cardinality(BytesOf(ready))

\* A published unit relies on headers it did not extract only when their rows
\* are already in the database, as in a serial run.
HeadersCovered ==
    \A r \in committed : \A k \in Includes[r] : row[k] # NoRow

\* A header's row never goes back to older bytes, however headers are edited
\* while the run goes on: a unit that parsed a header before an edit and is
\* published after a unit that parsed it later does not replace its row.
RowsNeverGoBack ==
    [][\A k \in Keys : row[k] # NoRow => row'[k] # NoRow /\ row[k] <= row'[k]]_vars

\* A run that was not stopped leaves no header of a published unit without a
\* row: what a unit counted as "already" was indexed by somebody.
NoHeaderLost == ppc = "done" /\ status = "none" => HeadersCovered

\* The run returns, whatever fails and whenever it is cancelled.
Termination == <>(ppc = "done")

-----------------------------------------------------------------------------
(***************************************************************************)
(* Refinement of SerialIndex.                                              *)
(***************************************************************************)

\* Every rank below this one has been decided by the writer.
Frontier ==
    CASE ppc = "settle" -> nextPublish
      [] ppc = "replay" -> pos
      [] OTHER -> windowStart

\* The published unit that extracted the header.
IndexedBy(k) ==
    IF \E r \in committed : k \in owned[r]
    THEN CHOOSE r \in committed : k \in owned[r]
    ELSE NoGrant

Serial == INSTANCE SerialIndex WITH
    settled <- Frontier,
    published <- committed,
    owner <- [k \in Keys |-> IndexedBy(k)],
    NoOwner <- NoGrant

\* The parallel run publishes what the serial run would publish, in its
\* order, with every header assigned to the unit the serial run gives it to.
SerialSpec == Serial!Spec

=============================================================================
