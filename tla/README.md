# cidx in TLA+

TLA+ modules, TLC runs and TLAPS proofs for cidx, the C++ code indexer of this
repository. Paths below are relative to the repository, whose C++ is under
`src/`; `PROJECT.json` lists components, runs, mutants, the map from definitions
to source lines (with one more leading `src/`), findings, hazards and theorems.

## 1. Inventory

cidx imports compile commands into an SQLite index, extracts facts from each
translation unit with Clang, publishes them through one controlled writer, derives
higher layers, and serves read-only queries. The parts that keep state and can go
wrong in ways a test hardly reaches:

| Component | State | Operations | Interacts with | Hard because | Correct means |
|---|---|---|---|---|---|
| Header-claim oracle, `src/index/header_claims.cpp` | grants by (path, configuration), ordered gate | claim, release_unclaimed, revoke_grants, cancel | called by every worker and by the publisher | many threads, blocking gate | ownership in rank order; nobody blocks for ever |
| Parallel runner, `src/index/parallel_runner_impl.hpp` | reorder buffer with item and byte budgets, dispatch and publication cursors | dispatch, admit, collect a window, stop, join, drain | callbacks extract, publish, on_abandon | three condition variables, cancellation, failing thread creation | rank order, bounded memory, no lost rank, termination |
| Parallel index driver, `src/index/parallel_index.cpp` | read-only snapshot, retry budget | extract with retries, publish a window, revoke | engine, writer, oracle, observer | retries, late failures, edits during the run | same result as the serial loop |
| Fact batch writer, `src/storage/fact_batch_writer.cpp` | one SQLite transaction, staging tables | apply, apply_window, replay | storage, source files | rollback and replay, failing ROLLBACK and BEGIN | all or nothing per unit; report = commit |
| Index engine, `src/ast/index_engine.cpp` | session caches | run_index_one | oracle, Clang | sources changing under the parse | stale facts never recorded as current |
| Clean rebuild, `src/application/clean_rebuild.cpp`, `services.cpp` | candidate and migration-copy files, source digest | check, capture, replay, index, verify, publish | other processes on the same index | other writers, crashes, power loss | no committed write lost, whole database at the path |
| Schema migration, `src/storage/storage_migrate.cpp` | schema version | ladder of steps in one transaction | every read-write open | crash or failure midway | old or new, never between |
| Artifact store, `src/storage/artifacts.cpp` | content-addressed files, manifest rows, leases, pins | publish, attach, lease, pin, recover | other processes, a publication lock | crash between rename and row, shared content | a current or held artifact has its file |
| Index updates: serial pass and translation-unit fact cache, `src/application/services.cpp`, `src/application/tu_fact_cache_service.cpp` | file rows, include edges, identity stamp, cache entries keyed by slot | choose targets, replay or extract, record, stamp | engine, writer, artifact store | interruption, edits, stale evidence | a current index has the present facts; a hit gives what extraction would |
| Transforms, `src/storage/storage_entity_rollup.cpp`, `storage_definitions.cpp` | derived rows, durable change set, per-transform runs | note changes, run in full or incrementally, fail, defer | writer, deletion commands | what a change no longer mentions, failure midway | derived rows are those of a rebuild, or not reported ready |
| Include hygiene, `src/include_hygiene/executor.cpp` | edited source files | check digest, validate, rename into place | compiler | an edit between check and rename | no edit lost (not modelled) |
| Analysis runner, `src/analysis/runner.cpp`, `facts.cpp`; subprocesses, `src/util/subprocess.cpp` | fact snapshot, child process, published artifact | load, compose, check, run, judge, publish | index, artifacts, Souffle | deadline against completion, partial evidence | only honest, timely results published; child always reaped |
| UI server, `src/ui/server.cpp` | admission counter, sockets, connection and worker threads | admit, serve, abandon, drain | providers on threads of their own | providers that never return | counter exact, limit kept, shutdown returns |

Everything else is left out; section 6 and `PROJECT.json` say why.

## 2. Modules

| Module | Models |
|---|---|
| `HeaderClaims` | the oracle; each method runs under its mutex and is one operator |
| `ParallelIndex` | runner, driver, engine at the gate and writer window, composed with `HeaderClaims` |
| `SerialIndex` | the abstract specification: the serial loop of `run_index_pass` |
| `CleanRebuild` | clean rebuilds, in-place writers, crashes and loss of power |
| `ArtifactStore` | the store of derived artifacts, used by several processes |
| `IndexUpdates` | repeated index passes over changing sources, with the fact cache and the identity stamp |
| `Transforms` | the change set and the transform pipeline over the published facts |
| `UiServer` | the explorer's HTTP server and its threads |
| `AnalysisRun` | one analysis request, its providers and its child process |
| `ParallelIndexProofs`, `ParallelPublicationProofs` | theorems about `ParallelIndex`: types and the gate; publication, the buffer and the refinement of `SerialIndex` |
| `CleanRebuildProofs`, `ArtifactStoreProofs`, `IndexUpdatesProofs`, `TransformsProofs`, `UiServerProofs`, `AnalysisRunProofs` | theorems about the module each is named after |
| `MCParallelIndex`, `MCCleanRebuild`, `MCArtifactStore`, `MCIndexUpdates`, `MCTransforms`, `MCUiServer` | instances for TLC; `AnalysisRun` needs none |

Operators whose comment begins with "Mutant of" are deliberate bugs. No
specification uses them; substituted for the definition they name they make the
stated property fail, which shows that the property depends on that code.

### ParallelIndex

A translation unit is its rank in the legacy apply order. A claim key is a pair
(header path, configuration hash); the content of a header is a number that an
edit increments, so digests are compared and nothing else. The processes are the
worker threads (`pc`) and the calling thread, the publisher (`ppc`). One action is
one critical section or one call made outside the locks. A condition variable is
its set of sleepers: a thread whose predicate is false goes to a `*_wait` state
that only a notify leaves, so a missing notify is a lost wakeup in the model too.

| Code | Action |
|---|---|
| `worker_body`, first critical section | `Dispatch` |
| `run_index_one` up to the claim | `Parse`, `FrontEndFails`, `PchPreflightFails`, `ThrowBeforeClaim` |
| `discover_owned_headers`, `resolve_header_claims`, `claim` | `ClaimHeaders` (with `AlreadyIndexed` for `classify_included_header`) |
| passes and `finalize_index_one`; the retry loop of `extract` | `ExtractOk`, `ExtractFails`, `AttemptWithoutBatch` |
| admission under back-pressure, abandoning | `Admit`, `Abandon` |
| publication loop | `PollCancelled`, `Collect`, `CloseWindow`, `WindowPublished` |
| `apply_window` | `ApplyWindow`, `ReplayWindow`, `ReplayItem`, `ReplayDone`, `RollbackFails`, `ReplayAborts` |
| reporting loop of `publish` | `Settle`, `ObserverThrows` |
| thread creation, `PoolGuard`, drain, `oracle.cancel()` | `Spawn`, `SpawnFails`, `StopPool`, `JoinPool`, `DrainReady`, `Drained`, `CancelAfterRun` |

The constant `Faults` names the failures the environment may inject, so that a run
states which of them its property survives. External to the code: the user who
cancels and whoever edits headers (`RequestCancel`, `EditHeader`). Left out: metrics,
progress events, the facts themselves, and the units' own source files except as
the fault `changed`. The row of a header is the content its unit parsed (the snapshot that
`mark_file_indexed` records), whatever is on disk by then. A unit that the writer refused has its
grants revoked before the observer is told (`TellObserver`), so also where the observer
throws.

`SerialIndex` settles consecutive units in rank order, each published or failed, and
gives a header to the first published unit that includes it unless its row was
current. The refinement, checked by `parallel_serial` and proved in `ParallelPublicationProofs`, maps
`settled` to the frontier of decided ranks and `owner` to the published unit that extracted the
header. The bytes of the buffer are the set of its bytes (`BytesOf`, rank and place), so that
their number is a cardinality.

### CleanRebuild

A database file is an inode, a path names one, a rename moves a name and a
connection keeps its inode. A database is its schema kind, its catalog rows and the
rows that are indexed; its sha256 is its content. Each rebuilder follows
`run_clean_rebuild` step by step. SQLite is external and modelled from its use: one
writing transaction per file, a journal beside the path while it is open, a
hot journal rolled back by the next open, and a refused write on a connection whose
file lost its name. Nobody deletes the index by hand while a rebuild runs: a
database deleted and recreated with the same bytes has the same digest, and the
code makes no claim about it. Copying an older database for migration is one step:
a commit during the copy changes the digest taken before it, so publication is
refused as for a commit at any other moment. With the fault `copy` the copy breaks off and
stays where it is, for `MigrationCopy` owns it only later (observation 11). The failure points that only
`CIDX_CLEAN_REBUILD_FAIL_AT` reaches are not separate: each ends the rebuild where
one of the modelled failures does.

`MayRace` says whether writers may act between the last check of the serving
database and the rename. The code takes no lock there and calls the check advisory.
The run sets it to FALSE, so what it shows holds outside that window (observation 4
of section 5).

### ArtifactStore

A sidecar's envelope holds its logical id, so the digest that names a file determines
the id: a path is a pair of id and payload. One action is one statement or one file
operation. `Publish`, `Install`, `Record` and `PublishDone` are `publish` and
`publish_staged` from the lock to its release, `WriterFails` and `RecordFails` their
exceptions; `Lease` and `LeaseInsert` the two statements of `lease` and `pin`;
`RecoverStart`, `SweepOpen`, `SweepFile`, `SweepRow`, `WalkStart`, `WalkFile` and
`ClearStaging` the steps of `recover`; `Attach`, `AttachOpen` and `Detach` the
attachments with `PRAGMA query_only`. A killed process (`Crash`) loses its lock and
keeps its files; `Damage` is anybody else's write to a file. Every removal of a file ignores
its error (fault `unlink`), those of staged files included (`Unstage`, `ClearStaging`): `Left`
stands for staged files that nobody owns any more. A recovery's open cursor
keeps others from committing (SQLite). `Usable` is `validate_record`: size, digest and
envelope. `publish_existing` differs in where the bytes come from and is the same
action. `LeaseRaces` says whether others may act between the two statements of a
lease; the run sets it to FALSE (observation 6).

### IndexUpdates

Facts are represented by the contents they were extracted from, so that "what
extraction would give" is `Snapshot(Closure(u))`. `Begin` is the selection of targets
with `dependents_of_changed_inputs` (reverse closure over stored include edges, and
forced includes), a rebuild's clearing of rows and the work budget; `index_one` replays,
extracts or fails one unit, in `list_files` order or, when the request names units, in its
own; `Finish` decides completeness and stamps the identity. Both closures are least closed
sets (`Follow`). `Cancel`, `Kill` and the budget cut a pass short. A unit is one step: edits
under a parse belong to `ParallelIndex`. A parallel pass does not use the cache and is an
uncached pass here. A request names units, not headers. Units differ in configuration only by
what they force in. The cache's slot contains the workspace identity, as in the code, so the
entries of a first pass are not found by the second. Corrupt or evicted entries behave as
missing ones. `cut`, and the fields `undisturbed`, `faithful` and `clean`, are history.

The properties say what the code gives, and the first attempts to prove them for every
instance showed where that ends. Each of these was confirmed by TLC on a larger instance:

- A pass can only track files that have rows, through files that have rows, and what a
  configuration forces in directly (`Tracked`). What only a header outside every component
  opens is not tracked, as the comment at `services.cpp:163` says; what only a forced header
  opens is not tracked either, since forced inputs are compared with the changed files and
  not with the files reached from them (`services.cpp:236`).
- A replay publishes what its entry routed. An owned header that was current when the entry
  was made and has changed since is not in it; when no other unit publishes it, a full pass
  leaves it stale, and each later cached pass hits again. A pass is `faithful`, and `cut`
  stays as it was, only if each replayed entry is `Whole`: not made in a disturbed pass, and
  the headers it leaves out are current now.
- The identity compares the files with the stamp, not with the rows. When files return to the
  stamped contents after a pass that indexed others without stamping (one orphaned header keeps
  it incomplete), the index is called current with facts of the contents in between. So
  `UnitsCurrent` is about an index in which a full pass would find nothing changed, not about
  one whose identity says "current".

### Transforms

The tables are those the incremental algorithms read, and the applicability rows
(`support`), which say what each file said under each configuration. `Publish` of a file under a
configuration follows `apply_in_transaction`: it captures the ids the file's rows had
(`PriorSymbols`, `PriorDefinitions`), if the route has `cleanup_symbols` (a unit, or a header
that was published under this configuration before), deletes the file's edges and definitions
in any case, inserts the new rows with the cascades of the schema and the stubs that stay,
sweeps what only this file under this configuration said and no longer says (`Lost`), and notes
the new ids (`RecordedSymbols`). `unnoted` is history: rows went that the change set does not
name (`LosesUnnoted`, deletion commands).
`run_transform_pipeline` is one transaction, hence one action: `Succeed` runs, derives
incrementally or reuses each transform in the registry's order; `Fail(n)` fails at the
n-th, keeps rows and change set and records the failed and the downstream attempts.
`delete_files` and `delete_symbol` are the deletion commands, which note nothing.
A recursive query (`Reach`) is the least set of symbols closed under the edges. Natural
keys stand for row ids; counts and positions, the edge-site roll-up and the phases of the
entity roll-up are left out.

### UiServer

The accept loop (`loop`, `current`), a connection thread per admitted request (`conn`)
and its worker (`worker`). `Watch` is the poll that sees a client gone or the shutdown
and abandons the worker; `peer_disconnected` sees a reset always, an orderly close only if no
byte was left unread before it (`unread`). `Release` is the decrement after the provider
returned, which may never happen. Reading a request is one step with a bounded timeout; what it
holds is a choice of kinds. An error of `accept` leaves the loop (`AcceptFails`), and the
connection threads are then joined without having been told of a shutdown. `StartFails` is a
worker thread that cannot be created; its admission is lost (`unspawned`), which
`AdmissionsAccounted` states as it is. `HandOverFails` is the same for a connection thread: the
exception leaves `serve_live` and the process ends (`Ended`), by `std::terminate` if another
connection thread has not been joined.

### AnalysisRun

`Begin` to `Publish` follow `AnalysisService::run` and `AnalysisRunner::run`; the loop of
`util::run` is `Guard`, `Deadline`, `Poll`, `Read`, `Wait`. The child may print, write,
close an output, leave a process behind that holds its pipes, fail, or hang. Facts are
reduced to completeness, truncation, freshness and workspace; output is counted in
chunks, time in two saturating counters, and a `Tick` may come between any two steps.
`Label` is what a provider makes of an artifact: facts of another workspace are unknown, but an
astgraph artifact that is not complete keeps the label it gives itself. An output budget of 0,
the default, limits nothing (`OverBudget`). An exception thrown inside the loop of `run`, by
`output_guard` or by appending to the captured text, is left out.
One request is modelled: the service keeps nothing between requests but what it
publishes through the artifact store.

## 3. Runs

| Run | Bounds | Shows |
|---|---|---|
| `parallel_safety` | 3 units, 2 workers, 2 headers (one current), window and buffer of 2 items and 2 bytes, one batch of 2 bytes, 1 retry, all faults but `begin` | `NoOvertaking`, `ExtractedOnce`, `ReportMatchesCommit`, `NoRankLost`, `BufferBounded`, `CommitOrder` |
| `parallel_serial` | 4 units, 3 workers, faults parse, window, observer, spawn, cancel | `HeadersCovered` and refinement of `SerialIndex` |
| `parallel_liveness` | 3 units, 2 workers, buffers of 2 items and 2 bytes, one edit, faults parse, window, writer, begin, spawn, cancel | `RowsNeverGoBack`, `Termination` |
| `clean_rebuild` | 2 rebuilds, 1 writer, 2 rows, 5 inodes, 1 crash or loss of power, all faults | `NoWriteLost`, `TargetWhole`, `NothingLeftBehind`, `OnlyVerifiedPublished` |
| `artifact_store` | 2 processes, 1 database, 2 ids, 2 payloads, 1 token, 2 rows, 1 accident, all faults | `ReferencedHasFile`, `QueryOnlyRestored`, `CurrentNeverVanishes`, `RecoveryCollects` |
| `index_updates` | 2 units, 2 owned headers, 1 outside every component, 2 contents, 2 edits at any moment, 3 passes of any kind | `UnitsCurrent`, `HitSound`, `PassCovers` |
| `transforms` | 2 units, 1 header under 2 configurations, 3 symbols (a caller, a base, an override), 3 publications, 1 deletion, 1 failure | `DerivedCurrent`, `FailedNotReady`, `EventuallyCurrent` |
| `ui_server` | 3 clients (two ask for a provider, one for anything; one leaves bytes unread), 2 admissions, 1 thread that cannot be created | `AdmissionsAccounted`, `OwnerCloses`, `ShutdownReturns`, `GoneIsClosed`, `NotHeldUp` |
| `analysis_run` | time budget 1, capture budget 2, output budget none or 1, results of 0 and 2 chunks, all faults | `PublishedHonest`, `PublishedInTime`, `NoChildLeft`, `RequestReturns` |
| `gate_stall`, `shared_root`, `interrupted_pass` | small instances | the findings of section 5 |

Why the bounds suffice: two workers and three units give a rank that waits at the
gate while another is buffered and a third is being dispatched; windows of two
units split, roll back and replay; the batch of two bytes fills the byte budget
before the item budget; three workers and four units add an overtaking of
two ranks. Two rebuilds race for one path while a writer commits between any two of
their steps, and five inodes cover the path, two candidates, the replaced file and
the file a connection still holds. Bounds are constants: `MaxEdits`, `MaxRetries`
(1; the code has 2), `MaxAccidents`, `Inodes`. Two artifact rows give a publication
that supersedes another while a recovery and a lease are under way, or that restores
an earlier content. Three passes are what the cache needs for a hit after a finished pass
(its slot changes with the first stamp), with one edit to invalidate and one to change back; the shared
header opens a second owned header and one nobody owns, the second unit forces one in,
and each unit has a content that changes its includes or cannot be parsed. Three
publications are a first state, a change and a change back around a failed run. Three
clients fill two admissions and refuse the third. Every budget is
reached and overrun, and the same result is let through where there is none.

`parallel_safety` turns the deadlock check off, because with the faults `throw`
and `pch` the run does stall (finding 1); deadlock is checked in `parallel_serial`,
`parallel_liveness` and `clean_rebuild`. The other modules stop where their bounds are
used up, so their runs turn it off; that nothing gets stuck earlier is what
`EventuallyCurrent`, `ShutdownReturns`, `GoneIsClosed`, `NotHeldUp` and `RequestReturns` say.

Fairness: `FairSpec` assumes weak fairness of each worker and of the publisher: the
operating system runs every runnable thread. Nothing is assumed of faults,
cancellation and edits, and Clang is assumed to return. `Transforms` assumes that
somebody runs the index again until it succeeds (weak fairness of `Succeed`), as its
bounded failures allow. `UiServer` assumes that the accept loop, the connection threads
and the decrement after a returned provider run; nothing is assumed of providers, and an error
of `accept` or of thread creation may come at any time or never (`LoopFails`). A
client takes its answer or goes away, for a send blocks on it. `AnalysisRun` assumes
that the service runs and time passes; nothing of the child.

## 4. Proofs

Each theorem holds for every value of its module's constants: any number of threads,
processes, units, headers, rows and accidents, any budgets, every set of faults, unless
a hypothesis is named. All of them rest on the `ASSUME`s of the modules, which TLC
evaluates in the runs: counts and budgets are numbers (`CountAssumption`,
`PlanAssumption`, `CapAssumption`, `FailuresAssumption`, `BudgetAssumption`,
`StoreAssumption`, `RebuildAssumption`), contents are about symbols and a call belongs to
a body of its file (`ContentsAssumption`), the planner gives no more workers than units
(`PlanAssumption`), and the values that stand for "none" are none of the things they
are told from (`NoGrantAssumption`, `NoFileAssumption`, `NoneAssumption`, and in
`StoreAssumption`, `RebuildAssumption` and `UpdatesAssumption`). `UpdatesAssumption` also says that
units, owned and other headers are distinct files and that units are not included.

A theorem is proved from an inductive invariant: it holds initially, every action keeps
it, and it implies the property. Each inductive invariant was checked with TLC on the
instance of the module's run before it was proved (`UpdatesInv`, which is costly to evaluate,
on its first 220,000 states).

| Theorem | States | Hypothesis |
|---|---|---|
| `ParallelIndexProofs!TypeCorrect` | `TypeOK` | |
| `OrderedClaims` | `NoOvertaking` | |
| `ParallelPublicationProofs!InOrder` | `CommitOrder` | |
| `Accounted` | `NoRankLost` | |
| `NoStaleRow` | `RowsNeverGoBack` | |
| `OnlyOnce` | `ExtractedOnce` | |
| `Truthful` | `ReportMatchesCommit` | no fault `begin` |
| `Bounded` | `BufferBounded` | |
| `Covered` | `HeadersCovered` | `ClaimsStand` |
| `ImplementsSerial` | refinement of `SerialIndex` | `ClaimsStand` |
| `CleanRebuildProofs!TypeCorrect` | `TypeOK` | |
| `CleansUp` | `NothingLeftBehind` | |
| `WritesKept` | `NoWriteLost` | `~MayRace` |
| `AlwaysWhole` | `TargetWhole` | `~MayRace` |
| `PublishesVerified` | `OnlyVerifiedPublished` | `~MayRace` |
| `ArtifactStoreProofs!TypeCorrect` | `TypeOK` | |
| `ModeRestored` | `QueryOnlyRestored` | |
| `CurrentStays` | `CurrentNeverVanishes` | |
| `Collected` | `RecoveryCollects` | |
| `ReferencedKept` | `ReferencedHasFile` | one database, `LeaseRaces = FALSE` |
| `IndexUpdatesProofs!UpdatesTypeOK` | `TypeOK` | |
| `UpdatesUnitsCurrent` | `UnitsCurrent` | |
| `UpdatesHitSound` | `HitSound` | |
| `UpdatesPassCovers` | `PassCovers` | |
| `RebuildRepairs` | a completed, faithful rebuild makes `UnitFactsMatch` true | |
| `TransformsProofs!TypeCorrect` | `TypeOK` | |
| `IncrementalEqualsFull` | `DerivedCurrent` | |
| `FailureReported` | `FailedNotReady` | |
| `UiServerProofs!TypeCorrect` | `TypeOK` | |
| `Admissions` | `AdmissionsAccounted` | |
| `Ownership` | `OwnerCloses` | |
| `AnalysisRunProofs!TypeCorrect` | `TypeOK` | |
| `Reaped` | `NoChildLeft` | |
| `InTime` | `PublishedInTime` | |
| `Honest` | `PublishedHonest` | |

No hypothesis is there for the proof's sake: without it TLC has a counterexample
(section 5: `begin` is observation 3, `MayRace` observation 4, `LeaseRaces`
observation 6, the second database finding 2).

**Gate.** `NoOvertaking` is not inductive: it has to be known where the gate is.
`GateInv` adds that busy workers hold distinct dispatched ranks (`JobsDistinct`), that
only dispatched ranks are released or through the gate (`GateBehindDispatch`), that the
gate has neither passed nor recorded a rank that has yet to claim (`UnclaimedAhead`),
that grants belong to ranks through the gate (`GrantsThrough`), and that the oracle is
cancelled only after the pool was joined (`JoinedQuiet`). A claim passes the gate only
when it stands at the claimer's rank, and every other unclaimed rank is then higher.

**Publication.** `PubInv` says where every rank is. A dispatched rank is collected,
buffered, abandoned or in the hands of one worker (`Places`), the publisher's position
follows its program (`Stages`), what was reported is behind it (`Reports`), what was
committed is behind the writer (`Behind`, with `Decided` the writer's frontier through
apply, replay and settle), and results of the window in hand agree with the database
(`Results`). `CommitOrder` then follows, since only the rank at the frontier commits, and
so does `NoRankLost`, since at the end no rank is buffered and no worker is busy. `OnlyOnce`
adds `Granted`: a unit not yet reported failed holds the grant of each header it extracts,
unless the header was edited; one header has one grant. `NoStaleRow` adds that no row is ahead
of the disk (`RowsBehind`): the writer's check of the sources lets a unit through only with the
bytes on disk, which are no older than any row. `Bounded` needs `Places` too: a result
is admitted once, so its bytes are disjoint from those already there (`HeldAdd`), and results in
the buffer do not change.

**Refinement.** `ClaimsStand` says that no header is edited and that no unit fails after
its claim: none of the faults `parse_changed`, `extract`, `changed`, `rollback`, `writer`,
`begin`. With any one of the six, or one edit, TLC refutes `HeadersCovered`: units that
were denied a header because a lower one had claimed it are published without it
(observation 2 is one of them). `throw`, `pch`, `parse`, `window`, `observer`, `spawn` and `cancel` remain. `SerialInv`
adds that the extractor of a header is the unit it was granted to (`Extractors`), that the
header of a unit that has claimed is granted to it or to a lower unit (`Provided`), and that
the writer has committed every unit with a batch that it has passed (`Persisted`). A step
that moves the frontier settles the units in between, a prefix of the window, and a header
granted to one of them is the first published includer's; all other steps
stutter.

**Clean rebuild.** The unconditional part, `IInv`, says which working files a rebuild has
in each state (`Placed`), that nobody else refers to a candidate (`Apart`) and that a
connection has its inode. Without races, `PInv` adds that a journal belongs to the
database in service (`Journaled`), that what may be in service after a loss of power is
flushed and whole (`Whole`), that acknowledged rows are there (`Kept`), and what a
candidate holds as compared with what was captured (`Ready`, `Captured`). The argument: the
rows of the database in service only grow, so the rows at the first digest are contained in
those read for the candidate, and these in the rows now; equal digests at the last check
force all three to be equal.

**Artifact store.** `IInv` relates the local values of an operation to the shared state
while it holds the publication lock (`LockHeld`, `PublisherJob`, `SweeperJob`,
`WalkerJob`), says that a generation has one row (`RowsDistinct`) and that an attached
connection remembers its first mode (`ModeKept`). `ReferencedKept` needs in addition that the paths
a recovery spares contain those of every row that is current or held (`RecoverySpares`), that
files of recorded rows are in place before the row is (`InPlace`), and that no lease is half
done (`LeaseAtomic`).

**Index updates.** `UpdatesInv` compares the files with what the rows record, not with what an
earlier pass saw. `RowsClosed`: whatever a published file opened at its recorded content has a
stored edge and, below a component, a row. So a unit's dependencies as the rows record them
(`RowTracked`) are a closed set over the stored edges, and a changed one is carried back to the
unit (`DependentsReached`); conversely, rows that agree with the files on a unit's dependencies
give it the same dependencies (`RowsAgree`). `CacheOK`: an entry is what some contents of all
files gave, and its identity is theirs if it is clean; a hit then means that the present files
agree with those contents wherever the unit looked, hence that the unit opens the same files
(`OpenedAgree`, `HitIsCurrent`). `PassRows`, `PassIndexed` and `PassFacts` say what is true of the
units a whole pass is done with or need not index; publishing one unit settles it and disturbs no
other (`PublishSettles`). `IdleFacts` carries this from the end of one pass to the start of the
next. All closures are least closed sets, and two of them agree if what they follow agrees on
what one reaches (`FollowAgree`), so no induction over data is needed. `UpdatesInvariant` states
the invariant itself. `RebuildRepairs` is the counterpart of finding 3: what an interrupted pass
leaves behind, a completed rebuild repairs.

**Transforms.** `Agreement` says that whatever the change set does not name is as a rebuild
would derive it: counts of symbols, possible calls of bodies, dispatch targets of callers.
An incremental run computes the rest again, so it derives what a full one would. A
publication that loses nothing unnoted keeps `Agreement`, because everything it touches is named
(`Named`, `Untouched`): the captured ids cover the replaced rows, and a swept fact is the file's
own (`PriorNoted`, `PriorEnds`). For
dispatch calls the families of the noted symbols are closed under the override edges before
and after, so no chain of overrides outside of them has changed (`ReachLocal`). A result is
kept only under an unchanged identity: `Recorded` says that the identity of an incremental run
is older than the change set in hand, and that any other identity determines the result
(`ReusedIsFull`). Recursive queries are least closed sets, so no induction is needed.

**UI server.** `IInv` adds to the three properties that the accept loop owns the client it is
reading from (`LoopOwnsCurrent`) and that a client not yet accepted has no thread (`NotYetServed`). The
counter is compared with a cardinality, so each action shows that it adds or removes exactly
one member of `Holders`.

**Analysis.** `IInv` carries the evidence through the request: what the child's record may say in
each supervising state (`Supervised`, `ChildHonest`), what the snapshot's labels may claim of
the facts they come from (`Provenance`), and what must have happened before each later
state is reached (`Earned`).

Only model-checked is liveness, which is outside the prover: `Termination`,
`EventuallyCurrent`, `ShutdownReturns`, `GoneIsClosed`, `NotHeldUp`, `RequestReturns`. Every invariant and every
action property that a passing run checks is stated by a theorem.

## 5. Findings

Checked by runs that must fail; `PROJECT.json` quotes the lines they contradict.

1. `gate_stall`: an exception, or a failed PCH preflight, before the claim never
   releases the rank at the gate; the run does not return.
2. `shared_root`: `recover` removes whatever its own database does not reference, and
   databases in one directory share the default root: one deletes the other's current
   and leased artifacts.
3. `interrupted_pass`: the first includer that is indexed makes a changed header
   current; when the pass ends there, no later pass reaches the other includers.

Observations: TLC refutes these too when the named constant is changed or the named
definition is checked; no run of its own keeps them.

1. `NoHeaderLost` (fault `rollback` or `extract`, or `window` and `writer` together; with `window`
   alone it holds): a unit denied a header before its owner's
   publication failed is published though nobody indexed the header.
2. `HeadersCovered` (fault `parse_changed`): a broken parse of a changed source is
   released as never claiming, then retried, and claims behind higher ranks.
3. `ReportMatchesCommit` (fault `begin`): when BEGIN fails in a replay, units already
   committed are reported as failed.
4. `NoWriteLost`, `TargetWhole` and `OnlyVerifiedPublished` (`MayRace = TRUE`): a commit
   between the last check and the rename of a clean rebuild is overwritten, and the
   journal of a transaction open there is left beside a database it does not belong to.
5. `HitSound` without its two history conditions: digests are remembered for a pass, so
   an entry made after an edit in the middle of a pass is filed under a content it was
   not extracted from, and is replayed when the edit is taken back. The comment at
   `src/application/tu_fact_cache_service.cpp:260` says a hit means that every recorded
   input still has the content it was extracted from. The limits that section 2 lists
   under `IndexUpdates` (forced headers, entries that are not whole, the identity's stamp)
   are of the same kind.
6. `ReferencedHasFile` (`LeaseRaces = TRUE`): a publication and a recovery between the
   two statements of `lease` remove the file of the artifact that is then leased.
7. `NoStaleReadiness`: after a failed pipeline, transforms it did not reach and that do
   not depend on the failed one are still reported ready.
8. `MultiDefCounts`, and `DerivedCurrent` without `unnoted`: deletion commands note nothing, so an
   incremental run leaves the count of a symbol that lost a definition. The same happens when a
   header is published under one more configuration: its rows are replaced, but its route has no
   `cleanup_symbols` and the old ids are not captured (`src/ast/index_engine.cpp:947`), although
   the comment at `src/storage/fact_batch_writer.cpp:2867` speaks of "every route whose prior facts
   will be cleaned". A swept fact whose symbol has another home by then is not noted either, and
   a swept symbol takes edges of the same publication with it.
9. `RequestReturns` has one exception: the last `waitpid` has no deadline, and a child
   that closed its outputs is waited for as long as it runs.
10. `AdmissionsAccounted` has one term, `unspawned`: an admission is lost when the worker
    thread cannot be created. When the connection thread cannot be created (`src/ui/server.cpp:595`)
    the exception leaves `serve_live`, with joinable threads if there are any.
11. `NothingLeftBehind` has one exception: when `copy_file` breaks off, what it wrote stays
    (`src/application/clean_rebuild.cpp:248`), where the comment at line 56 says the copy "must not
    outlive the capture, including on the throwing path".
12. After a failing `unlink` a recovery leaves staged files; the next one tries again.
13. `GoneIsClosed` has one exception: bytes left unread after the request hide an orderly close
    from `peer_disconnected` (`src/ui/server.cpp:286`), so that the connection stays open while its
    provider runs. And after an error of `accept` the server waits for such providers, since
    `shutting_down` is not set.
14. `PublishedHonest` has one exception: an astgraph artifact of another workspace that calls itself
    partial is published as partial, because `src/analysis/facts.cpp:590` replaces the label
    "unknown" that line 318 gave it.

## 6. Not modelled

The model covers the code that keeps state across steps, processes or threads. The
larger part of the repository does not: the AST visitors and extraction front ends are
functions of Clang's AST; the query language, graph queries, graph view and diff read
one fixed database and keep nothing; command line, protocol, compile database and
toolchain probe parse and format; fact batches and their byte format are sequential
data. A model of those would be a copy of the code, with nothing for a model checker to
explore. Of stateful code these parts are left out: schema migration, whose steps run
inside one SQLite transaction; include hygiene, a sequential check and rename; the
dependency planner, whose answer is only reported; the planning policy, a pure function
whose results `ParallelIndex` takes as constants; the native analysis engine.

## 7. Status

The plan is worked off: the components of section 2 are modelled and every safety property of the
passing runs is proved. Open are liveness for more than the instances TLC checks, and the
components that section 6 leaves out or `PROJECT.json` calls partly modelled.
