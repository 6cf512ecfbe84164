----------------------------- MODULE AnalysisRun -----------------------------
(***************************************************************************)
(* One analysis request (src/analysis/runner.cpp): facts are loaded        *)
(* from a provider (facts.cpp), Souffle is run over them as a child        *)
(* process (util/subprocess.cpp), and a known result is published as an    *)
(* artifact.  Beside the service act the child, the clock, and other       *)
(* processes that edit sources and commit to the index.                    *)
(*                                                                         *)
(* Facts are reduced to how complete they claim to be; output is counted   *)
(* in chunks.  The clock is two saturating counters: the time since the    *)
(* runner started and the time left to the call of run().                  *)
(***************************************************************************)
EXTENDS Naturals, FiniteSets

CONSTANTS
    Asked,          \* workspaces a request may name; "any" names none
    TimeBudget,     \* options.time_budget_ms
    VersionTimeout, \* timeout of the version probe
    CaptureBudget,  \* captured chunks of stdout and stderr, both calls
    OutputBudgets,  \* limits on the chunks of result files; 0, the default, is none
    ResultSizes,    \* how much the program may have to write
    MaxPrints,      \* bound on the chunks one child prints
    Faults          \* failures the environment may inject

ASSUME BudgetAssumption ==
    /\ {TimeBudget, VersionTimeout, CaptureBudget} \subseteq Nat \ {0}
    /\ MaxPrints \in Nat /\ OutputBudgets \subseteq Nat /\ ResultSizes \subseteq Nat
    /\ Asked \subseteq {"w1", "w2", "any"}

VARIABLES
    freshness,  \* freshness of the semantic index, against the sources
    outdated,   \* the index has been stale ever since the request came
    artifact,   \* [kind, completeness, truncated, workspace] of the other provider
    request,    \* [provider, workspace, output_budget]
    pc,         \* where the service is
    elapsed,    \* time since run_started, saturating
    snapshot,   \* the FactSnapshot
    call,       \* local state of util run()
    child,      \* the child process and the files it writes
    result,     \* [status, class] of the AnalysisRun
    published   \* the artifact the run published, if any

vars == <<freshness, outdated, artifact, request, pc, elapsed, snapshot, call,
          child, result, published>>

Sinks == {"out", "err"}
Completeness == {"complete", "partial", "unknown", "stale"}
Freshness == {"current", "unknown", "stale"}
Workspaces == {"w1", "w2"}
Statuses == {"complete", "partial", "unknown", "error"}
Classes ==
    {"complete", "partial", "unknown", "invalid_package", "unsupported_relation",
     "package_incompatible", "stale_input", "missing_tu", "truncated_input",
     "timeout", "capture_budget_exceeded", "output_budget_exceeded",
     "provider_failure", "engine_failure", "publication_failure",
     "unsupported_budget"}
Supervising == {"guard", "deadline", "poll", "read", "recheck", "wait"}

Artifacts == [kind : {"astgraph", "extension"}, completeness : Completeness,
              truncated : BOOLEAN, workspace : Workspaces]
Requests == [provider : {"index", "artifact", "composed"},
             workspace : Asked, output_budget : OutputBudgets]

\* The artifact is immutable; its label is chosen when it is read.
Unread == [kind |-> "extension", completeness |-> "unknown", truncated |-> FALSE, workspace |-> "w2"]

NoChild == [state |-> "none", code |-> "none", writes |-> {},
            pipe |-> [s \in Sinks |-> 0], prints |-> 0, size |-> 0,
            files |-> 0, ended |-> 0]
NoCall == [purpose |-> "none", left |-> 0, open |-> {}, ready |-> {},
           captured |-> 0, timed_out |-> FALSE, output_limited |-> FALSE,
           guarded |-> FALSE]

TypeOK ==
    /\ freshness \in Freshness
    /\ outdated \in BOOLEAN
    /\ artifact \in Artifacts
    /\ request \in Requests
    /\ pc \in {"begin", "identity", "load", "artifact", "check", "prepare",
               "judge", "publish", "done"} \cup Supervising
    /\ elapsed \in 0..(TimeBudget + 1)
    /\ snapshot \in [completeness : Completeness, truncated : BOOLEAN]
    /\ call \in [purpose : {"none", "version", "program"}, left : Nat,
                 open : SUBSET Sinks, ready : SUBSET Sinks,
                 captured : 0..CaptureBudget, timed_out : BOOLEAN,
                 output_limited : BOOLEAN, guarded : BOOLEAN]
    /\ child \in [state : {"none", "running", "zombie", "reaped"},
                  code : {"none", "ok", "failed", "killed"},
                  writes : SUBSET Sinks, pipe : [Sinks -> 0..1],
                  prints : 0..MaxPrints, size : Nat, files : Nat,
                  ended : 0..(TimeBudget + 1)]
    /\ result \in [status : Statuses, class : Classes]
    /\ published \subseteq [completeness : {"complete", "partial"},
                           truncated : BOOLEAN]
    /\ Cardinality(published) <= 1

Init ==
    /\ freshness \in Freshness
    /\ outdated = (freshness = "stale")
    /\ artifact = Unread
    /\ request \in Requests
    /\ request.provider = "artifact" => freshness = "current"
    /\ pc = "begin"
    /\ elapsed = 0
    /\ snapshot = [completeness |-> "complete", truncated |-> FALSE]
    /\ call = NoCall
    /\ child = NoChild
    /\ result = [status |-> "complete", class |-> "complete"]
    /\ published = {}

-----------------------------------------------------------------------------
(* The world around the service.  Freshness is read once, at "identity";   *)
(* what happens to it later is left out.                                   *)

FreshnessMatters ==
    pc \in {"begin", "identity"} /\ request.provider # "artifact"

\* External: somebody edits a source; the index no longer matches it.
EditSource ==
    /\ FreshnessMatters
    /\ freshness = "current"
    /\ freshness' = "stale"
    /\ UNCHANGED <<outdated, artifact, request, pc, elapsed, snapshot, call,
                   child, result, published>>

\* External: an index pass of another process ends and stamps the index.
Reindex ==
    /\ FreshnessMatters
    /\ freshness # "current"
    /\ freshness' = "current"
    /\ outdated' = FALSE
    /\ UNCHANGED <<artifact, request, pc, elapsed, snapshot, call, child,
                   result, published>>

\* External: time passes.
Tick ==
    /\ pc \notin {"begin", "done"}
    /\ elapsed <= TimeBudget \/ call.left > 0
    /\ elapsed' = IF elapsed <= TimeBudget THEN elapsed + 1 ELSE elapsed
    /\ call' = [call EXCEPT !.left = IF @ = 0 THEN 0 ELSE @ - 1]
    /\ UNCHANGED <<freshness, outdated, artifact, request, pc, snapshot, child,
                   result, published>>

-----------------------------------------------------------------------------
(* The child process, external: only what run() can observe of it.         *)

ChildStep ==
    /\ child.state = "running"
    /\ UNCHANGED <<freshness, outdated, artifact, request, pc, elapsed, snapshot,
                   call, result, published>>

\* It prints a chunk; a full pipe makes it wait.
ChildPrints ==
    /\ ChildStep
    /\ child.prints < MaxPrints
    /\ \E s \in child.writes :
          /\ child.pipe[s] = 0
          /\ child' = [child EXCEPT !.pipe[s] = 1, !.prints = @ + 1]

\* It writes a chunk of its result files.
ChildEmits ==
    /\ ChildStep
    /\ child.files < child.size
    /\ child' = [child EXCEPT !.files = @ + 1]

\* It closes its output and keeps running.
ChildCloses ==
    /\ "closes" \in Faults
    /\ ChildStep
    /\ child.writes # {}
    /\ child' = [child EXCEPT !.writes = {}]

\* Write ends left open by a child that ends: a process of its own that
\* survives it may keep them.
Kept == IF "orphan" \in Faults THEN {{}, child.writes} ELSE {{}}

\* It ends.  Success means that the result is written.
ChildExits ==
    /\ ChildStep
    /\ \E code \in {"ok", "failed"}, kept \in Kept :
          /\ code = "ok" => child.files = child.size
          /\ child' = [child EXCEPT !.state = "zombie", !.code = code,
                                    !.writes = kept, !.ended = elapsed]

\* kill(pid, SIGKILL): no effect on a child that has already ended.
Killed ==
    IF child.state = "running"
    THEN {[child EXCEPT !.state = "zombie", !.code = "killed", !.writes = kept,
                        !.ended = elapsed] : kept \in Kept}
    ELSE {child}

-----------------------------------------------------------------------------
(* Return of the service.                                                  *)

Return(status, class) ==
    /\ result' = [status |-> status, class |-> class]
    /\ pc' = "done"
    /\ UNCHANGED <<freshness, outdated, artifact, request, elapsed, snapshot, call,
                   child, published>>

-----------------------------------------------------------------------------
(* AnalysisService::run up to the provider.                                *)

\* An incomplete package, a wrong content hash, invalid options.
InvalidPackage ==
    /\ pc = "begin"
    /\ "package" \in Faults
    /\ Return("error", "invalid_package")

Begin ==
    /\ pc = "begin"
    /\ pc' = IF request.provider = "artifact" THEN "artifact" ELSE "identity"
    /\ UNCHANGED <<freshness, outdated, artifact, request, elapsed, snapshot, call,
                   child, result, published>>

\* A provider that cannot be read, or does not know the translation unit.
ProviderFails ==
    /\ pc \in {"identity", "load", "artifact"}
    /\ "provider" \in Faults
    /\ \/ Return("error", "provider_failure")
       \/ Return("unknown", "missing_tu")
       \/ Return("unknown", "unsupported_relation")

\* index_identity() of the semantic index.
ReadIdentity ==
    /\ pc = "identity"
    /\ snapshot' = [snapshot EXCEPT !.completeness =
                       IF freshness = "stale" THEN "stale" ELSE "complete"]
    /\ pc' = "load"
    /\ UNCHANGED <<freshness, outdated, artifact, request, elapsed, call, child,
                   result, published>>

\* The workspace of the index is w1.
Foreign(workspace) == request.workspace \notin {"any", workspace}

\* load_sqlite_snapshot: the relations, and whether they are the ones asked for.
LoadIndex ==
    /\ pc = "load"
    /\ snapshot' = IF Foreign("w1")
                   THEN [snapshot EXCEPT !.completeness = "unknown"]
                   ELSE snapshot
    /\ pc' = IF request.provider = "composed" THEN "artifact" ELSE "check"
    /\ UNCHANGED <<freshness, outdated, artifact, request, elapsed, call, child,
                   result, published>>

CompletenessRank ==
    [complete |-> 0, partial |-> 1, unknown |-> 2, stale |-> 3]

\* Mutant of Worse: the side that is better known decides.
Better(a, b) == IF CompletenessRank[a] <= CompletenessRank[b] THEN a ELSE b

Worse(a, b) == IF CompletenessRank[a] >= CompletenessRank[b] THEN a ELSE b

\* compose_snapshots: completeness of left and right together; `unresolved`
\* says whether a row of a join found no partner.
Composed(left, right, compatible, truncated, unresolved) ==
    LET worse == Worse(left, right)
        combined == IF worse = "complete" /\ truncated THEN "partial" ELSE worse
        known == IF combined = "complete" /\ ~compatible THEN "unknown"
                                                         ELSE combined
    IN  IF known = "complete" /\ unresolved THEN "partial" ELSE known

\* AstgraphFactProvider and ExtensionFactProvider: facts of another workspace are
\* unknown, unless it is an astgraph artifact, whose own label is applied last and
\* replaces that one.
Label(a) ==
    IF Foreign(a.workspace) /\ (a.kind = "extension" \/ a.completeness = "complete")
    THEN "unknown" ELSE a.completeness

\* One of them alone, or as the right side of the composed provider.
ReadArtifact ==
    /\ pc = "artifact"
    /\ artifact' \in Artifacts
    /\ LET right == Label(artifact')
       IN  \E unresolved \in BOOLEAN :
              snapshot' = [snapshot EXCEPT
                             !.completeness =
                                IF request.provider = "artifact" THEN right
                                ELSE Composed(@, right, artifact'.workspace = "w1",
                                              artifact'.truncated, unresolved),
                             !.truncated = artifact'.truncated]
    /\ pc' = "check"
    /\ UNCHANGED <<freshness, outdated, request, elapsed, call, child,
                   result, published>>

-----------------------------------------------------------------------------
(* AnalysisRunner::run between the provider and the engine.                *)

RequirementsFail ==
    /\ pc = "check"
    /\ elapsed <= TimeBudget
    /\ "requirement" \in Faults
    /\ \E class \in {"unsupported_relation", "package_incompatible"} :
          Return("unknown", class)

CheckRefuses ==
    /\ pc = "check"
    /\ \/ elapsed > TimeBudget /\ Return("error", "timeout")
       \/ /\ elapsed <= TimeBudget
          /\ snapshot.completeness = "stale"
          /\ Return("unknown", "stale_input")
       \/ /\ elapsed <= TimeBudget
          /\ snapshot.completeness = "unknown"
          /\ Return("unknown", "unknown")

CheckPasses ==
    /\ pc = "check"
    /\ elapsed <= TimeBudget
    /\ snapshot.completeness \in {"complete", "partial"}
    /\ pc' = "prepare"
    /\ UNCHANGED <<freshness, outdated, artifact, request, elapsed, snapshot, call,
                   child, result, published>>

\* No executable, a step budget, inputs that cannot be written, no process.
EngineFails ==
    /\ pc = "prepare"
    /\ "engine" \in Faults
    /\ \/ Return("error", "engine_failure")
       \/ call.purpose = "none" /\ Return("error", "unsupported_budget")

\* run(): the version probe first, then the program.
Spawn ==
    /\ pc = "prepare"
    /\ LET purpose == IF call.purpose = "none" THEN "version" ELSE "program"
       IN  \E size \in IF purpose = "program" THEN ResultSizes ELSE {0} :
              /\ child' = [NoChild EXCEPT !.state = "running", !.writes = Sinks,
                                          !.size = size]
              /\ call' = [NoCall EXCEPT
                            !.purpose = purpose, !.open = Sinks,
                            !.left = IF purpose = "version" THEN VersionTimeout
                                                            ELSE TimeBudget]
    /\ pc' = "guard"
    /\ UNCHANGED <<freshness, outdated, artifact, request, elapsed, snapshot,
                   result, published>>

-----------------------------------------------------------------------------
(* The loop of util run().                                                 *)

Supervise ==
    UNCHANGED <<freshness, outdated, artifact, request, elapsed, snapshot, result,
                published>>

\* An output budget of 0 limits nothing.
OverBudget(chunks) == request.output_budget > 0 /\ chunks > request.output_budget

\* output_guard(): the version probe has none.
OverOutput == call.purpose = "program" /\ OverBudget(child.files)

\* output_guard at the head of the loop (next: deadline) and at its end.
Guard ==
    /\ pc \in {"guard", "recheck"}
    /\ Supervise
    /\ IF pc = "guard" /\ call.open = {}
       THEN pc' = "wait" /\ UNCHANGED <<call, child>>
       ELSE IF OverOutput
       THEN /\ child' \in Killed
            /\ call' = [call EXCEPT !.guarded = TRUE, !.open = {}]
            /\ pc' = "wait"
       ELSE /\ pc' = IF pc = "guard" THEN "deadline" ELSE "guard"
            /\ UNCHANGED <<call, child>>

\* Mutant of Deadline: the expired call is not noticed.
DeadlineIgnored ==
    /\ pc = "deadline"
    /\ Supervise
    /\ pc' = "poll"
    /\ UNCHANGED <<call, child>>

Deadline ==
    /\ pc = "deadline"
    /\ Supervise
    /\ IF call.left = 0
       THEN /\ child' \in Killed
            /\ call' = [call EXCEPT !.timed_out = TRUE, !.open = {}]
            /\ pc' = "wait"
       ELSE pc' = "poll" /\ UNCHANGED <<call, child>>

\* Data, or end of file because nobody holds the write end.
Readable(s) == child.pipe[s] > 0 \/ s \notin child.writes

\* poll for at most 50 ms: the readable sinks, or none.
Poll ==
    /\ pc = "poll"
    /\ Supervise
    /\ call' = [call EXCEPT !.ready = {s \in call.open : Readable(s)}]
    /\ pc' = IF call'.ready = {} THEN "guard" ELSE "read"
    /\ UNCHANGED child

\* poll fails with something else than EINTR.
PollFails ==
    /\ pc = "poll"
    /\ "poll" \in Faults
    /\ Supervise
    /\ call' = [call EXCEPT !.open = {}]
    /\ pc' = "wait"
    /\ UNCHANGED child

\* The sink read() takes next: stdout before stderr.
NextSink == IF "out" \in call.ready THEN "out" ELSE "err"

\* Mutant of Read: a read is kept whole however much was captured before.
ReadUnlimited ==
    /\ pc = "read"
    /\ Supervise
    /\ call' = [call EXCEPT
                  !.open = IF child.pipe[NextSink] = 0 THEN @ \ {NextSink} ELSE @,
                  !.captured = @ + child.pipe[NextSink],
                  !.ready = @ \ {NextSink}]
    /\ child' = [child EXCEPT !.pipe[NextSink] = 0]
    /\ pc' = IF call'.ready = {} THEN "recheck" ELSE "read"

\* read() of one ready sink: end of file, a chunk, or a chunk past the limit.
Read ==
    /\ pc = "read"
    /\ Supervise
    /\ LET s == NextSink
           rest == call.ready \ {s}
           next == IF rest = {} THEN "recheck" ELSE "read"
       IN  IF child.pipe[s] = 0
           THEN /\ call' = [call EXCEPT !.open = @ \ {s}, !.ready = rest]
                /\ pc' = next
                /\ UNCHANGED child
           ELSE IF call.captured < CaptureBudget
           THEN /\ call' = [call EXCEPT !.captured = @ + 1, !.ready = rest]
                /\ child' = [child EXCEPT !.pipe[s] = 0]
                /\ pc' = next
           ELSE /\ call' = [call EXCEPT !.output_limited = TRUE, !.ready = {}]
                /\ child' \in {[c EXCEPT !.pipe[s] = 0] : c \in Killed}
                /\ pc' = "recheck"

\* Mutant of Wait: the caller goes on while the killed child is not reaped.
WaitNobody ==
    /\ pc = "wait"
    /\ Supervise
    /\ pc' = IF call.purpose = "version" THEN "prepare" ELSE "judge"
    /\ UNCHANGED <<call, child>>

\* waitpid: blocks, without a deadline, until the child has ended.
Wait ==
    /\ pc = "wait"
    /\ child.state = "zombie"
    /\ Supervise
    /\ child' = [child EXCEPT !.state = "reaped"]
    /\ call' = [call EXCEPT !.left = 0]
    /\ pc' = IF call.purpose = "version" THEN "prepare" ELSE "judge"

-----------------------------------------------------------------------------
(* What the run becomes.  A request may ask for publication or not.         *)

\* run_souffle after run() returned, in the order of its checks.
EngineError ==
    IF call.timed_out THEN "timeout"
    ELSE IF call.output_limited THEN "capture_budget_exceeded"
    ELSE IF call.guarded THEN "output_budget_exceeded"
    ELSE IF child.code # "ok" THEN "engine_failure"
    ELSE IF OverBudget(child.files) THEN "output_budget_exceeded"
    ELSE "none"

\* The canonical text of a result is longer than its files.
CanonicalSize == child.files + 1

\* Mutant of Outlasted: only the timeout of the child counts.
NeverOutlasted == FALSE

Outlasted == elapsed > TimeBudget

\* Result files that cannot be decoded; a declared output that is missing.
OutputFails ==
    /\ pc = "judge"
    /\ EngineError = "none"
    /\ "output" \in Faults
    /\ \E class \in {"engine_failure", "package_incompatible"} :
          Return("error", class)

Judge ==
    /\ pc = "judge"
    /\ IF EngineError # "none" THEN Return("error", EngineError)
       ELSE IF OverBudget(CanonicalSize)
       THEN Return("error", "output_budget_exceeded")
       ELSE IF Outlasted THEN Return("error", "timeout")
       ELSE /\ result' = IF snapshot.truncated
                         THEN [status |-> "partial", class |-> "truncated_input"]
                         ELSE [status |-> snapshot.completeness,
                               class |-> snapshot.completeness]
            /\ pc' \in {"publish", "done"}
            /\ UNCHANGED <<freshness, outdated, artifact, request, elapsed,
                           snapshot, call, child, published>>

\* AnalysisPublisher::publish through the artifact store.
Publish ==
    /\ pc = "publish"
    /\ published' = {[completeness |-> result.status,
                      truncated |-> result.class = "truncated_input"]}
    /\ pc' = "done"
    /\ UNCHANGED <<freshness, outdated, artifact, request, elapsed, snapshot, call,
                   child, result>>

PublishFails ==
    /\ pc = "publish"
    /\ "publish" \in Faults
    /\ \/ Return("error", "publication_failure")
       \/ Return("error", "provider_failure")

-----------------------------------------------------------------------------
Load == ReadIdentity \/ LoadIndex \/ ReadArtifact

Service ==
    \/ Begin \/ Load \/ CheckRefuses \/ CheckPasses \/ Spawn
    \/ Guard \/ Deadline \/ Poll \/ Read \/ Wait
    \/ Judge \/ Publish

Failure ==
    \/ InvalidPackage \/ ProviderFails \/ RequirementsFail \/ EngineFails
    \/ PollFails \/ OutputFails \/ PublishFails

Child == ChildPrints \/ ChildEmits \/ ChildCloses \/ ChildExits

Next == Service \/ Failure \/ Child \/ EditSource \/ Reindex \/ Tick

Spec == Init /\ [][Next]_vars /\ WF_vars(Service) /\ WF_vars(Tick)

-----------------------------------------------------------------------------
(* Properties.                                                             *)

\* A result published as complete and untruncated was written whole by a
\* child that ended well by itself, and rests on no stale, partial or foreign
\* facts: not on an index stale ever since the request came, not on an
\* artifact that is not complete, not on one of another workspace joined with
\* the index.  What is published at all rests on no stale artifact, respects
\* the output budget, if there is one, and is about the workspace asked for,
\* except where an astgraph artifact calls itself partial: then it is published
\* as partial, whatever its workspace.  The evidence passes through six steps of the code
\* (provider, composition, run(), run_souffle, runner, publisher).
PublishedHonest ==
    \A a \in published :
        /\ child.code = "ok" /\ child.files = child.size
        /\ ~OverBudget(child.files)
        /\ request.provider # "artifact" => ~outdated /\ ~Foreign("w1")
        /\ request.provider # "index" =>
              /\ artifact.completeness \notin {"stale", "unknown"}
              /\ Foreign(artifact.workspace) =>
                    /\ artifact.kind = "astgraph" /\ artifact.completeness = "partial"
                    /\ a.completeness = "partial"
        /\ a.completeness = "complete" /\ request.provider # "index" =>
              /\ artifact.completeness = "complete" /\ ~artifact.truncated
              /\ request.provider = "composed" => artifact.workspace = "w1"

\* A published result was computed inside the time budget counted from the
\* start of the request, although the child has a full budget of its own.
PublishedInTime == published # {} => child.ended <= TimeBudget

\* Outside the loop of run() no child is left: killed or not, it was reaped, so
\* its process id is never signalled later and no zombie remains.
NoChildLeft == pc \notin Supervising => child.state \in {"none", "reaped"}

\* The wait run() cannot bound: a child that closed its output, or that poll
\* lost, and that nobody killed.
Unsupervised == pc = "wait" /\ child.state = "running"

\* Whatever the child does, the request ends, except in that one wait: the
\* deadline cuts every other.
RequestReturns == pc = "begin" ~> (pc = "done" \/ Unsupervised)
=============================================================================
