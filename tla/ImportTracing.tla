--------------------------- MODULE ImportTracing ---------------------------
(***************************************************************************)
(* How the imports of a server are traced: the OpenTelemetry runtime is    *)
(* started once and shut down by a signal, a provider hands every import   *)
(* the same collector, and the collector keeps a root span per run.        *)
(*                                                                         *)
(* An import is synchronous: no two of them overlap and no signal is       *)
(* handled inside one.  Its run id is a function of the project and of the *)
(* schema, so that a schema stands for its run.                            *)
(***************************************************************************)
EXTENDS Naturals, Sequences, Functions

CONSTANTS
    Schemas,        \* what may be imported, and the runs
    NSteps,         \* steps of an import before its summary
    MaxTombstones,  \* maxFinalizedRunTombstones
    MaxImports,     \* bound
    MaxFaults,      \* bound: failing calls of the tracer
    None

VARIABLES
    config,     \* what starting the SDK does: "starts", "fails" or "disabled"
    runtime,    \* state of the runtime, of its memoized result and of its SDK
    provider,   \* the collector and the memoized end of the runtime
    active,     \* activeRuns: active[r] is the root span of run r, or None
    tombstones, \* finalizedRunOrder; finalizedRuns has the same runs
    spans,      \* sequence of the root spans the tracer has started
    import,     \* the import under way, or None
    imports,    \* how many there were
    faults

vars == <<config, runtime, provider, active, tombstones, spans, import, imports, faults>>

States == {"idle", "started", "disabled", "failed", "shutdown"}
SpanIds == 1 .. MaxImports
\* steps: child spans; status: of the ended span.
Span == [run : Schemas, steps : 0 .. NSteps + 1, status : {"unset", "ok", "error"},
         ended : BOOLEAN]
\* next: step to come; dropped: a record of it came too late; fresh: its run had no
\* tombstone at first; troubled: the tracer failed it.
Import == [run : Schemas, collector : {"otel", "noop"}, next : 1 .. NSteps + 1,
           failed : BOOLEAN, over : BOOLEAN, dropped : BOOLEAN, fresh : BOOLEAN,
           troubled : BOOLEAN]

\* What is assumed of the constants; where this module is an instance, its user assumes it.
ConstantsAssumption ==
    /\ {NSteps, MaxTombstones, MaxImports, MaxFaults} \subseteq Nat
    /\ None \notin Nat \cup States \cup Import

\* The memory of the runtime, the provider and the collector keeps its types.
TypeOK ==
    /\ config \in {"starts", "fails", "disabled"}
    /\ runtime \in [state : States, result : States \cup {None}, starts : 0 .. 1]
    /\ provider \in [collector : {"none", "otel", "noop"}, end : States \cup {None}]
    /\ active \in [Schemas -> SpanIds \cup {None}]
    /\ tombstones \in Seq(Schemas)
    /\ spans \in Seq(Span) /\ Len(spans) <= MaxImports
    /\ import \in Import \cup {None}
    /\ imports \in 0 .. MaxImports /\ faults \in 0 .. MaxFaults

Init ==
    /\ config \in {"starts", "fails", "disabled"}
    /\ runtime = [state |-> "idle", result |-> None, starts |-> 0]
    /\ provider = [collector |-> "none", end |-> None]
    /\ active = [r \in Schemas |-> None]
    /\ tombstones = <<>> /\ spans = <<>>
    /\ import = None /\ imports = 0 /\ faults = 0

-----------------------------------------------------------------------------
(* The runtime.                                                            *)

\* start(): only an idle runtime starts; its state is what start() answers.
Started(r) ==
    IF r.state # "idle" THEN r
    ELSE IF config = "disabled" THEN [r EXCEPT !.state = "disabled"]
    ELSE [r EXCEPT !.state = IF config = "starts" THEN "started" ELSE "failed",
                   !.starts = @ + 1]

\* ensureServerOpenTelemetryRuntimeStarted(): the first result is kept.
Ensured(r) ==
    IF r.result # None THEN r
    ELSE [Started(r) EXCEPT !.result = Started(r).state]

\* A span of the server, of which nothing else matters here.
Ensure ==
    /\ import = None
    /\ runtime' = Ensured(runtime)
    /\ UNCHANGED <<config, provider, active, tombstones, spans, import, imports, faults>>

\* shutdown(), by a signal: the kept result stays.
Signal ==
    /\ import = None /\ runtime.result # None
    /\ runtime' = [runtime EXCEPT !.state = IF @ \in {"started", "idle"} THEN "shutdown" ELSE @]
    /\ UNCHANGED <<config, provider, active, tombstones, spans, import, imports, faults>>

\* shutdownServerOpenTelemetryRuntime() also forgets the result.
ShutDownServer ==
    /\ import = None /\ runtime.result # None
    /\ runtime' = [runtime EXCEPT !.result = None,
                     !.state = IF @ \in {"started", "idle"} THEN "shutdown" ELSE @]
    /\ UNCHANGED <<config, provider, active, tombstones, spans, import, imports, faults>>

\* shouldMemoizeOpenTelemetryRuntimeStartResult()
Terminal == {"failed", "shutdown", "disabled"}

-----------------------------------------------------------------------------
(* The collector.  A record is an event, a step or a summary of the import *)
(* under way.                                                              *)

Memory == [active |-> active, tombstones |-> tombstones, spans |-> spans, import |-> import]
Keep(m) == /\ active' = m.active /\ tombstones' = m.tombstones
           /\ spans' = m.spans /\ import' = m.import

Finalized(m) == m.import.run \in Range(m.tombstones)

\* A root span, and an entry in activeRuns, unless there are. Fault, if it is all there is:
\* a run that was finalized gets another one.
RootAgain(m, ok) ==
    IF m.active[m.import.run] # None \/ ~ok THEN m
    ELSE [m EXCEPT !.active[m.import.run] = Len(m.spans) + 1,
                   !.spans = Append(@, [run |-> m.import.run, steps |-> 0,
                                        status |-> "unset", ended |-> FALSE])]

\* The guards of the three handlers and getOrCreateRunState().
Root(m, ok) ==
    IF Finalized(m) THEN [m EXCEPT !.import.dropped = TRUE]
    ELSE RootAgain(m, ok)

\* recordStep(): a child span that cannot be started leaves nothing.
Child(m, ok) ==
    LET root == m.active[m.import.run]
    IN  IF root = None \/ Finalized(m) THEN m
        ELSE [m EXCEPT !.spans[root].steps = IF ok THEN @ + 1 ELSE @]

\* finalizeAndCleanupRun(): the oldest tombstone makes room.
Buried(m) ==
    LET order == Append(m.tombstones, m.import.run)
    IN  [m EXCEPT !.active[m.import.run] = None,
                  !.tombstones = IF Len(order) > MaxTombstones THEN Tail(order) ELSE order]

\* recordSummary(): the root span has its status and ends; one that cannot be ended is
\* forgotten all the same.
Summarized(m, ok) ==
    LET root == m.active[m.import.run]
    IN  IF root = None \/ Finalized(m) THEN m
        ELSE Buried([m EXCEPT
               !.spans[root].status = IF m.import.failed THEN "error" ELSE "ok",
               !.spans[root].ended = ok])

\* What the tracer's call does: it fails at most MaxFaults times.
Outcomes == IF import.collector = "otel" /\ faults < MaxFaults THEN BOOLEAN ELSE {TRUE}
Count(oks) == faults' = faults + (IF oks THEN 0 ELSE 1)

\* An import takes its collector: getCollector() keeps the tracer's for good, and asks the
\* runtime unless it has ended before.
Begin(s) ==
    /\ import = None /\ imports < MaxImports /\ imports' = imports + 1
    /\ LET asks == provider.collector # "otel" /\ provider.end = None
           made == IF provider.collector = "none" THEN Ensured(runtime) ELSE runtime
           r == IF asks THEN Started(made) ELSE made
           c == IF provider.collector = "otel" \/ (asks /\ r.state = "started")
                  THEN "otel" ELSE "noop"
       IN  /\ runtime' = r
           /\ provider' = [collector |-> c, end |->
                IF asks /\ r.state \in Terminal THEN r.state ELSE provider.end]
           /\ import' = [run |-> s, collector |-> c, next |-> 1, failed |-> FALSE,
                         over |-> FALSE, dropped |-> FALSE,
                         fresh |-> s \notin Range(tombstones), troubled |-> FALSE]
    /\ UNCHANGED <<config, active, tombstones, spans, faults>>

\* An error ends the steps.
MoreSteps == ~import.failed /\ import.next <= NSteps

\* The events around a step and its record, whether the step succeeds or not.
Step(failed, ok) ==
    /\ import # None /\ ~import.over /\ MoreSteps
    /\ ok \in Outcomes /\ Count(ok)
    /\ LET m == [Memory EXCEPT !.import.failed = failed, !.import.next = @ + 1,
                                    !.import.troubled = @ \/ ~ok]
       IN  \/ import.collector = "noop" /\ Keep(m)
           \/ import.collector = "otel" /\ Keep(Child(Root(m, TRUE), ok))
           \/ import.collector = "otel" /\ ~ok /\ Keep(Root(m, FALSE))
    /\ UNCHANGED <<config, runtime, provider, imports>>

\* emitFinalizeSummary(): the step of the summary, its event and the summary.
Summary(ok) ==
    /\ import # None /\ ~import.over /\ ~MoreSteps
    /\ ok \in Outcomes /\ Count(ok)
    /\ LET m == [Memory EXCEPT !.import.over = TRUE, !.import.troubled = @ \/ ~ok]
       IN  \/ import.collector = "noop" /\ Keep(m)
           \/ import.collector = "otel" /\ Keep(Summarized(Child(Root(m, TRUE), TRUE), ok))
           \/ import.collector = "otel" /\ ~ok /\ Keep(Summarized(Root(m, FALSE), TRUE))
    /\ UNCHANGED <<config, runtime, provider, imports>>

Return ==
    /\ import # None /\ import.over /\ import' = None
    /\ UNCHANGED <<config, runtime, provider, active, tombstones, spans, imports, faults>>

Next ==
    \/ Ensure \/ Signal \/ ShutDownServer
    \/ \E s \in Schemas : Begin(s)
    \/ \E failed, ok \in BOOLEAN : Step(failed, ok)
    \/ \E ok \in BOOLEAN : Summary(ok)
    \/ Return

Spec == Init /\ [][Next]_vars

-----------------------------------------------------------------------------

\* Between two imports no run is active and no root span is open, unless the tracer
\* could not end it; what is finalized is not active and is finalized once.
NoRunIsLeft ==
    /\ import = None => active = [r \in Schemas |-> None]
    /\ import = None /\ faults = 0 => \A i \in DOMAIN spans : spans[i].ended
    /\ \A r \in Range(tombstones) : active[r] = None
    /\ \A i, j \in DOMAIN tombstones : tombstones[i] = tombstones[j] => i = j
    /\ Len(tombstones) <= MaxTombstones

\* A second root span of a schema means that another schema's import took the place of
\* the first one's tombstone in between.
SecondSpanNeedsEviction ==
    \A i, j \in DOMAIN spans : i < j /\ spans[i].run = spans[j].run /\ MaxTombstones > 0 =>
      \E k \in i + 1 .. j - 1 : spans[k].run # spans[i].run

\* An import that begins without a tombstone of its run and with the tracer has a root
\* span, with all its steps and its own outcome, when it is over.
FreshImportsAreTraced ==
    import # None /\ import.over /\ import.collector = "otel" /\ import.fresh
      /\ ~import.troubled =>
        /\ ~import.dropped
        /\ LET span == spans[Len(spans)]
           IN  /\ span.run = import.run /\ span.ended /\ span.steps = import.next
               /\ span.status = IF import.failed THEN "error" ELSE "ok"

\* The SDK is started at most once, whatever is shut down, started again or memoized,
\* and a collector of the tracer is only made by a runtime that has started.
SdkStartsOnce ==
    /\ runtime.starts <= 1
    /\ provider.collector = "otel" => runtime.starts = 1 /\ config = "starts"
=============================================================================
