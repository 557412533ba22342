--------------------------- MODULE MCServer_proofs ---------------------------
(***************************************************************************)
(* Proofs about the traces of imports and the events of the creation       *)
(* assistant, for any schemas, events, failures and bounds.                *)
(***************************************************************************)
EXTENDS MCServer, FiniteSetTheorems, SequenceTheorems, TLAPS

-----------------------------------------------------------------------------
(* Sequences. *)

\* Replacing the entry just appended appends the replacement.
LEMMA AppendReplaced ==
    ASSUME NEW S, NEW s \in Seq(S), NEW a \in S, NEW b \in S
    PROVE  [Append(s, a) EXCEPT ![Len(s) + 1] = b] = Append(s, b)
<1>1. /\ Append(s, a) \in Seq(S) /\ Len(Append(s, a)) = Len(s) + 1 /\ Len(s) \in Nat
      /\ \A i \in 1 .. Len(s) : Append(s, a)[i] = s[i]
  BY AppendProperties, LenProperties
<1>2. /\ Append(s, b) \in Seq(S) /\ Len(Append(s, b)) = Len(s) + 1
      /\ \A i \in 1 .. Len(s) : Append(s, b)[i] = s[i]
      /\ Append(s, b)[Len(s) + 1] = b
  BY AppendProperties
<1>3. PICK t : t = Append(s, a)
  OBVIOUS
<1>4. Len(s) + 1 \in 1 .. Len(t) /\ t \in Seq(S)
  BY <1>1, <1>3
<1>5. PICK u : u = [t EXCEPT ![Len(s) + 1] = b]
  OBVIOUS
<1>6. /\ u \in Seq(S) /\ Len(u) = Len(t)
      /\ \A j \in 1 .. Len(t) : u[j] = IF j = Len(s) + 1 THEN b ELSE t[j]
  BY <1>4, <1>5, ExceptSeq
<1>7. \A j \in 1 .. Len(u) : u[j] = Append(s, b)[j]
  BY <1>1, <1>2, <1>3, <1>6
<1>8. u = Append(s, b)
  BY <1>1, <1>2, <1>3, <1>6, <1>7, SeqEqual
<1> QED
  BY <1>3, <1>5, <1>8

-----------------------------------------------------------------------------
(* Traces of imports. *)

\* The SDK is started by an idle runtime only, and the tracer's collector needs it.
SdkShape(r) ==
    /\ r.state = "idle" => r.starts = 0
    /\ r.state = "started" => r.starts = 1 /\ config = "starts"

SdkInv ==
    /\ SdkShape(runtime)
    /\ provider.collector = "otel" => runtime.starts = 1 /\ config = "starts"

Handling == import # None /\ ~import.over

\* The only root span that is open belongs to the import under way and is the last one.
RootInv ==
    \A r \in Schemas : active[r] # None =>
      /\ Handling /\ import.run = r /\ import.collector = "otel"
      /\ Len(spans) > 0 /\ active[r] = Len(spans) /\ spans[Len(spans)].run = r
      /\ spans[Len(spans)].steps < import.next
      /\ r \notin Imports!Range(tombstones)

\* Every import starts one root span at most.
SpansInv ==
    /\ Len(spans) <= imports
    /\ Handling /\ active[import.run] = None => Len(spans) < imports

\* Without a failing tracer every root span but the open one has ended.
EndInv ==
    faults = 0 => \A i \in DOMAIN spans :
      spans[i].ended \/ (import # None /\ active[import.run] = i)

\* A run has one tombstone at most, and the newest is of the last root span, if that
\* has been forgotten; so the next root span is of another run.
TombInv ==
    /\ \A i, j \in DOMAIN tombstones : tombstones[i] = tombstones[j] => i = j
    /\ Len(tombstones) <= MaxTombstones
    /\ MaxTombstones > 0 /\ Len(spans) > 0 /\ (\A r \in Schemas : active[r] = None) =>
         Len(tombstones) > 0 /\ tombstones[Len(tombstones)] = spans[Len(spans)].run
    /\ MaxTombstones > 0 => \A j \in 2 .. Len(spans) : spans[j].run # spans[j - 1].run

\* The trace of a fresh import has the steps that are over.
TraceInv ==
    Handling =>
      /\ (import.fresh <=> import.run \notin Imports!Range(tombstones))
      /\ import.collector = "otel" /\ import.fresh /\ ~import.troubled =>
           /\ ~import.dropped
           /\ IF import.next = 1 THEN active[import.run] = None
              ELSE /\ active[import.run] # None
                   /\ spans[Len(spans)].steps = import.next - 1

ImportsInv ==
    /\ Imports!TypeOK /\ SdkInv /\ RootInv /\ SpansInv /\ EndInv /\ TombInv /\ TraceInv
    /\ Imports!FreshImportsAreTraced

-----------------------------------------------------------------------------
(* The runtime. *)

RuntimeState == [state : Imports!States, result : Imports!States \cup {None}, starts : 0 .. 1]

\* start() of an idle runtime, or nothing.
LEMMA StartedShape ==
    ASSUME NEW r \in RuntimeState, SdkShape(r), config \in {"starts", "fails", "disabled"}
    PROVE  /\ Imports!Started(r) \in RuntimeState /\ SdkShape(Imports!Started(r))
           /\ Imports!Started(r).starts >= r.starts
<1>1. CASE r.state # "idle"
  BY <1>1 DEF Imports!Started, RuntimeState
<1>2. CASE r.state = "idle" /\ config = "disabled"
  BY <1>2 DEF Imports!Started, RuntimeState, SdkShape, Imports!States
<1>3. CASE r.state = "idle" /\ config # "disabled"
  <2>1. r.starts = 0
    BY <1>3 DEF SdkShape
  <2>2. PICK s : s = IF config = "starts" THEN "started" ELSE "failed"
    OBVIOUS
  <2>3. Imports!Started(r) = [r EXCEPT !.state = s, !.starts = 1]
    BY <1>3, <2>1, <2>2 DEF Imports!Started, RuntimeState
  <2>4. s \in Imports!States /\ s # "idle" /\ (s = "started" => config = "starts")
    BY <2>2 DEF Imports!States
  <2>5. PICK t : t = Imports!Started(r)
    OBVIOUS
  <2>6. t = [r EXCEPT !.state = s, !.starts = 1]
    BY <2>3, <2>5
  <2>7. t \in RuntimeState
    <3>1. t = [state |-> s, result |-> r.result, starts |-> 1]
      BY <2>6 DEF RuntimeState
    <3>2. r.result \in Imports!States \cup {None} /\ 1 \in 0 .. 1
      BY DEF RuntimeState
    <3> QED
      BY <2>4, <3>1, <3>2 DEF RuntimeState
  <2>8. t.state = s /\ t.starts = 1
    BY <2>6 DEF RuntimeState
  <2> QED
    BY <2>1, <2>4, <2>5, <2>7, <2>8 DEF SdkShape
<1> QED
  BY <1>1, <1>2, <1>3

\* ensureServerOpenTelemetryRuntimeStarted() remembers the first result.
LEMMA EnsuredShape ==
    ASSUME NEW r \in RuntimeState, SdkShape(r), config \in {"starts", "fails", "disabled"}
    PROVE  /\ Imports!Ensured(r) \in RuntimeState /\ SdkShape(Imports!Ensured(r))
           /\ Imports!Ensured(r).starts >= r.starts
<1>1. CASE r.result # None
  BY <1>1 DEF Imports!Ensured, RuntimeState
<1>2. CASE r.result = None
  <2>1. PICK s : s = Imports!Started(r)
    OBVIOUS
  <2>2. s \in RuntimeState /\ SdkShape(s) /\ s.starts >= r.starts
    BY <2>1, StartedShape
  <2>3. Imports!Ensured(r) = [s EXCEPT !.result = s.state]
    BY <1>2, <2>1 DEF Imports!Ensured
  <2> QED
    BY <2>2, <2>3 DEF RuntimeState, SdkShape
<1> QED
  BY <1>1, <1>2

\* A step of the runtime alone.
LEMMA RuntimeStep ==
    ASSUME ImportsInv, runtime' \in RuntimeState, SdkShape(runtime'),
           runtime'.starts >= runtime.starts,
           UNCHANGED <<config, provider, active, tombstones, spans, import, imports, faults>>
    PROVE  ImportsInv'
<1>1. Imports!TypeOK'
  BY DEF ImportsInv, Imports!TypeOK, RuntimeState
<1>2. SdkInv'
  BY <1>1 DEF ImportsInv, SdkInv, SdkShape, Imports!TypeOK
<1>3. /\ RootInv' /\ SpansInv' /\ EndInv' /\ TombInv' /\ TraceInv'
      /\ Imports!FreshImportsAreTraced'
  BY DEF ImportsInv, RootInv, SpansInv, EndInv, TombInv, TraceInv, Handling,
         Imports!Range, Imports!FreshImportsAreTraced
<1> QED
  BY <1>1, <1>2, <1>3 DEF ImportsInv

\* A span of the server starts the runtime.
LEMMA EnsureInv == ASSUME ImportsInv, Imports!Ensure PROVE ImportsInv'
<1>1. runtime \in RuntimeState /\ SdkShape(runtime) /\ config \in {"starts", "fails", "disabled"}
  BY DEF ImportsInv, Imports!TypeOK, RuntimeState, SdkInv
<1> QED
  BY <1>1, EnsuredShape, RuntimeStep DEF Imports!Ensure

\* Signals and shutdowns only end the runtime.
LEMMA ShutdownInv ==
    ASSUME ImportsInv, Imports!Signal \/ Imports!ShutDownServer
    PROVE  ImportsInv'
<1>1. runtime \in RuntimeState /\ SdkShape(runtime)
  BY DEF ImportsInv, Imports!TypeOK, RuntimeState, SdkInv
<1>2. PICK s : s = IF runtime.state \in {"started", "idle"} THEN "shutdown" ELSE runtime.state
  OBVIOUS
<1>3. s \in Imports!States /\ s # "idle" /\ s # "started"
  BY <1>1, <1>2 DEF RuntimeState, Imports!States
<1>4. PICK t \in Imports!States \cup {None} : runtime' = [runtime EXCEPT !.state = s, !.result = t]
  <2>1. CASE Imports!Signal
    <3>1. runtime' = [runtime EXCEPT !.state = s, !.result = runtime.result]
      BY <1>1, <1>2, <2>1 DEF Imports!Signal, RuntimeState
    <3> QED
      BY <1>1, <3>1 DEF RuntimeState
  <2>2. CASE Imports!ShutDownServer
    <3>1. runtime' = [runtime EXCEPT !.state = s, !.result = None]
      BY <1>1, <1>2, <2>2 DEF Imports!ShutDownServer, RuntimeState
    <3> QED
      BY <3>1
  <2> QED
    BY <2>1, <2>2
<1>5. PICK n : n = runtime'
  OBVIOUS
<1>6. n = [runtime EXCEPT !.state = s, !.result = t]
  BY <1>4, <1>5
<1>7. n \in RuntimeState /\ n.starts = runtime.starts /\ n.state = s
  BY <1>1, <1>3, <1>6 DEF RuntimeState
<1>8. SdkShape(n)
  BY <1>3, <1>7 DEF SdkShape
<1>9. n.starts >= runtime.starts
  BY <1>1, <1>7 DEF RuntimeState
<1> QED
  BY <1>5, <1>7, <1>8, <1>9, RuntimeStep DEF Imports!Signal, Imports!ShutDownServer

-----------------------------------------------------------------------------
(* The imports. *)

\* Between two imports nothing is active.
LEMMA NothingActive ==
    ASSUME ImportsInv, ~Handling
    PROVE  \A r \in Schemas : active[r] = None
BY DEF ImportsInv, RootInv

\* An import takes its collector; the runtime may start, nothing is traced yet.
LEMMA BeginInv == ASSUME ImportsInv, NEW s \in Schemas, Imports!Begin(s) PROVE ImportsInv'
<1>1. /\ runtime \in RuntimeState /\ SdkShape(runtime)
      /\ config \in {"starts", "fails", "disabled"}
  BY DEF ImportsInv, Imports!TypeOK, RuntimeState, SdkInv
<1>2. PICK asks : asks = (provider.collector # "otel" /\ provider.end = None)
  OBVIOUS
<1>3. PICK made : made = IF provider.collector = "none" THEN Imports!Ensured(runtime)
                         ELSE runtime
  OBVIOUS
<1>4. PICK r : r = IF asks THEN Imports!Started(made) ELSE made
  OBVIOUS
<1>5. PICK c : c = IF provider.collector = "otel" \/ (asks /\ r.state = "started")
                     THEN "otel" ELSE "noop"
  OBVIOUS
<1>6. PICK im : im = [run |-> s, collector |-> c, next |-> 1, failed |-> FALSE,
                      over |-> FALSE, dropped |-> FALSE,
                      fresh |-> s \notin Imports!Range(tombstones), troubled |-> FALSE]
  OBVIOUS
<1>7. /\ import = None /\ imports < MaxImports /\ imports' = imports + 1
      /\ runtime' = r
      /\ provider' = [collector |-> c, end |->
           IF asks /\ r.state \in Imports!Terminal THEN r.state ELSE provider.end]
      /\ import' = im
      /\ UNCHANGED <<config, active, tombstones, spans, faults>>
  BY <1>2, <1>3, <1>4, <1>5, <1>6 DEF Imports!Begin
<1>8. made \in RuntimeState /\ SdkShape(made) /\ made.starts >= runtime.starts
  BY <1>1, <1>3, EnsuredShape DEF RuntimeState
<1>9. r \in RuntimeState /\ SdkShape(r) /\ r.starts >= runtime.starts
  <2>1. CASE asks
    <3>1. Imports!Started(made) \in RuntimeState /\ SdkShape(Imports!Started(made))
          /\ Imports!Started(made).starts >= made.starts
      BY <1>1, <1>8, StartedShape
    <3>2. r = Imports!Started(made)
      BY <1>4, <2>1
    <3> QED
      BY <1>1, <1>8, <3>1, <3>2 DEF RuntimeState
  <2>2. CASE ~asks
    BY <1>4, <1>8, <2>2
  <2> QED
    BY <2>1, <2>2
<1>10. c \in {"otel", "noop"} /\ (c = "otel" => provider.collector = "otel" \/ r.state = "started")
  BY <1>5
<1>11. 1 \in 1 .. NSteps + 1
  BY ImportsAssumption DEF Imports!ConstantsAssumption
<1>12. im \in Imports!Import
  BY <1>6, <1>10, <1>11 DEF Imports!Import
<1>13. import' # None /\ im # None
  BY <1>7, <1>12, ImportsAssumption DEF Imports!ConstantsAssumption
<1>14. imports' \in 0 .. MaxImports
  BY <1>7, ImportsAssumption DEF Imports!ConstantsAssumption, ImportsInv, Imports!TypeOK
<1>15. provider' \in [collector : {"none", "otel", "noop"}, end : Imports!States \cup {None}]
  BY <1>7, <1>9, <1>10 DEF ImportsInv, Imports!TypeOK, RuntimeState
<1>16. Imports!TypeOK'
  BY <1>7, <1>9, <1>12, <1>14, <1>15 DEF ImportsInv, Imports!TypeOK, RuntimeState
<1>17. SdkInv'
  <2>1. SdkShape(runtime)'
    BY <1>7, <1>9 DEF SdkShape
  <2>2. provider'.collector = "otel" => runtime'.starts = 1 /\ config' = "starts"
    BY <1>1, <1>7, <1>9, <1>10 DEF ImportsInv, SdkInv, SdkShape, RuntimeState
  <2> QED
    BY <2>1, <2>2 DEF SdkInv
<1>18. \A t \in Schemas : active[t] = None
  BY <1>7, NothingActive DEF Handling
<1>19. RootInv'
  BY <1>7, <1>18 DEF RootInv
<1>20. SpansInv'
  BY <1>7, ImportsAssumption
     DEF Imports!ConstantsAssumption, ImportsInv, Imports!TypeOK, SpansInv
<1>21. EndInv'
  BY <1>7 DEF ImportsInv, EndInv
<1>22. TombInv'
  BY <1>7 DEF ImportsInv, TombInv
<1>23. TraceInv'
  <2>1. im.run = s /\ im.next = 1 /\ ~im.dropped
        /\ (im.fresh <=> s \notin Imports!Range(tombstones))
    BY <1>6
  <2> QED
    BY <1>7, <1>18, <2>1 DEF TraceInv, Imports!Range
<1>24. Imports!FreshImportsAreTraced'
  BY <1>6, <1>7 DEF Imports!FreshImportsAreTraced
<1> QED
  BY <1>16, <1>17, <1>19, <1>20, <1>21, <1>22, <1>23, <1>24 DEF ImportsInv

\* An import that is over leaves nothing behind.
LEMMA ReturnInv == ASSUME ImportsInv, Imports!Return PROVE ImportsInv'
<1>1. /\ import # None /\ import.over /\ import' = None
      /\ UNCHANGED <<config, runtime, provider, active, tombstones, spans, imports, faults>>
  BY DEF Imports!Return
<1>2. \A r \in Schemas : active[r] = None
  BY <1>1, NothingActive DEF Handling
<1>3. Imports!TypeOK' /\ SdkInv'
  BY <1>1 DEF ImportsInv, Imports!TypeOK, SdkInv, SdkShape
<1>4. RootInv' /\ SpansInv' /\ TombInv' /\ TraceInv'
  BY <1>1, <1>2 DEF ImportsInv, RootInv, SpansInv, TombInv, TraceInv, Handling
<1>5. EndInv'
  <2>1. ASSUME faults = 0, NEW i \in DOMAIN spans PROVE spans[i].ended
    <3>1. import.run \in Schemas
      BY <1>1 DEF ImportsInv, Imports!TypeOK, Imports!Import
    <3>2. i \in Nat
      BY DEF ImportsInv, Imports!TypeOK
    <3>3. active[import.run] # i
      BY <1>2, <3>1, <3>2, NoneAssumption
    <3> QED
      BY <2>1, <3>3 DEF ImportsInv, EndInv
  <2> QED
    BY <1>1, <2>1 DEF EndInv
<1>6. Imports!FreshImportsAreTraced'
  BY <1>1 DEF Imports!FreshImportsAreTraced
<1> QED
  BY <1>3, <1>4, <1>5, <1>6 DEF ImportsInv

\* The import under way, its run and what is active.
LEMMA HandlingFacts ==
    ASSUME ImportsInv, import # None, ~import.over
    PROVE  /\ import \in Imports!Import /\ import.run \in Schemas
           /\ import.next \in 1 .. NSteps + 1 /\ NSteps \in Nat /\ MaxImports \in Nat
           /\ Handling
           /\ spans \in Seq(Imports!Span) /\ active \in [Schemas -> Imports!SpanIds \cup {None}]
           /\ tombstones \in Seq(Schemas) /\ imports \in 0 .. MaxImports
           /\ Len(spans) \in Nat
           /\ \A r \in Schemas : r # import.run => active[r] = None
           /\ active[import.run] # None =>
                /\ Len(spans) > 0 /\ active[import.run] = Len(spans)
                /\ import.collector = "otel"
                /\ spans[Len(spans)] \in Imports!Span /\ spans[Len(spans)].run = import.run
                /\ spans[Len(spans)].steps < import.next
                /\ import.run \notin Imports!Range(tombstones)
           /\ active[import.run] = None => Len(spans) < imports
<1>1. /\ import \in Imports!Import /\ spans \in Seq(Imports!Span)
      /\ active \in [Schemas -> Imports!SpanIds \cup {None}]
      /\ tombstones \in Seq(Schemas) /\ imports \in 0 .. MaxImports
  BY DEF ImportsInv, Imports!TypeOK
<1>2. import.run \in Schemas /\ import.next \in 1 .. NSteps + 1
  BY <1>1 DEF Imports!Import
<1>3. NSteps \in Nat /\ MaxImports \in Nat
  BY ImportsAssumption DEF Imports!ConstantsAssumption
<1>4. Handling
  BY DEF Handling
<1>5. \A r \in Schemas : active[r] # None =>
        /\ import.run = r /\ import.collector = "otel"
        /\ Len(spans) > 0 /\ active[r] = Len(spans) /\ spans[Len(spans)].run = r
        /\ spans[Len(spans)].steps < import.next
        /\ r \notin Imports!Range(tombstones)
  BY DEF ImportsInv, RootInv
<1>6. Len(spans) \in Nat /\ (Len(spans) > 0 => spans[Len(spans)] \in Imports!Span)
  BY <1>1
<1>7. active[import.run] = None => Len(spans) < imports
  BY <1>4 DEF ImportsInv, SpansInv
<1> QED
  BY <1>1, <1>2, <1>3, <1>4, <1>5, <1>6, <1>7

\* What a step leaves in the import: what its event and its record do to the spans.
StepOutcome(ok, im) ==
    /\ im \in Imports!Import
    /\ im.run = import.run /\ im.collector = import.collector
    /\ im.next = import.next + 1 /\ ~im.over /\ (im.fresh <=> import.fresh)
    /\ ~im.troubled => ~import.troubled /\ ok
    /\ im.dropped => import.dropped \/ import.run \in Imports!Range(tombstones)
    /\ import' = im /\ tombstones' = tombstones
    /\ \/ /\ active' = active /\ spans' = spans
          /\ im.collector = "otel" => ~ok \/ import.run \in Imports!Range(tombstones)
       \/ /\ active' = active /\ active[import.run] # None
          /\ ok /\ spans' = [spans EXCEPT ![Len(spans)] =
                                [spans[Len(spans)] EXCEPT !.steps = @ + 1]]
       \/ /\ active[import.run] = None /\ import.run \notin Imports!Range(tombstones)
          /\ import.collector = "otel"
          /\ active' = [active EXCEPT ![import.run] = Len(spans) + 1]
          /\ spans' = Append(spans, [run |-> import.run, steps |-> IF ok THEN 1 ELSE 0,
                                     status |-> "unset", ended |-> FALSE])

\* Step() has such an outcome, whichever calls of the tracer fail.
LEMMA StepIsAnOutcome ==
    ASSUME ImportsInv, NEW failed \in BOOLEAN, NEW ok \in BOOLEAN, Imports!Step(failed, ok)
    PROVE  \E im : StepOutcome(ok, im)
<1>1. /\ import # None /\ ~import.over /\ Imports!MoreSteps
  BY DEF Imports!Step
<1>2. PICK run : run = import.run
  OBVIOUS
<1>3. PICK trouble \in BOOLEAN : trouble = (import.troubled \/ ~ok)
  OBVIOUS
<1>4. /\ import \in Imports!Import /\ run \in Schemas /\ import.next \in 1 .. NSteps
      /\ NSteps \in Nat /\ import.next + 1 \in 1 .. NSteps + 1
  BY <1>1, <1>2, HandlingFacts DEF Imports!MoreSteps
<1>17. PICK im : im = [import EXCEPT !.failed = failed, !.next = import.next + 1,
                                     !.troubled = trouble]
  OBVIOUS
<1>5. /\ im \in Imports!Import
      /\ im.run = run /\ im.collector = import.collector
      /\ im.next = import.next + 1 /\ ~im.over /\ (im.fresh <=> import.fresh)
      /\ (im.dropped <=> import.dropped)
  <2>1. /\ im.over = import.over /\ im.fresh = import.fresh /\ im.dropped = import.dropped
        /\ im.run = import.run /\ im.collector = import.collector
        /\ im.next = import.next + 1
    BY <1>4, <1>17 DEF Imports!Import
  <2>2. im \in Imports!Import
    BY <1>4, <1>17 DEF Imports!Import
  <2> QED
    BY <1>1, <1>2, <2>1, <2>2
<1>6. ~im.troubled => ~import.troubled /\ ok
  <2>1. im.troubled = trouble
    BY <1>4, <1>17 DEF Imports!Import
  <2> QED
    BY <1>3, <2>1
<1>7. PICK m : m = [active |-> active, tombstones |-> tombstones, spans |-> spans, import |-> im]
  OBVIOUS
<1>8. /\ m.active = active /\ m.tombstones = tombstones /\ m.spans = spans /\ m.import = im
  BY <1>7
<1>9. [Imports!Memory EXCEPT !.import.failed = failed, !.import.next = @ + 1,
                             !.import.troubled = @ \/ ~ok] = m
  <2>1. PICK a : a = [import EXCEPT !.failed = failed]
    OBVIOUS
  <2>2. PICK b : b = [a EXCEPT !.next = a.next + 1]
    OBVIOUS
  <2>3. PICK M1 : M1 = [Imports!Memory EXCEPT !.import = a]
    OBVIOUS
  <2>4. PICK M2 : M2 = [M1 EXCEPT !.import = b]
    OBVIOUS
  <2>5. a.next = import.next /\ b.troubled = import.troubled
    BY <1>4, <2>1, <2>2 DEF Imports!Import
  <2>6. im = [b EXCEPT !.troubled = b.troubled \/ ~ok]
    BY <1>3, <1>17, <2>1, <2>2, <2>5
  <2>7. Imports!Memory.import = import /\ M1.import = a /\ M2.import = b
    BY <2>3, <2>4 DEF Imports!Memory
  <2>8. m = [M2 EXCEPT !.import = im]
    <3>1. M1 = [active |-> active, tombstones |-> tombstones, spans |-> spans, import |-> a]
      BY <2>3 DEF Imports!Memory
    <3>2. M2 = [active |-> active, tombstones |-> tombstones, spans |-> spans, import |-> b]
      BY <2>4, <3>1
    <3> QED
      BY <1>7, <3>2
  <2>9. [Imports!Memory EXCEPT !.import.failed = failed] = M1
    BY <2>1, <2>3, <2>7
  <2>10. [M1 EXCEPT !.import.next = @ + 1] = M2
    BY <2>2, <2>4, <2>7
  <2>11. [M2 EXCEPT !.import.troubled = @ \/ ~ok] = m
    BY <2>6, <2>7, <2>8
  <2> QED
    BY <2>9, <2>10, <2>11
<1>10. \/ import.collector = "noop" /\ Imports!Keep(m)
       \/ import.collector = "otel" /\ Imports!Keep(Imports!Child(Imports!Root(m, TRUE), ok))
       \/ import.collector = "otel" /\ ~ok /\ Imports!Keep(Imports!Root(m, FALSE))
  BY <1>9 DEF Imports!Step
<1>11. Imports!Finalized(m) <=> run \in Imports!Range(tombstones)
  BY <1>5, <1>8 DEF Imports!Finalized
<1>12. CASE import.collector = "noop" /\ Imports!Keep(m)
  BY <1>2, <1>5, <1>6, <1>8, <1>12 DEF StepOutcome, Imports!Keep
<1>13. CASE import.collector = "otel" /\ run \in Imports!Range(tombstones)
  <2>1. PICK d : d = [im EXCEPT !.dropped = TRUE]
    OBVIOUS
  <2>2. PICK n : n = [m EXCEPT !.import = d]
    OBVIOUS
  <2>3. /\ n.active = active /\ n.tombstones = tombstones /\ n.spans = spans
        /\ n.import = d /\ d.run = run
    BY <1>5, <1>7, <2>1, <2>2 DEF Imports!Import
  <2>4. \A b \in BOOLEAN : Imports!Root(m, b) = n
    BY <1>8, <1>11, <1>13, <2>1, <2>2 DEF Imports!Root
  <2>5. Imports!Child(n, ok) = n
    BY <1>13, <2>3 DEF Imports!Child, Imports!Finalized
  <2>6. Imports!Keep(n)
    BY <1>10, <1>13, <2>4, <2>5
  <2>7. /\ d \in Imports!Import /\ d.collector = im.collector /\ d.next = im.next
        /\ ~d.over /\ (d.fresh <=> im.fresh) /\ (d.troubled <=> im.troubled)
    BY <1>5, <2>1 DEF Imports!Import
  <2>8. StepOutcome(ok, d)
    BY <1>2, <1>5, <1>6, <1>13, <2>3, <2>6, <2>7 DEF StepOutcome, Imports!Keep
  <2> QED
    BY <2>8
<1>14. CASE import.collector = "otel" /\ run \notin Imports!Range(tombstones)
            /\ active[run] # None
  <2>1. \A b \in BOOLEAN : Imports!Root(m, b) = m
    BY <1>5, <1>8, <1>11, <1>14 DEF Imports!Root, Imports!RootAgain
  <2>2. CASE ~ok
    <3>1. Imports!Child(m, ok) = m
      <4>2. /\ active[run] = Len(spans) /\ Len(spans) > 0 /\ spans \in Seq(Imports!Span)
            /\ spans[Len(spans)] \in Imports!Span
        BY <1>1, <1>2, <1>14, HandlingFacts
      <4>3. [spans[Len(spans)] EXCEPT !.steps = @] = spans[Len(spans)]
        BY <4>2 DEF Imports!Span
      <4>1. [spans EXCEPT ![active[run]] = [spans[active[run]] EXCEPT !.steps = @]] = spans
        BY <4>2, <4>3
      <4> QED
        BY <1>5, <1>7, <1>8, <1>11, <1>14, <2>2, <4>1 DEF Imports!Child
    <3>2. Imports!Keep(m)
      BY <1>10, <1>14, <2>1, <3>1
    <3> QED
      BY <1>2, <1>5, <1>6, <1>8, <2>2, <3>2 DEF StepOutcome, Imports!Keep
  <2>3. CASE ok
    <3>1. active[run] = Len(spans)
      BY <1>1, <1>2, <1>14, HandlingFacts
    <3>2. Imports!Keep(Imports!Child(m, ok))
      BY <1>10, <1>14, <2>1, <2>3
    <3>3. PICK n : n = Imports!Child(m, ok)
      OBVIOUS
    <3>4. n = [m EXCEPT !.spans = [spans EXCEPT ![Len(spans)] =
                                     [spans[Len(spans)] EXCEPT !.steps = @ + 1]]]
      BY <1>5, <1>7, <1>8, <1>11, <1>14, <2>3, <3>1, <3>3 DEF Imports!Child
    <3>5. /\ n.active = active /\ n.tombstones = tombstones /\ n.import = im
          /\ n.spans = [spans EXCEPT ![Len(spans)] =
                          [spans[Len(spans)] EXCEPT !.steps = @ + 1]]
      BY <1>7, <3>4
    <3>6. Imports!Keep(n)
      BY <3>2, <3>3
    <3> QED
      BY <1>2, <1>5, <1>6, <1>14, <2>3, <3>5, <3>6 DEF StepOutcome, Imports!Keep
  <2> QED
    BY <2>2, <2>3
<1>15. CASE import.collector = "otel" /\ run \notin Imports!Range(tombstones)
            /\ active[run] = None
  <2>1. CASE Imports!Keep(Imports!Root(m, FALSE)) /\ ~ok
    <3>1. Imports!Root(m, FALSE) = m
      BY <1>8, <1>11, <1>15 DEF Imports!Root, Imports!RootAgain
    <3> QED
      BY <1>2, <1>5, <1>6, <1>8, <2>1, <3>1 DEF StepOutcome, Imports!Keep
  <2>2. CASE Imports!Keep(Imports!Child(Imports!Root(m, TRUE), ok))
    <3>1. PICK span : span = [run |-> run, steps |-> 0, status |-> "unset", ended |-> FALSE]
      OBVIOUS
    <3>2. PICK n : n = Imports!Root(m, TRUE)
      OBVIOUS
    <3>3. n = [m EXCEPT !.active = [active EXCEPT ![run] = Len(spans) + 1],
                        !.spans = Append(spans, span)]
      BY <1>5, <1>7, <1>8, <1>11, <1>15, <3>1, <3>2 DEF Imports!Root, Imports!RootAgain
    <3>4. /\ n.active = [active EXCEPT ![run] = Len(spans) + 1]
          /\ n.tombstones = tombstones /\ n.import = im /\ n.spans = Append(spans, span)
      BY <1>7, <3>3
    <3>5. n.active[run] = Len(spans) + 1 /\ Len(spans) + 1 # None
      BY <1>1, <1>2, <1>4, <3>4, HandlingFacts, NoneAssumption
    <3>6. PICK longer : longer = [span EXCEPT !.steps = IF ok THEN 1 ELSE 0]
      OBVIOUS
    <3>7. [Append(spans, span) EXCEPT ![Len(spans) + 1] = longer] = Append(spans, longer)
      <4>3. PICK one \in {0, 1} : one = IF ok THEN 1 ELSE 0
        OBVIOUS
      <4>4. longer = [run |-> run, steps |-> one, status |-> "unset", ended |-> FALSE]
        BY <3>1, <3>6, <4>3
      <4>5. 0 \in 0 .. NSteps + 1 /\ one \in 0 .. NSteps + 1
        BY <1>4, <4>3
      <4>1. span \in Imports!Span /\ longer \in Imports!Span
        BY <1>4, <3>1, <4>4, <4>5 DEF Imports!Span
      <4>2. spans \in Seq(Imports!Span)
        BY <1>1, HandlingFacts
      <4> QED
        BY <4>1, <4>2, AppendReplaced
    <3>8. PICK k : k = Imports!Child(n, ok)
      OBVIOUS
    <3>9. k = [n EXCEPT !.spans = Append(spans, longer)]
      <4>1. ~Imports!Finalized(n)
        BY <1>5, <1>15, <3>4 DEF Imports!Finalized
      <4>2. n.spans[Len(spans) + 1] = span
        BY <1>1, <3>4, HandlingFacts
      <4>3. k = [n EXCEPT !.spans[Len(spans) + 1].steps = IF ok THEN @ + 1 ELSE @]
        BY <1>5, <3>4, <3>5, <3>8, <4>1 DEF Imports!Child
      <4>4. [span EXCEPT !.steps = IF ok THEN @ + 1 ELSE @] = longer
        BY <3>1, <3>6
      <4> QED
        BY <3>4, <3>7, <4>2, <4>3, <4>4
    <3>10. /\ k.active = n.active /\ k.tombstones = tombstones /\ k.import = im
           /\ k.spans = Append(spans, longer)
      BY <1>7, <3>3, <3>9
    <3>11. longer = [run |-> run, steps |-> IF ok THEN 1 ELSE 0,
                     status |-> "unset", ended |-> FALSE]
      BY <3>1, <3>6
    <3>12. Imports!Keep(k)
      BY <2>2, <3>2, <3>8
    <3> QED
      BY <1>2, <1>5, <1>6, <1>15, <3>4, <3>10, <3>11, <3>12 DEF StepOutcome, Imports!Keep
  <2> QED
    BY <1>10, <1>15, <2>1, <2>2
<1>16. import.collector \in {"otel", "noop"}
  BY <1>4 DEF Imports!Import
<1> QED
  BY <1>10, <1>12, <1>13, <1>14, <1>15, <1>16

\* A failing call of the tracer counts.
LEMMA FaultsCount ==
    ASSUME ImportsInv, NEW ok \in BOOLEAN, ok \in Imports!Outcomes, Imports!Count(ok)
    PROVE  /\ faults' \in 0 .. MaxFaults /\ faults \in Nat
           /\ faults' = 0 => faults = 0 /\ ok
<1>1. faults \in 0 .. MaxFaults /\ MaxFaults \in Nat
  BY ImportsAssumption DEF Imports!ConstantsAssumption, ImportsInv, Imports!TypeOK
<1>2. CASE ok
  BY <1>1, <1>2 DEF Imports!Count
<1>3. CASE ~ok
  <2>1. faults < MaxFaults
    BY <1>3 DEF Imports!Outcomes
  <2> QED
    BY <1>1, <1>3, <2>1 DEF Imports!Count
<1> QED
  BY <1>2, <1>3

\* A step of an import and its record.
LEMMA StepInv ==
    ASSUME ImportsInv, NEW failed \in BOOLEAN, NEW ok \in BOOLEAN, Imports!Step(failed, ok)
    PROVE  ImportsInv'
<1>1. /\ import # None /\ ~import.over /\ Imports!MoreSteps
      /\ UNCHANGED <<config, runtime, provider, imports>>
      /\ ok \in Imports!Outcomes /\ Imports!Count(ok)
  BY DEF Imports!Step
<1>2. PICK im : StepOutcome(ok, im)
  BY StepIsAnOutcome
<1>3. PICK run : run = import.run
  OBVIOUS
<1>4. PICK last : last = Len(spans)
  OBVIOUS
<1>5. /\ im \in Imports!Import /\ im # None /\ import' = im /\ tombstones' = tombstones
      /\ im.run = run /\ im.collector = import.collector /\ im.next = import.next + 1
      /\ ~im.over /\ (im.fresh <=> import.fresh)
      /\ (~im.troubled => ~import.troubled /\ ok)
      /\ (im.dropped => import.dropped \/ run \in Imports!Range(tombstones))
  BY <1>2, <1>3, ImportsAssumption DEF StepOutcome, Imports!ConstantsAssumption
<1>6. /\ import \in Imports!Import /\ run \in Schemas /\ Handling
      /\ import.next \in 1 .. NSteps /\ NSteps \in Nat /\ MaxImports \in Nat
      /\ spans \in Seq(Imports!Span) /\ active \in [Schemas -> Imports!SpanIds \cup {None}]
      /\ tombstones \in Seq(Schemas) /\ imports \in 0 .. MaxImports /\ last \in Nat
      /\ \A r \in Schemas : r # run => active[r] = None
  BY <1>1, <1>3, <1>4, HandlingFacts DEF Imports!MoreSteps
<1>7. /\ active[run] # None =>
           /\ last > 0 /\ active[run] = last /\ import.collector = "otel"
           /\ spans[last] \in Imports!Span /\ spans[last].run = run
           /\ spans[last].steps < import.next
           /\ run \notin Imports!Range(tombstones)
      /\ active[run] = None => last < imports
  BY <1>1, <1>3, <1>4, HandlingFacts
<1>8. faults' \in 0 .. MaxFaults /\ faults \in Nat /\ (faults' = 0 => faults = 0)
  BY <1>1, FaultsCount
<1>9. PICK steps \in {0, 1} : steps = IF ok THEN 1 ELSE 0
  OBVIOUS
<1>10. PICK span : span = [run |-> run, steps |-> steps, status |-> "unset", ended |-> FALSE]
  OBVIOUS
<1>11. \/ active' = active /\ spans' = spans
          /\ (im.collector = "otel" => ~ok \/ run \in Imports!Range(tombstones))
       \/ /\ active' = active /\ active[run] # None /\ ok
          /\ spans' = [spans EXCEPT ![last] = [spans[last] EXCEPT !.steps = @ + 1]]
       \/ /\ active[run] = None /\ run \notin Imports!Range(tombstones)
          /\ import.collector = "otel"
          /\ active' = [active EXCEPT ![run] = last + 1]
          /\ spans' = Append(spans, span)
  BY <1>2, <1>3, <1>4, <1>9, <1>10 DEF StepOutcome
<1>12. DOMAIN spans = 1 .. last
  BY <1>4, <1>6
<1>13. SdkInv'
  BY <1>1 DEF ImportsInv, SdkInv, SdkShape
<1>14. Imports!FreshImportsAreTraced'
  BY <1>5 DEF Imports!FreshImportsAreTraced
<1>15. Handling'
  BY <1>5 DEF Handling
<1>16. CASE /\ active' = active /\ spans' = spans
            /\ im.collector = "otel" => ~ok \/ run \in Imports!Range(tombstones)
  <2>1. Imports!TypeOK'
    BY <1>1, <1>5, <1>8, <1>16 DEF ImportsInv, Imports!TypeOK
  <2>2. RootInv'
    <3>1. ASSUME active[run] # None PROVE spans[last].steps < im.next
      BY <1>5, <1>6, <1>7, <3>1 DEF Imports!Span
    <3> QED
      BY <1>4, <1>5, <1>6, <1>7, <1>15, <1>16, <3>1 DEF RootInv, Imports!Range
  <2>3. SpansInv'
    BY <1>1, <1>3, <1>5, <1>6, <1>16 DEF ImportsInv, SpansInv
  <2>4. EndInv'
    BY <1>1, <1>3, <1>5, <1>8, <1>16 DEF ImportsInv, EndInv
  <2>5. TombInv'
    BY <1>5, <1>16 DEF ImportsInv, TombInv
  <2>6. TraceInv'
    <3>1. import.fresh <=> run \notin Imports!Range(tombstones)
      BY <1>3, <1>6 DEF ImportsInv, TraceInv
    <3>2. im.collector = "otel" /\ im.fresh => im.troubled
      BY <1>5, <1>16, <3>1
    <3> QED
      BY <1>5, <1>15, <3>1, <3>2 DEF TraceInv, Imports!Range
  <2> QED
    BY <1>13, <1>14, <2>1, <2>2, <2>3, <2>4, <2>5, <2>6 DEF ImportsInv
<1>17. CASE /\ active' = active /\ active[run] # None /\ ok
            /\ spans' = [spans EXCEPT ![last] = [spans[last] EXCEPT !.steps = @ + 1]]
  <2>1. PICK old : old = spans[last]
    OBVIOUS
  <2>2. PICK new : new = [old EXCEPT !.steps = old.steps + 1]
    OBVIOUS
  <2>3. old \in Imports!Span /\ old.run = run /\ old.steps < import.next /\ last > 0
    BY <1>7, <1>17, <2>1
  <2>4. /\ new \in Imports!Span /\ new.run = run /\ new.steps = old.steps + 1
        /\ new.ended = old.ended /\ new.steps < im.next
    <3>1. /\ old.run \in Schemas /\ old.steps \in 0 .. NSteps + 1
          /\ old.status \in {"unset", "ok", "error"} /\ old.ended \in BOOLEAN
      BY <2>3 DEF Imports!Span
    <3>2. old.steps + 1 \in 0 .. NSteps + 1 /\ old.steps + 1 < im.next
      BY <1>5, <1>6, <2>3, <3>1
    <3>3. new = [run |-> old.run, steps |-> old.steps + 1, status |-> old.status,
                 ended |-> old.ended]
      BY <2>2, <2>3 DEF Imports!Span
    <3> QED
      BY <2>3, <3>1, <3>2, <3>3 DEF Imports!Span
  <2>5. spans' = [spans EXCEPT ![last] = new]
    BY <1>17, <2>1, <2>2
  <2>6. /\ spans' \in Seq(Imports!Span) /\ Len(spans') = last /\ spans'[last] = new
        /\ \A i \in 1 .. last : i # last => spans'[i] = spans[i]
    BY <1>4, <1>6, <2>3, <2>4, <2>5, ExceptSeq
  <2>7. \A i \in 1 .. last : spans'[i].run = spans[i].run /\ spans'[i].ended = spans[i].ended
    BY <2>1, <2>3, <2>4, <2>6
  <2>8. DOMAIN spans' = 1 .. last
    BY <1>6, <2>6
  <2>9. Imports!TypeOK'
    BY <1>1, <1>4, <1>5, <1>8, <1>17, <2>6 DEF ImportsInv, Imports!TypeOK
  <2>10. RootInv'
    BY <1>4, <1>5, <1>6, <1>7, <1>15, <1>17, <2>3, <2>4, <2>6 DEF RootInv, Imports!Range
  <2>11. SpansInv'
    BY <1>1, <1>4, <1>5, <1>17, <2>6 DEF ImportsInv, SpansInv
  <2>12. EndInv'
    BY <1>1, <1>3, <1>5, <1>8, <1>12, <1>17, <2>7, <2>8 DEF ImportsInv, EndInv
  <2>13. TombInv'
    <3>1. \E r \in Schemas : active'[r] # None
      BY <1>6, <1>17
    <3>2. MaxTombstones > 0 => \A j \in 2 .. last : spans'[j].run # spans'[j - 1].run
      BY <1>4, <1>6, <2>7 DEF ImportsInv, TombInv
    <3> QED
      BY <1>5, <2>6, <3>1, <3>2 DEF ImportsInv, TombInv
  <2>14. TraceInv'
    <3>1. import.fresh <=> run \notin Imports!Range(tombstones)
      BY <1>3, <1>6 DEF ImportsInv, TraceInv
    <3>2. ASSUME im.fresh, ~im.troubled, im.collector = "otel"
          PROVE  ~im.dropped /\ new.steps = im.next - 1
      <4>1. ~import.dropped /\ old.steps = import.next - 1
        BY <1>3, <1>4, <1>5, <1>6, <1>17, <2>1, <3>2 DEF ImportsInv, TraceInv
      <4> QED
        BY <1>5, <1>6, <1>7, <1>17, <2>4, <4>1
    <3>3. im.next # 1
      BY <1>5, <1>6
    <3> QED
      BY <1>5, <1>15, <1>17, <2>6, <3>1, <3>2, <3>3 DEF TraceInv, Imports!Range
  <2> QED
    BY <1>13, <1>14, <2>9, <2>10, <2>11, <2>12, <2>13, <2>14 DEF ImportsInv
<1>18. CASE /\ active[run] = None /\ run \notin Imports!Range(tombstones)
            /\ import.collector = "otel"
            /\ active' = [active EXCEPT ![run] = last + 1]
            /\ spans' = Append(spans, span)
  <2>1. /\ span \in Imports!Span /\ span.run = run /\ span.steps = steps
        /\ span.steps < im.next
    <3>1. steps \in 0 .. NSteps + 1
      BY <1>6, <1>9
    <3> QED
      BY <1>5, <1>6, <1>9, <1>10, <3>1 DEF Imports!Span
  <2>2. /\ spans' \in Seq(Imports!Span) /\ Len(spans') = last + 1 /\ spans'[last + 1] = span
        /\ \A i \in 1 .. last : spans'[i] = spans[i]
    BY <1>4, <1>6, <1>18, <2>1, AppendProperties
  <2>3. DOMAIN spans' = 1 .. last + 1
    BY <1>6, <2>2
  <2>4. last < imports /\ last + 1 \in Imports!SpanIds
    BY <1>6, <1>7, <1>18 DEF Imports!SpanIds
  <2>5. /\ active' \in [Schemas -> Imports!SpanIds \cup {None}]
        /\ active'[run] = last + 1 /\ active'[run] # None
        /\ \A r \in Schemas : r # run => active'[r] = None
    BY <1>6, <1>18, <2>4, NoneAssumption
  <2>6. Imports!TypeOK'
    BY <1>1, <1>4, <1>5, <1>6, <1>8, <2>2, <2>4, <2>5 DEF ImportsInv, Imports!TypeOK
  <2>7. RootInv'
    BY <1>5, <1>6, <1>15, <1>18, <2>1, <2>2, <2>5 DEF RootInv, Imports!Range
  <2>8. SpansInv'
    BY <1>1, <1>5, <1>6, <2>2, <2>4, <2>5 DEF SpansInv
  <2>9. EndInv'
    <3>1. ASSUME faults = 0, NEW i \in 1 .. last PROVE spans[i].ended
      BY <1>3, <1>12, <1>18, <3>1, NoneAssumption DEF ImportsInv, EndInv
    <3> QED
      BY <1>5, <1>6, <1>8, <2>2, <2>3, <2>5, <3>1 DEF EndInv
  <2>10. TombInv'
    <3>1. MaxTombstones > 0 /\ last > 0 =>
            Len(tombstones) > 0 /\ tombstones[Len(tombstones)] = spans[last].run
      BY <1>4, <1>6, <1>18 DEF ImportsInv, TombInv
    <3>2. ASSUME MaxTombstones > 0, last > 0 PROVE spans[last].run # run
      <4>1. Len(tombstones) \in DOMAIN tombstones
        BY <1>6, <3>1, <3>2
      <4> QED
        BY <1>18, <3>1, <3>2, <4>1 DEF Imports!Range
    <3>3. ASSUME MaxTombstones > 0, NEW j \in 2 .. last + 1
          PROVE  spans'[j].run # spans'[j - 1].run
      <4>1. CASE j = last + 1
        BY <1>6, <2>1, <2>2, <3>2, <3>3, <4>1
      <4>2. CASE j # last + 1
        <5>1. spans[j].run # spans[j - 1].run
          BY <1>4, <1>6, <3>3, <4>2 DEF ImportsInv, TombInv
        <5>2. j \in 1 .. last /\ j - 1 \in 1 .. last
          BY <1>6, <4>2
        <5> QED
          BY <2>2, <5>1, <5>2
      <4> QED
        BY <4>1, <4>2
    <3>4. \E r \in Schemas : active'[r] # None
      BY <1>6, <2>5
    <3> QED
      BY <1>5, <2>2, <3>3, <3>4 DEF ImportsInv, TombInv
  <2>11. TraceInv'
    <3>1. import.fresh <=> run \notin Imports!Range(tombstones)
      BY <1>3, <1>6 DEF ImportsInv, TraceInv
    <3>2. ASSUME im.fresh, ~im.troubled, im.collector = "otel"
          PROVE  ~im.dropped /\ span.steps = im.next - 1
      <4>1. ~import.dropped /\ import.next = 1
        BY <1>3, <1>5, <1>6, <1>18, <3>2 DEF ImportsInv, TraceInv
      <4> QED
        BY <1>5, <1>9, <1>18, <2>1, <3>2, <4>1
    <3>3. im.next # 1
      BY <1>5, <1>6
    <3> QED
      BY <1>5, <1>15, <2>2, <2>5, <3>1, <3>2, <3>3 DEF TraceInv, Imports!Range
  <2> QED
    BY <1>13, <1>14, <2>6, <2>7, <2>8, <2>9, <2>10, <2>11 DEF ImportsInv
<1> QED
  BY <1>11, <1>16, <1>17, <1>18

\* The tombstones with a new one.
Buried(run) ==
    LET order == Append(tombstones, run)
    IN  IF Len(order) > MaxTombstones THEN Tail(order) ELSE order

\* What the collector keeps and the import.
Kept(A, T, S, im) == [active |-> A, tombstones |-> T, spans |-> S, import |-> im]

\* The active runs without one, the spans with another last one, a span with a step more,
\* and an ended one.
Without(A, run) == [A EXCEPT ![run] = None]
WithLast(S, span) == [S EXCEPT ![Len(S)] = span]
Longer(span) == [span EXCEPT !.steps = span.steps + 1]
Ended(span, status, e) ==
    [run |-> span.run, steps |-> span.steps, status |-> status, ended |-> e]

\* The child span of the summary is one more step of the last root span.
LEMMA ChildOfLast ==
    ASSUME NEW A, NEW T, NEW S \in Seq(Imports!Span), NEW im,
           im.run \notin Imports!Range(T), Len(S) > 0, A[im.run] = Len(S)
    PROVE  Imports!Child(Kept(A, T, S, im), TRUE) =
             Kept(A, T, WithLast(S, Longer(S[Len(S)])), im)
<1> DEFINE new == Longer(S[Len(S)])
<1>0. PICK m : m = Kept(A, T, S, im)
  OBVIOUS
<1>1. m.active = A /\ m.tombstones = T /\ m.spans = S /\ m.import = im
  BY <1>0 DEF Kept
<1>2. Len(S) # None
  BY NoneAssumption
<1>3. ~Imports!Finalized(m)
  BY <1>1 DEF Imports!Finalized
<1>4. Imports!Child(m, TRUE) = [m EXCEPT !.spans[Len(S)].steps = @ + 1]
  BY <1>1, <1>2, <1>3 DEF Imports!Child
<1>5. [m EXCEPT !.spans[Len(S)].steps = @ + 1] = [m EXCEPT !.spans = [S EXCEPT ![Len(S)] = new]]
  BY <1>1 DEF Longer
<1> QED
  BY <1>0, <1>4, <1>5 DEF Kept, WithLast

\* The summary ends the last root span and forgets it.
LEMMA SummaryOfLast ==
    ASSUME NEW A, NEW S \in Seq(Imports!Span), NEW im, NEW e \in BOOLEAN,
           NEW status \in {"error", "ok"},
           im.run \notin Imports!Range(tombstones), Len(S) > 0, A[im.run] = Len(S),
           status = IF im.failed THEN "error" ELSE "ok"
    PROVE  Imports!Summarized(Kept(A, tombstones, S, im), e) =
             Kept(Without(A, im.run), Buried(im.run),
                  WithLast(S, Ended(S[Len(S)], status, e)), im)
<1>0. PICK m : m = Kept(A, tombstones, S, im)
  OBVIOUS
<1>1. m.active = A /\ m.tombstones = tombstones /\ m.spans = S /\ m.import = im
  BY <1>0 DEF Kept
<1>4. PICK old \in Imports!Span : old = S[Len(S)]
  OBVIOUS
<1>6. PICK sp : sp = Ended(old, status, e)
  OBVIOUS
<1>2. Len(S) # None /\ Len(S) \in 1 .. Len(S) /\ Len(S) \in DOMAIN S
  BY NoneAssumption
<1>3. ~Imports!Finalized(m)
  BY <1>1 DEF Imports!Finalized
<1>5. PICK mid : mid = [old EXCEPT !.status = status]
  OBVIOUS
<1>7. sp = [mid EXCEPT !.ended = e]
  <2>1. mid = [run |-> old.run, steps |-> old.steps, status |-> status, ended |-> old.ended]
    BY <1>5 DEF Imports!Span
  <2> QED
    BY <1>6, <2>1 DEF Ended
<1>8. PICK S1 : S1 = [S EXCEPT ![Len(S)] = mid]
  OBVIOUS
<1>9. PICK S2 : S2 = [S1 EXCEPT ![Len(S)] = sp]
  OBVIOUS
<1>10. S1[Len(S)] = mid
  BY <1>2, <1>8
<1>11. S2 = [S EXCEPT ![Len(S)] = sp]
  BY <1>2, <1>8, <1>9
<1>12. PICK m1 : m1 = [m EXCEPT !.spans = S1]
  OBVIOUS
<1>13. PICK m2 : m2 = [m1 EXCEPT !.spans = S2]
  OBVIOUS
<1>14. m1.spans = S1
  BY <1>12
<1>15. [m EXCEPT !.spans[Len(S)].status = IF im.failed THEN "error" ELSE "ok"] = m1
  BY <1>1, <1>4, <1>5, <1>8, <1>12
<1>16. [m1 EXCEPT !.spans[Len(S)].ended = e] = m2
  BY <1>7, <1>9, <1>10, <1>13, <1>14
<1>17. Imports!Summarized(m, e) = Imports!Buried(m2)
  BY <1>1, <1>2, <1>3, <1>15, <1>16 DEF Imports!Summarized
<1>18. m2 = Kept(A, tombstones, S2, im)
  BY <1>0, <1>12, <1>13 DEF Kept
<1>19. Imports!Buried(m2) =
         Kept(Without(A, im.run), Buried(im.run), S2, im)
  <2>1. PICK a : a = Without(A, im.run)
    OBVIOUS
  <2>2. PICK t : t = Buried(im.run)
    OBVIOUS
  <2>3. m2.active = A /\ m2.tombstones = tombstones /\ m2.import = im
    BY <1>18 DEF Kept
  <2>4. Imports!Buried(m2) = [m2 EXCEPT !.active = a, !.tombstones = t]
    BY <2>1, <2>2, <2>3 DEF Imports!Buried, Buried, Without
  <2>5. [m2 EXCEPT !.active = a, !.tombstones = t] = Kept(a, t, S2, im)
    <3>1. m2 = [active |-> A, tombstones |-> tombstones, spans |-> S2, import |-> im]
      BY <1>18 DEF Kept
    <3>2. PICK m3 : m3 = [m2 EXCEPT !.active = a]
      OBVIOUS
    <3>3. m3 = [active |-> a, tombstones |-> tombstones, spans |-> S2, import |-> im]
      BY <3>1, <3>2
    <3>4. [m2 EXCEPT !.active = a, !.tombstones = t] = [m3 EXCEPT !.tombstones = t]
      BY <3>2
    <3>5. [m3 EXCEPT !.tombstones = t]
            = [active |-> a, tombstones |-> t, spans |-> S2, import |-> im]
      BY <3>3
    <3> QED
      BY <3>4, <3>5 DEF Kept
  <2> QED
    BY <2>1, <2>2, <2>4, <2>5
<1> QED
  <2>1. S2 = WithLast(S, sp)
    BY <1>11 DEF WithLast
  <2> QED
    BY <1>0, <1>4, <1>6, <1>17, <1>19, <2>1

\* What a summary leaves: nothing but the end of the import, or the root span of the run,
\* which may be new, ended and forgotten.
SummaryOutcome(im, sp) ==
    /\ im \in Imports!Import
    /\ im.run = import.run /\ im.collector = import.collector /\ im.next = import.next
    /\ im.over /\ (im.fresh <=> import.fresh) /\ (im.failed <=> import.failed)
    /\ ~im.troubled => ~import.troubled
    /\ im.dropped => import.dropped \/ import.run \in Imports!Range(tombstones)
    /\ import' = im
    /\ \/ /\ active[import.run] = None
          /\ UNCHANGED <<active, tombstones, spans>>
          /\ im.collector = "otel" => im.troubled \/ import.run \in Imports!Range(tombstones)
       \/ /\ import.run \notin Imports!Range(tombstones) /\ import.collector = "otel"
          /\ active' = [active EXCEPT ![import.run] = None]
          /\ tombstones' = Buried(import.run)
          /\ sp \in Imports!Span /\ sp.run = import.run
          /\ faults' = 0 => sp.ended
          /\ ~im.troubled =>
               /\ sp.ended /\ sp.status = IF im.failed THEN "error" ELSE "ok"
               /\ sp.steps = 1 + IF active[import.run] = None THEN 0 ELSE spans[Len(spans)].steps
          /\ spans' = IF active[import.run] = None THEN Append(spans, sp)
                      ELSE [spans EXCEPT ![Len(spans)] = sp]

\* Summary() has such an outcome, whichever calls of the tracer fail.
LEMMA SummaryIsAnOutcome ==
    ASSUME ImportsInv, NEW ok \in BOOLEAN, Imports!Summary(ok)
    PROVE  \E im, sp : SummaryOutcome(im, sp)
<1>1. /\ import # None /\ ~import.over /\ ok \in Imports!Outcomes /\ Imports!Count(ok)
  BY DEF Imports!Summary
<1>2. PICK run : run = import.run
  OBVIOUS
<1>3. PICK last : last = Len(spans)
  OBVIOUS
<1>4. PICK trouble \in BOOLEAN : trouble = (import.troubled \/ ~ok)
  OBVIOUS
<1>5. /\ import \in Imports!Import /\ run \in Schemas /\ import.next \in 1 .. NSteps + 1
      /\ NSteps \in Nat /\ MaxImports \in Nat /\ last \in Nat /\ spans \in Seq(Imports!Span)
      /\ active \in [Schemas -> Imports!SpanIds \cup {None}] /\ imports \in 0 .. MaxImports
      /\ (active[run] # None =>
           /\ last > 0 /\ active[run] = last /\ import.collector = "otel"
           /\ spans[last] \in Imports!Span /\ spans[last].run = run
           /\ spans[last].steps < import.next
           /\ run \notin Imports!Range(tombstones))
  BY <1>1, <1>2, <1>3, HandlingFacts
<1>6. faults' = 0 => ok
  BY <1>1, FaultsCount
<1>7. PICK im : im = [import EXCEPT !.over = TRUE, !.troubled = trouble]
  OBVIOUS
<1>8. /\ im \in Imports!Import
      /\ im.run = run /\ im.collector = import.collector /\ im.next = import.next
      /\ im.over /\ im.fresh = import.fresh /\ im.failed = import.failed
      /\ im.dropped = import.dropped /\ im.troubled = trouble
  BY <1>2, <1>5, <1>7 DEF Imports!Import
<1>9. ~im.troubled => ~import.troubled /\ ok
  BY <1>4, <1>8
<1>10. PICK m : m = Kept(active, tombstones, spans, im)
  OBVIOUS
<1>11. /\ m.active = active /\ m.tombstones = tombstones /\ m.spans = spans /\ m.import = im
  BY <1>10 DEF Kept
<1>12. [Imports!Memory EXCEPT !.import.over = TRUE, !.import.troubled = @ \/ ~ok] = m
  <2>1. PICK a : a = [import EXCEPT !.over = TRUE]
    OBVIOUS
  <2>2. PICK M1 : M1 = [Imports!Memory EXCEPT !.import = a]
    OBVIOUS
  <2>3. a.troubled = import.troubled
    BY <1>5, <2>1 DEF Imports!Import
  <2>4. im = [a EXCEPT !.troubled = a.troubled \/ ~ok]
    BY <1>4, <1>7, <2>1, <2>3
  <2>5. Imports!Memory.import = import /\ M1.import = a
    BY <2>2 DEF Imports!Memory
  <2>6. M1 = Kept(active, tombstones, spans, a)
    BY <2>2 DEF Imports!Memory, Kept
  <2>7. m = [M1 EXCEPT !.import = im]
    BY <1>10, <2>6 DEF Kept
  <2>8. [Imports!Memory EXCEPT !.import.over = TRUE] = M1
    BY <2>1, <2>2, <2>5
  <2>9. [M1 EXCEPT !.import.troubled = @ \/ ~ok] = m
    BY <2>4, <2>5, <2>7
  <2> QED
    BY <2>8, <2>9
<1>13. \/ import.collector = "noop" /\ Imports!Keep(m)
       \/ /\ import.collector = "otel"
          /\ Imports!Keep(Imports!Summarized(Imports!Child(Imports!Root(m, TRUE), TRUE), ok))
       \/ /\ import.collector = "otel" /\ ~ok
          /\ Imports!Keep(Imports!Summarized(Imports!Root(m, FALSE), TRUE))
  BY <1>12 DEF Imports!Summary
<1>14. Imports!Finalized(m) <=> run \in Imports!Range(tombstones)
  BY <1>8, <1>11 DEF Imports!Finalized
<1>15. CASE import.collector = "noop" /\ Imports!Keep(m)
  <2>1. active[run] = None
    BY <1>5, <1>15
  <2> QED
    BY <1>2, <1>8, <1>9, <1>11, <1>15, <2>1 DEF SummaryOutcome, Imports!Keep
<1>16. CASE import.collector = "otel" /\ run \in Imports!Range(tombstones)
  <2>1. PICK d : d = [im EXCEPT !.dropped = TRUE]
    OBVIOUS
  <2>2. PICK n : n = [m EXCEPT !.import = d]
    OBVIOUS
  <2>3. /\ n.active = active /\ n.tombstones = tombstones /\ n.spans = spans
        /\ n.import = d /\ d.run = run
    BY <1>8, <1>10, <2>1, <2>2 DEF Imports!Import, Kept
  <2>4. \A b \in BOOLEAN : Imports!Root(m, b) = n
    BY <1>11, <1>14, <1>16, <2>1, <2>2 DEF Imports!Root
  <2>5. Imports!Child(n, TRUE) = n /\ \A b \in BOOLEAN : Imports!Summarized(n, b) = n
    BY <1>16, <2>3 DEF Imports!Child, Imports!Summarized, Imports!Finalized
  <2>6. Imports!Keep(n)
    BY <1>13, <1>16, <2>4, <2>5
  <2>7. /\ d \in Imports!Import /\ d.collector = im.collector /\ d.next = im.next
        /\ d.over = im.over /\ d.fresh = im.fresh /\ d.troubled = im.troubled
        /\ d.failed = im.failed
    BY <1>8, <2>1 DEF Imports!Import
  <2>8. active[run] = None
    BY <1>5, <1>16
  <2> QED
    BY <1>2, <1>8, <1>9, <1>16, <2>3, <2>6, <2>7, <2>8 DEF SummaryOutcome, Imports!Keep
<1>17. CASE import.collector = "otel" /\ run \notin Imports!Range(tombstones)
            /\ active[run] # None
  <2>1. \A b \in BOOLEAN : Imports!Root(m, b) = m
    BY <1>8, <1>11, <1>14, <1>17 DEF Imports!Root, Imports!RootAgain
  <2>2. PICK old : old = spans[last]
    OBVIOUS
  <2>3. /\ old \in Imports!Span /\ old.run = run /\ old.steps < import.next
        /\ last > 0 /\ active[run] = last
    BY <1>5, <1>17, <2>2
  <2>4. PICK status \in {"error", "ok"} : status = IF im.failed THEN "error" ELSE "ok"
    OBVIOUS
  <2>5. CASE Imports!Keep(Imports!Summarized(Imports!Child(m, TRUE), ok))
    <3>1. PICK new : new = Longer(old)
      OBVIOUS
    <3>2. /\ new \in Imports!Span /\ new.run = run /\ new.steps = 1 + old.steps
      <4>1. /\ old.run \in Schemas /\ old.steps \in 0 .. NSteps + 1
            /\ old.status \in {"unset", "ok", "error"} /\ old.ended \in BOOLEAN
        BY <2>3 DEF Imports!Span
      <4>2. old.steps + 1 \in 0 .. NSteps + 1 /\ old.steps + 1 = 1 + old.steps
        BY <1>5, <2>3, <4>1
      <4>3. new = [run |-> old.run, steps |-> old.steps + 1, status |-> old.status,
                   ended |-> old.ended]
        BY <2>3, <3>1 DEF Imports!Span, Longer
      <4> QED
        BY <2>3, <4>1, <4>2, <4>3 DEF Imports!Span
    <3>3. PICK S : S = [spans EXCEPT ![last] = new]
      OBVIOUS
    <3>4. /\ S \in Seq(Imports!Span) /\ Len(S) = last /\ S[last] = new
      BY <1>3, <1>5, <2>3, <3>2, <3>3, ExceptSeq
    <3>5. PICK n : n = Imports!Child(m, TRUE)
      OBVIOUS
    <3>6. n = Kept(active, tombstones, S, im)
      <4>1. /\ im.run \notin Imports!Range(tombstones) /\ Len(spans) > 0
            /\ active[im.run] = Len(spans) /\ old = spans[Len(spans)]
            /\ spans \in Seq(Imports!Span)
        BY <1>3, <1>5, <1>8, <1>17, <2>2, <2>3
      <4>2. n = Kept(active, tombstones, WithLast(spans, new), im)
        BY <1>10, <3>1, <3>5, <4>1, ChildOfLast
      <4> QED
        BY <1>3, <3>3, <4>2 DEF WithLast
    <3>7. PICK sp : sp = Ended(new, status, ok)
      OBVIOUS
    <3>8. /\ sp \in Imports!Span /\ sp.run = run /\ sp.ended = ok /\ sp.status = status
          /\ sp.steps = 1 + old.steps
      BY <1>5, <3>2, <3>7 DEF Imports!Span, Ended
    <3>9. PICK k : k = Imports!Summarized(n, ok)
      OBVIOUS
    <3>10. k = Kept(Without(active, run), Buried(run), [S EXCEPT ![last] = sp], im)
      <4>1. /\ im.run \notin Imports!Range(tombstones) /\ Len(S) > 0
            /\ active[im.run] = Len(S) /\ new = S[Len(S)]
            /\ sp = Ended(S[Len(S)], status, ok)
        BY <1>8, <1>17, <2>3, <3>2, <3>4, <3>7
      <4>2. k = Kept(Without(active, im.run), Buried(im.run), WithLast(S, sp), im)
        BY <2>4, <3>4, <3>6, <3>9, <4>1, SummaryOfLast
      <4> QED
        BY <1>8, <3>4, <4>2 DEF WithLast
    <3>11. [S EXCEPT ![last] = sp] = [spans EXCEPT ![last] = sp]
      BY <1>5, <3>3
    <3>12. Imports!Keep(k)
      BY <2>5, <3>5, <3>9
    <3>13. /\ import' = im /\ active' = [active EXCEPT ![run] = None]
           /\ tombstones' = Buried(run) /\ spans' = [spans EXCEPT ![last] = sp]
      BY <3>10, <3>11, <3>12 DEF Imports!Keep, Kept, Without
    <3> QED
      BY <1>2, <1>3, <1>6, <1>8, <1>9, <1>17, <2>2, <2>4, <3>8, <3>13 DEF SummaryOutcome
  <2>6. CASE ~ok /\ Imports!Keep(Imports!Summarized(m, TRUE))
    <3>7. PICK sp : sp = Ended(old, status, TRUE)
      OBVIOUS
    <3>8. /\ sp \in Imports!Span /\ sp.run = run /\ sp.ended
      BY <1>5, <2>3, <3>7 DEF Imports!Span, Ended
    <3>9. PICK k : k = Imports!Summarized(m, TRUE)
      OBVIOUS
    <3>10. k = Kept(Without(active, run), Buried(run), [spans EXCEPT ![last] = sp], im)
      <4>1. /\ im.run \notin Imports!Range(tombstones) /\ Len(spans) > 0
            /\ active[im.run] = Len(spans) /\ old = spans[Len(spans)]
            /\ spans \in Seq(Imports!Span)
            /\ sp = Ended(spans[Len(spans)], status, TRUE)
        BY <1>3, <1>5, <1>8, <1>17, <2>2, <2>3, <3>7
      <4>2. k = Kept(Without(active, im.run), Buried(im.run), WithLast(spans, sp), im)
        BY <1>10, <2>4, <3>9, <4>1, SummaryOfLast
      <4> QED
        BY <1>3, <1>8, <4>2 DEF WithLast
    <3>12. Imports!Keep(k)
      BY <2>6, <3>9
    <3>13. /\ import' = im /\ active' = [active EXCEPT ![run] = None]
           /\ tombstones' = Buried(run) /\ spans' = [spans EXCEPT ![last] = sp]
      BY <3>10, <3>12 DEF Imports!Keep, Kept, Without
    <3> QED
      BY <1>2, <1>3, <1>6, <1>8, <1>9, <1>17, <2>6, <3>8, <3>13 DEF SummaryOutcome
  <2> QED
    BY <1>13, <1>17, <2>1, <2>5, <2>6
<1>18. CASE import.collector = "otel" /\ run \notin Imports!Range(tombstones)
            /\ active[run] = None
  <2>1. CASE ~ok /\ Imports!Keep(Imports!Summarized(Imports!Root(m, FALSE), TRUE))
    <3>1. Imports!Root(m, FALSE) = m
      BY <1>11, <1>14, <1>18 DEF Imports!Root, Imports!RootAgain
    <3>2. Imports!Summarized(m, TRUE) = m
      BY <1>8, <1>11, <1>18 DEF Imports!Summarized
    <3> QED
      BY <1>2, <1>8, <1>9, <1>11, <1>18, <2>1, <3>1, <3>2 DEF SummaryOutcome, Imports!Keep
  <2>2. CASE Imports!Keep(Imports!Summarized(Imports!Child(Imports!Root(m, TRUE), TRUE), ok))
    <3>1. PICK span : span = [run |-> run, steps |-> 0, status |-> "unset", ended |-> FALSE]
      OBVIOUS
    <3>2. PICK r : r = Imports!Root(m, TRUE)
      OBVIOUS
    <3>3. PICK A : A = [active EXCEPT ![run] = last + 1]
      OBVIOUS
    <3>4. PICK S : S = Append(spans, span)
      OBVIOUS
    <3>5. r = Kept(A, tombstones, S, im)
      <4>1. r = [m EXCEPT !.active = A, !.spans = S]
        BY <1>3, <1>8, <1>11, <1>14, <1>18, <3>1, <3>2, <3>3, <3>4
           DEF Imports!Root, Imports!RootAgain
      <4> QED
        BY <1>10, <4>1 DEF Kept
    <3>6. span \in Imports!Span
      BY <1>5, <3>1 DEF Imports!Span
    <3>7. /\ S \in Seq(Imports!Span) /\ Len(S) = last + 1 /\ S[last + 1] = span
      BY <1>3, <1>5, <3>4, <3>6, AppendProperties
    <3>8. A[run] = last + 1
      BY <1>5, <3>3
    <3>9. PICK new : new = Longer(span)
      OBVIOUS
    <3>10. new = [run |-> run, steps |-> 1, status |-> "unset", ended |-> FALSE]
      <4>1. span.steps + 1 = 1
        BY <3>1
      <4>2. new = [span EXCEPT !.steps = 1]
        BY <3>9, <4>1 DEF Longer
      <4> QED
        BY <3>1, <4>2
    <3>11. new \in Imports!Span
      <4>1. 1 \in 0 .. NSteps + 1
        BY <1>5
      <4> QED
        BY <1>5, <3>10, <4>1 DEF Imports!Span
    <3>12. PICK n : n = Imports!Child(r, TRUE)
      OBVIOUS
    <3>13. Append(spans, new) = [S EXCEPT ![last + 1] = new]
      BY <1>3, <1>5, <3>4, <3>6, <3>11, AppendReplaced
    <3>14. n = Kept(A, tombstones, Append(spans, new), im)
      <4>1. /\ im.run \notin Imports!Range(tombstones) /\ Len(S) > 0 /\ A[im.run] = Len(S)
            /\ span = S[Len(S)] /\ S \in Seq(Imports!Span)
        BY <1>5, <1>8, <1>18, <3>7, <3>8
      <4>2. n = Kept(A, tombstones, WithLast(S, new), im)
        BY <3>5, <3>9, <3>12, <4>1, ChildOfLast
      <4> QED
        BY <3>7, <3>13, <4>2 DEF WithLast
    <3>15. PICK S2 : S2 = Append(spans, new)
      OBVIOUS
    <3>16. /\ S2 \in Seq(Imports!Span) /\ Len(S2) = last + 1 /\ S2[last + 1] = new
      BY <1>3, <1>5, <3>11, <3>15, AppendProperties
    <3>17. PICK status \in {"error", "ok"} : status = IF im.failed THEN "error" ELSE "ok"
      OBVIOUS
    <3>18. PICK sp : sp = [run |-> run, steps |-> 1, status |-> status, ended |-> ok]
      OBVIOUS
    <3>19. /\ sp \in Imports!Span /\ sp.run = run /\ sp.ended = ok /\ sp.status = status
           /\ sp.steps = 1 + 0
      <4>1. 1 \in 0 .. NSteps + 1
        BY <1>5
      <4> QED
        BY <1>5, <3>18, <4>1 DEF Imports!Span
    <3>20. PICK k : k = Imports!Summarized(n, ok)
      OBVIOUS
    <3>21. k = Kept(Without(A, run), Buried(run), [S2 EXCEPT ![last + 1] = sp], im)
      <4>1. /\ im.run \notin Imports!Range(tombstones) /\ Len(S2) > 0
            /\ A[im.run] = Len(S2) /\ new = S2[Len(S2)]
            /\ n = Kept(A, tombstones, S2, im)
            /\ S2 \in Seq(Imports!Span)
        BY <1>5, <1>8, <1>18, <3>8, <3>14, <3>15, <3>16
      <4>2. sp = Ended(S2[Len(S2)], status, ok)
        BY <3>10, <3>18, <4>1 DEF Ended
      <4>3. k = Kept(Without(A, im.run), Buried(im.run), WithLast(S2, sp), im)
        BY <3>17, <3>20, <4>1, <4>2, SummaryOfLast
      <4> QED
        BY <1>8, <3>16, <4>3 DEF WithLast
    <3>22. [S2 EXCEPT ![last + 1] = sp] = Append(spans, sp)
      BY <1>3, <1>5, <3>11, <3>15, <3>19, AppendReplaced
    <3>23. Without(A, run) = [active EXCEPT ![run] = None]
      BY <1>5, <3>3 DEF Without
    <3>24. Imports!Keep(k)
      BY <2>2, <3>2, <3>12, <3>20
    <3>25. /\ import' = im /\ active' = [active EXCEPT ![run] = None]
           /\ tombstones' = Buried(run) /\ spans' = Append(spans, sp)
      BY <3>21, <3>22, <3>23, <3>24 DEF Imports!Keep, Kept
    <3> QED
      BY <1>2, <1>3, <1>6, <1>8, <1>9, <1>18, <3>17, <3>19, <3>25 DEF SummaryOutcome
  <2> QED
    BY <1>13, <1>18, <2>1, <2>2
<1>19. import.collector \in {"otel", "noop"}
  BY <1>5 DEF Imports!Import
<1> QED
  BY <1>13, <1>15, <1>16, <1>17, <1>18, <1>19

\* With a tombstone of a run that had none, the last of all unless there is room for none.
LEMMA BuriedRuns ==
    ASSUME NEW run \in Schemas, tombstones \in Seq(Schemas), MaxTombstones \in Nat,
           run \notin Imports!Range(tombstones), Len(tombstones) <= MaxTombstones,
           \A i, j \in DOMAIN tombstones : tombstones[i] = tombstones[j] => i = j
    PROVE  /\ Buried(run) \in Seq(Schemas) /\ Len(Buried(run)) <= MaxTombstones
           /\ \A i, j \in DOMAIN Buried(run) : Buried(run)[i] = Buried(run)[j] => i = j
           /\ MaxTombstones > 0 =>
                Len(Buried(run)) > 0 /\ Buried(run)[Len(Buried(run))] = run
<1>1. PICK n : n = Len(tombstones)
  OBVIOUS
<1>2. n \in Nat /\ DOMAIN tombstones = 1 .. n
  BY <1>1
<1>3. PICK o : o = Append(tombstones, run)
  OBVIOUS
<1>4. /\ o \in Seq(Schemas) /\ Len(o) = n + 1 /\ o[n + 1] = run
      /\ \A i \in 1 .. n : o[i] = tombstones[i]
  BY <1>1, <1>3, AppendProperties
<1>5. \A i \in 1 .. n : tombstones[i] # run
  BY <1>2 DEF Imports!Range
<1>6. \A i, j \in 1 .. n + 1 : o[i] = o[j] => i = j
  <2>1. ASSUME NEW i \in 1 .. n + 1, NEW j \in 1 .. n + 1, o[i] = o[j] PROVE i = j
    <3>1. (i \in 1 .. n \/ i = n + 1) /\ (j \in 1 .. n \/ j = n + 1)
      BY <1>2, <2>1
    <3> QED
      BY <1>2, <1>4, <1>5, <2>1, <3>1
  <2> QED
    BY <2>1
<1>7. CASE Len(o) > MaxTombstones
  <2>1. PICK t : t = Tail(o)
    OBVIOUS
  <2>2. Buried(run) = t
    BY <1>3, <1>7, <2>1 DEF Buried
  <2>3. t \in Seq(Schemas) /\ Len(t) = n /\ \A i \in 1 .. n : t[i] = o[i + 1]
    BY <1>2, <1>4, <2>1
  <2>4. n = MaxTombstones
    BY <1>1, <1>2, <1>4, <1>7
  <2>5. \A i, j \in 1 .. n : t[i] = t[j] => i = j
    <3>1. ASSUME NEW i \in 1 .. n, NEW j \in 1 .. n, t[i] = t[j] PROVE i = j
      <4>1. i + 1 \in 1 .. n + 1 /\ j + 1 \in 1 .. n + 1 /\ o[i + 1] = o[j + 1]
        BY <1>2, <2>3, <3>1
      <4>2. i + 1 = j + 1
        BY <1>6, <4>1
      <4> QED
        BY <1>2, <4>2
    <3> QED
      BY <3>1
  <2>6. n > 0 => t[n] = run
    BY <1>2, <1>4, <2>3
  <2> QED
    BY <1>2, <2>2, <2>3, <2>4, <2>5, <2>6
<1>8. CASE ~(Len(o) > MaxTombstones)
  <2>1. Buried(run) = o
    BY <1>3, <1>8 DEF Buried
  <2>2. DOMAIN o = 1 .. n + 1
    BY <1>4
  <2> QED
    BY <1>2, <1>4, <1>6, <1>8, <2>1, <2>2
<1> QED
  BY <1>7, <1>8

\* The summary of an import.
LEMMA SummaryInv ==
    ASSUME ImportsInv, NEW ok \in BOOLEAN, Imports!Summary(ok) PROVE ImportsInv'
<1>1. /\ import # None /\ ~import.over
      /\ UNCHANGED <<config, runtime, provider, imports>>
      /\ ok \in Imports!Outcomes /\ Imports!Count(ok)
  BY DEF Imports!Summary
<1>2. PICK im, sp : SummaryOutcome(im, sp)
  BY SummaryIsAnOutcome
<1>3. PICK run : run = import.run
  OBVIOUS
<1>4. PICK last : last = Len(spans)
  OBVIOUS
<1>5. /\ im \in Imports!Import /\ im # None /\ import' = im
      /\ im.run = run /\ im.collector = import.collector /\ im.next = import.next /\ im.over
      /\ (im.fresh <=> import.fresh) /\ (~im.troubled => ~import.troubled)
      /\ (im.dropped => import.dropped \/ run \in Imports!Range(tombstones))
  BY <1>2, <1>3, ImportsAssumption DEF SummaryOutcome, Imports!ConstantsAssumption
<1>6. /\ import \in Imports!Import /\ run \in Schemas /\ Handling
      /\ import.next \in 1 .. NSteps + 1 /\ NSteps \in Nat /\ MaxImports \in Nat
      /\ spans \in Seq(Imports!Span) /\ active \in [Schemas -> Imports!SpanIds \cup {None}]
      /\ tombstones \in Seq(Schemas) /\ imports \in 0 .. MaxImports /\ last \in Nat
      /\ \A r \in Schemas : r # run => active[r] = None
  BY <1>1, <1>3, <1>4, HandlingFacts
<1>7. /\ active[run] # None => last > 0 /\ active[run] = last
      /\ active[run] = None => last < imports
  BY <1>1, <1>3, <1>4, HandlingFacts
<1>8. faults' \in 0 .. MaxFaults /\ faults \in Nat /\ (faults' = 0 => faults = 0)
  BY <1>1, FaultsCount
<1>9. DOMAIN spans = 1 .. last
  BY <1>4, <1>6
<1>10. import.fresh <=> run \notin Imports!Range(tombstones)
  BY <1>3, <1>6 DEF ImportsInv, TraceInv
<1>11. import.collector = "otel" /\ import.fresh /\ ~import.troubled =>
         /\ ~import.dropped
         /\ IF import.next = 1 THEN active[run] = None
            ELSE active[run] # None /\ spans[last].steps = import.next - 1
  BY <1>3, <1>4, <1>6 DEF ImportsInv, TraceInv
<1>12. SdkInv'
  BY <1>1 DEF ImportsInv, SdkInv, SdkShape
<1>13. ~Handling' /\ TraceInv'
  BY <1>5 DEF Handling, TraceInv
<1>14. CASE /\ active[run] = None
            /\ UNCHANGED <<active, tombstones, spans>>
            /\ im.collector = "otel" => im.troubled \/ run \in Imports!Range(tombstones)
  <2>1. Imports!TypeOK'
    BY <1>1, <1>5, <1>8, <1>14 DEF ImportsInv, Imports!TypeOK
  <2>2. \A r \in Schemas : active'[r] = None
    BY <1>6, <1>14
  <2>3. RootInv'
    BY <2>2 DEF RootInv
  <2>4. SpansInv'
    BY <1>1, <1>13, <1>14 DEF ImportsInv, SpansInv
  <2>5. EndInv'
    <3>1. ASSUME faults = 0, NEW i \in DOMAIN spans PROVE spans[i].ended
      BY <1>3, <1>9, <1>14, <3>1, NoneAssumption DEF ImportsInv, EndInv
    <3> QED
      BY <1>8, <1>14, <3>1 DEF EndInv
  <2>6. TombInv'
    BY <1>14 DEF ImportsInv, TombInv
  <2>7. Imports!FreshImportsAreTraced'
    BY <1>5, <1>10, <1>14 DEF Imports!FreshImportsAreTraced
  <2> QED
    BY <1>12, <1>13, <2>1, <2>3, <2>4, <2>5, <2>6, <2>7 DEF ImportsInv
<1>15. CASE /\ run \notin Imports!Range(tombstones) /\ import.collector = "otel"
            /\ active' = [active EXCEPT ![run] = None]
            /\ tombstones' = Buried(run)
            /\ sp \in Imports!Span /\ sp.run = run
            /\ faults' = 0 => sp.ended
            /\ ~im.troubled =>
                 /\ sp.ended /\ sp.status = IF im.failed THEN "error" ELSE "ok"
                 /\ sp.steps = 1 + IF active[run] = None THEN 0 ELSE spans[last].steps
            /\ spans' = IF active[run] = None THEN Append(spans, sp)
                        ELSE [spans EXCEPT ![last] = sp]
  <2>1. PICK len : len = IF active[run] = None THEN last + 1 ELSE last
    OBVIOUS
  <2>2. /\ spans' \in Seq(Imports!Span) /\ Len(spans') = len /\ spans'[len] = sp
        /\ \A i \in 1 .. len - 1 : spans'[i] = spans[i]
    <3>1. CASE active[run] = None
      <4>1. /\ Append(spans, sp) \in Seq(Imports!Span) /\ Len(Append(spans, sp)) = last + 1
            /\ Append(spans, sp)[last + 1] = sp
            /\ \A i \in 1 .. last : Append(spans, sp)[i] = spans[i]
        BY <1>4, <1>6, <1>15, AppendProperties
      <4>2. len = last + 1 /\ len - 1 = last /\ spans' = Append(spans, sp)
        BY <1>6, <1>15, <2>1, <3>1
      <4> QED
        BY <4>1, <4>2
    <3>2. CASE active[run] # None
      <4>1. len = last /\ last \in 1 .. Len(spans)
        BY <1>4, <1>6, <1>7, <2>1, <3>2
      <4>2. PICK s : s = [spans EXCEPT ![last] = sp]
        OBVIOUS
      <4>3. /\ s \in Seq(Imports!Span) /\ Len(s) = last
            /\ \A j \in 1 .. last : s[j] = IF j = last THEN sp ELSE spans[j]
        BY <1>4, <1>6, <1>15, <4>1, <4>2, ExceptSeq
      <4>4. spans' = s
        BY <1>15, <3>2, <4>2
      <4> QED
        BY <1>6, <4>1, <4>3, <4>4
    <3> QED
      BY <3>1, <3>2
  <2>3. len \in Nat /\ len > 0 /\ len <= imports
    <3>1. last <= imports
      BY <1>4 DEF ImportsInv, SpansInv
    <3> QED
      BY <1>6, <1>7, <2>1, <3>1
  <2>4. DOMAIN spans' = 1 .. len
    BY <2>2, <2>3
  <2>5. MaxTombstones \in Nat
    BY ImportsAssumption DEF Imports!ConstantsAssumption
  <2>6. /\ tombstones' \in Seq(Schemas) /\ Len(tombstones') <= MaxTombstones
        /\ \A i, j \in DOMAIN tombstones' : tombstones'[i] = tombstones'[j] => i = j
        /\ MaxTombstones > 0 =>
             Len(tombstones') > 0 /\ tombstones'[Len(tombstones')] = run
    <3>1. /\ Len(tombstones) <= MaxTombstones
          /\ \A i, j \in DOMAIN tombstones : tombstones[i] = tombstones[j] => i = j
      BY DEF ImportsInv, TombInv
    <3>2. PICK b : b = Buried(run)
      OBVIOUS
    <3>3. /\ b \in Seq(Schemas) /\ Len(b) <= MaxTombstones
          /\ \A i, j \in DOMAIN b : b[i] = b[j] => i = j
          /\ MaxTombstones > 0 => Len(b) > 0 /\ b[Len(b)] = run
      BY <1>6, <1>15, <2>5, <3>1, <3>2, BuriedRuns
    <3> QED
      BY <1>15, <3>2, <3>3
  <2>7. /\ active' \in [Schemas -> Imports!SpanIds \cup {None}]
        /\ \A r \in Schemas : active'[r] = None
    BY <1>6, <1>15
  <2>8. Imports!TypeOK'
    <3>1. Len(spans') <= MaxImports
      BY <1>6, <2>2, <2>3
    <3> QED
      BY <1>1, <1>5, <1>8, <2>2, <2>6, <2>7, <3>1 DEF ImportsInv, Imports!TypeOK
  <2>9. RootInv'
    BY <2>7 DEF RootInv
  <2>10. SpansInv'
    BY <1>1, <1>13, <2>2, <2>3 DEF SpansInv
  <2>11. EndInv'
    <3>1. ASSUME faults' = 0, NEW i \in 1 .. len PROVE spans'[i].ended
      <4>1. CASE i = len
        BY <1>15, <2>2, <3>1, <4>1
      <4>2. CASE i # len
        <5>1. i \in 1 .. len - 1 /\ i \in 1 .. last /\ spans'[i] = spans[i]
          BY <1>6, <2>1, <2>2, <2>3, <4>2
        <5>2. active[run] # i
          BY <1>6, <1>7, <2>1, <4>2, <5>1, NoneAssumption
        <5> QED
          BY <1>3, <1>8, <1>9, <3>1, <5>1, <5>2 DEF ImportsInv, EndInv
      <4> QED
        BY <4>1, <4>2
    <3> QED
      BY <2>4, <3>1 DEF EndInv
  <2>12. TombInv'
    <3>1. ASSUME MaxTombstones > 0, NEW j \in 2 .. len PROVE spans'[j].run # spans'[j - 1].run
      <4>1. j \in 1 .. len /\ j - 1 \in 1 .. len - 1 /\ j - 1 \in 1 .. last
            /\ spans'[j - 1] = spans[j - 1]
        BY <1>6, <2>1, <2>2, <2>3
      <4>2. CASE j # len \/ active[run] # None
        <5>1. j \in 2 .. last
          BY <1>6, <2>1, <4>2
        <5>2. spans[j].run # spans[j - 1].run
          BY <1>4, <3>1, <5>1 DEF ImportsInv, TombInv
        <5>3. spans'[j].run = spans[j].run
          <6>1. CASE j # len
            <7>1. j \in 1 .. len - 1
              BY <2>3, <6>1
            <7> QED
              BY <2>2, <7>1
          <6>2. CASE j = len
            <7>1. active[run] # None /\ len = last /\ j = last
              BY <2>1, <4>2, <6>2
            <7>2. spans[last].run = run
              BY <1>1, <1>3, <1>4, <7>1, HandlingFacts
            <7> QED
              BY <1>15, <2>2, <6>2, <7>1, <7>2
          <6> QED
            BY <6>1, <6>2
        <5> QED
          BY <4>1, <5>2, <5>3
      <4>3. CASE j = len /\ active[run] = None
        <5>1. len = last + 1 /\ last > 0 /\ j - 1 = last
          BY <1>6, <2>1, <4>1, <4>3
        <5>2. Len(tombstones) > 0 /\ tombstones[Len(tombstones)] = spans[last].run
          BY <1>4, <1>6, <3>1, <4>3, <5>1 DEF ImportsInv, TombInv
        <5>3. Len(tombstones) \in DOMAIN tombstones
          BY <1>6, <5>2
        <5>4. spans[last].run # run
          BY <1>15, <5>2, <5>3 DEF Imports!Range
        <5>5. spans'[j].run = run
          BY <1>15, <2>2, <4>3
        <5> QED
          BY <4>1, <5>1, <5>4, <5>5
      <4> QED
        BY <4>2, <4>3
    <3> QED
      BY <1>15, <2>2, <2>6, <3>1 DEF TombInv
  <2>13. Imports!FreshImportsAreTraced'
    <3>1. ASSUME im.fresh, ~im.troubled
          PROVE  /\ ~im.dropped /\ sp.run = im.run /\ sp.ended /\ sp.steps = im.next
                 /\ sp.status = IF im.failed THEN "error" ELSE "ok"
      <4>1. ~import.dropped /\ import.fresh /\ ~import.troubled
        BY <1>5, <1>11, <1>15, <3>1
      <4>2. sp.steps = im.next
        <5>1. CASE import.next = 1
          BY <1>5, <1>11, <1>15, <3>1, <4>1, <5>1
        <5>2. CASE import.next # 1
          <6>1. active[run] # None /\ spans[last].steps = import.next - 1
            BY <1>11, <1>15, <4>1, <5>2
          <6>2. sp.steps = 1 + spans[last].steps
            BY <1>15, <3>1, <6>1
          <6> QED
            BY <1>5, <1>6, <6>1, <6>2
        <5> QED
          BY <5>1, <5>2
      <4> QED
        BY <1>5, <1>15, <3>1, <4>1, <4>2
    <3>2. spans'[Len(spans')] = sp
      BY <2>2
    <3> QED
      BY <1>5, <3>1, <3>2 DEF Imports!FreshImportsAreTraced
  <2> QED
    BY <1>12, <1>13, <2>8, <2>9, <2>10, <2>11, <2>12, <2>13 DEF ImportsInv
<1> QED
  BY <1>2, <1>3, <1>4, <1>14, <1>15 DEF SummaryOutcome

\* Before the first import nothing is traced.
LEMMA InitImportsInv == ASSUME Imports!Init PROVE ImportsInv
<1>1. {NSteps, MaxTombstones, MaxImports, MaxFaults} \subseteq Nat
  BY ImportsAssumption DEF Imports!ConstantsAssumption
<1>2. Imports!TypeOK
  BY <1>1 DEF Imports!Init, Imports!TypeOK, Imports!States
<1>3. SdkInv /\ RootInv /\ EndInv /\ TraceInv
  BY DEF Imports!Init, SdkInv, SdkShape, RootInv, EndInv, TraceInv, Handling
<1>4. SpansInv /\ TombInv /\ Imports!FreshImportsAreTraced
  BY <1>1 DEF Imports!Init, SpansInv, TombInv, Handling, Imports!FreshImportsAreTraced
<1> QED
  BY <1>2, <1>3, <1>4 DEF ImportsInv

\* A step of the imports or of another part of the server.
LEMMA NextImportsInv ==
    ASSUME ImportsInv, Imports!Next \/ UNCHANGED importVars PROVE ImportsInv'
<1>1. CASE UNCHANGED importVars
  <2>1. /\ Imports!TypeOK' /\ SdkInv' /\ RootInv' /\ SpansInv' /\ EndInv'
    BY <1>1 DEF importVars, ImportsInv, Imports!TypeOK, SdkInv, SdkShape, RootInv, SpansInv,
                EndInv, Handling, Imports!Range
  <2>2. TombInv' /\ TraceInv' /\ Imports!FreshImportsAreTraced'
    BY <1>1 DEF importVars, ImportsInv, TombInv, TraceInv, Handling, Imports!Range,
                Imports!FreshImportsAreTraced
  <2> QED
    BY <2>1, <2>2 DEF ImportsInv
<1>2. CASE Imports!Ensure
  BY <1>2, EnsureInv
<1>3. CASE Imports!Signal \/ Imports!ShutDownServer
  BY <1>3, ShutdownInv
<1>4. CASE \E s \in Schemas : Imports!Begin(s)
  BY <1>4, BeginInv
<1>5. CASE \E failed, ok \in BOOLEAN : Imports!Step(failed, ok)
  BY <1>5, StepInv
<1>6. CASE \E ok \in BOOLEAN : Imports!Summary(ok)
  BY <1>6, SummaryInv
<1>7. CASE Imports!Return
  BY <1>7, ReturnInv
<1> QED
  BY <1>1, <1>2, <1>3, <1>4, <1>5, <1>6, <1>7 DEF Imports!Next

\* What the invariant says of the traces.
LEMMA ImportsInvImplies == ASSUME ImportsInv PROVE TracesAreWhole
<1>1. Imports!TypeOK /\ Imports!FreshImportsAreTraced
  BY DEF ImportsInv
<1>2. Imports!NoRunIsLeft
  <2>1. ASSUME import = None PROVE active = [r \in Schemas |-> None]
    <3>1. \A r \in Schemas : active[r] = None
      BY <2>1, NothingActive DEF Handling
    <3> QED
      BY <1>1, <3>1 DEF Imports!TypeOK
  <2>2. ASSUME import = None, faults = 0, NEW i \in DOMAIN spans PROVE spans[i].ended
    BY <2>2 DEF ImportsInv, EndInv
  <2>3. ASSUME NEW r \in Imports!Range(tombstones) PROVE active[r] = None
    <3>1. r \in Schemas
      BY <1>1 DEF Imports!TypeOK, Imports!Range
    <3> QED
      BY <3>1 DEF ImportsInv, RootInv
  <2> QED
    BY <2>1, <2>2, <2>3 DEF Imports!NoRunIsLeft, ImportsInv, TombInv
<1>3. Imports!SecondSpanNeedsEviction
  <2>1. ASSUME NEW i \in DOMAIN spans, NEW j \in DOMAIN spans, i < j,
               spans[i].run = spans[j].run, MaxTombstones > 0
        PROVE  \E k \in i + 1 .. j - 1 : spans[k].run # spans[i].run
    <3>1. spans \in Seq(Imports!Span) /\ i \in 1 .. Len(spans) /\ j \in 2 .. Len(spans)
      BY <1>1, <2>1 DEF Imports!TypeOK
    <3>2. spans[j].run # spans[j - 1].run
      BY <2>1, <3>1 DEF ImportsInv, TombInv
    <3>3. j - 1 \in i + 1 .. j - 1
      <4>1. j - 1 # i
        BY <2>1, <3>2
      <4> QED
        BY <2>1, <3>1, <4>1
    <3> WITNESS j - 1 \in i + 1 .. j - 1
    <3> QED
      BY <2>1, <3>2
  <2> QED
    BY <2>1 DEF Imports!SecondSpanNeedsEviction
<1>4. Imports!SdkStartsOnce
  <2>1. runtime.starts <= 1
    BY <1>1 DEF Imports!TypeOK
  <2> QED
    BY <2>1 DEF Imports!SdkStartsOnce, ImportsInv, SdkInv
<1> QED
  BY <1>1, <1>2, <1>3, <1>4 DEF TracesAreWhole

\* The invariant of the imports, beside whatever else the server does.
LEMMA ImportsInvariant == MCSpec => []ImportsInv
<1>1. MCInit => ImportsInv
  BY InitImportsInv DEF MCInit
<1>2. ImportsInv /\ [MCNext]_<<part, vars, eventVars, importVars>> => ImportsInv'
  <2> SUFFICES ASSUME ImportsInv, [MCNext]_<<part, vars, eventVars, importVars>>
               PROVE  ImportsInv'
    OBVIOUS
  <2>1. Imports!Next \/ UNCHANGED importVars
    BY DEF MCNext
  <2> QED
    BY <2>1, NextImportsInv
<1> QED
  BY <1>1, <1>2, PTL DEF MCSpec

\* Every fresh import has one whole trace and leaves a tombstone only, the SDK is started
\* once, for any schemas, steps, tombstones, imports and failures of the tracer
\* (recordEvent, recordStep, recordSummary, finalizeAndCleanupRun).
THEOREM TracesWhole == MCSpec => []TracesAreWhole
BY ImportsInvariant, ImportsInvImplies, PTL

-----------------------------------------------------------------------------
(* Events of the creation assistant: what a memory and the calls together  *)
(* keep through every step, whichever step it is.                          *)

WorldType == [proc : Events!Proc, calls : Seq(Events!Call)]

\* The stages of an evaluation under way, and the stage in which its events are awaited.
Active == {"probe", "collect", "tick", "warn"}
EvalStage(kind) == IF kind = "tick" THEN "tick" ELSE "warn"

\* One evaluation is under way, and the newest signal it missed is newer than all that
\* were evaluated.
ProcInv(p) ==
    /\ \A s \in Events!Signals : p.stage[s] \in Active => p.inFlight = s
    /\ \A s \in Events!Signals : p.stage[s] # "none" => s <= p.signals
    /\ p.pending <= p.signals
    /\ p.inFlight = 0 => p.pending = 0
    /\ p.pending # 0 => \A s \in Events!Signals : p.stage[s] # "none" => s < p.pending

\* Events of evaluations that are awaited: one at most, of the evaluation under way.
Waiting(cs) == {c \in DOMAIN cs : cs[c].kind # "app" /\ cs[c].answer = "none"}
LinkInv(p, cs) ==
    /\ \A c \in Waiting(cs) : /\ cs[c].signal \in Events!Signals
                              /\ p.stage[cs[c].signal] = EvalStage(cs[c].kind)
    /\ \A c, d \in Waiting(cs) : c = d

\* The answer, the row and the progress of an insertion.
CallInv(call) ==
    /\ call.answer \in {"stored", "deduped", "skipped", "error"} => call.pc = "over"
    /\ call.landed => call.pc = "over"
    /\ call.answer = "stored" => call.landed
    /\ call.answer \in {"deduped", "skipped"} => ~call.landed

Leased(cs) ==
    \A c \in DOMAIN cs : cs[c].kind = "warning" =>
      \E t \in DOMAIN cs : cs[t].kind = "tick" /\ cs[t].landed /\ cs[t].signal = cs[c].signal

CallsInv(cs) == Leased(cs) /\ \A c \in DOMAIN cs : CallInv(cs[c])

Good(w) ==
    /\ w \in WorldType
    /\ ProcInv(w.proc) /\ LinkInv(w.proc, w.calls) /\ CallsInv(w.calls)

\* Evaluations that have still to emit their first event, and their first or second.
Before(p) == {s \in Events!Signals : p.stage[s] \in {"none", "probe", "collect"}}
UpTo(p) == {s \in Events!Signals : p.stage[s] \in {"none", "probe", "collect", "tick"}}
\* The application's events that are not answered.
Open(cs) == {c \in DOMAIN cs : cs[c].kind = "app" /\ cs[c].answer = "none"}

\* How many events there may be, and how many signals.
Weight(w) == Len(w.calls) + Cardinality(Before(w.proc)) + Cardinality(UpTo(w.proc))
Apps(w) == w.proc.signals + Cardinality(Open(w.calls))

\* A store whose table was not found.
Spared(w) == w.proc.probe # "yes" /\ \A c \in DOMAIN w.calls : w.calls[c].pc # "insert"

\* A step that neither adds to the bounds nor finds the table.
Within(w, v) ==
    /\ v.proc.probe = "yes" => w.proc.probe = "yes"
    /\ Spared(w) => Spared(v)
    /\ Weight(v) <= Weight(w) /\ Apps(v) <= Apps(w)

\* One that leaves the calls alone.
Calmer(w, v) ==
    /\ v.calls = w.calls /\ v.proc.signals = w.proc.signals
    /\ v.proc.probe = "yes" => w.proc.probe = "yes"
    /\ Before(v.proc) \subseteq Before(w.proc) /\ UpTo(v.proc) \subseteq UpTo(w.proc)

\* The signals are finitely many numbers.
LEMMA SignalsAreFinite ==
    /\ MaxEvents \in Nat /\ Events!Signals \subseteq Nat \ {0} /\ IsFiniteSet(Events!Signals)
    /\ \A s \in Events!Signals : s \in 0 .. MaxEvents /\ s > 0
    /\ Cardinality(Events!Signals) = MaxEvents
<1>1. MaxEvents \in Nat
  BY BoundAssumption
<1>2. IsFiniteSet(1 .. MaxEvents) /\ Cardinality(1 .. MaxEvents) = MaxEvents
  BY <1>1, FS_Interval
<1> QED
  BY <1>1, <1>2 DEF Events!Signals

\* The sets that are counted are finite.
LEMMA CountedAreFinite ==
    ASSUME NEW w \in WorldType
    PROVE  /\ IsFiniteSet(Before(w.proc)) /\ Cardinality(Before(w.proc)) \in Nat
           /\ IsFiniteSet(UpTo(w.proc)) /\ Cardinality(UpTo(w.proc)) \in Nat
           /\ IsFiniteSet(Open(w.calls)) /\ Cardinality(Open(w.calls)) \in Nat
           /\ Len(w.calls) \in Nat /\ w.proc.signals \in Nat
           /\ DOMAIN w.calls = 1 .. Len(w.calls)
<1>1. w.calls \in Seq(Events!Call) /\ w.proc \in Events!Proc
  BY DEF WorldType
<1>2. Len(w.calls) \in Nat /\ DOMAIN w.calls = 1 .. Len(w.calls)
  BY <1>1
<1>3. IsFiniteSet(1 .. Len(w.calls))
  BY <1>2, FS_Interval
<1>4. /\ Before(w.proc) \subseteq Events!Signals /\ UpTo(w.proc) \subseteq Events!Signals
      /\ Open(w.calls) \subseteq 1 .. Len(w.calls)
  BY <1>2 DEF Before, UpTo, Open
<1>5. IsFiniteSet(Before(w.proc)) /\ IsFiniteSet(UpTo(w.proc)) /\ IsFiniteSet(Open(w.calls))
  BY <1>3, <1>4, SignalsAreFinite, FS_Subset
<1>6. w.proc.signals \in Nat
  BY <1>1, SignalsAreFinite DEF Events!Proc
<1> QED
  BY <1>2, <1>5, <1>6, FS_CardinalityType

\* Without new calls the bounds hold.
LEMMA CalmerIsWithin ==
    ASSUME NEW w \in WorldType, NEW v \in WorldType, Calmer(w, v)
    PROVE  Within(w, v)
<1>1. /\ v.calls = w.calls /\ v.proc.signals = w.proc.signals
      /\ v.proc.probe = "yes" => w.proc.probe = "yes"
      /\ Before(v.proc) \subseteq Before(w.proc) /\ UpTo(v.proc) \subseteq UpTo(w.proc)
  BY DEF Calmer
<1>2. /\ IsFiniteSet(Before(w.proc)) /\ IsFiniteSet(UpTo(w.proc))
      /\ Cardinality(Before(w.proc)) \in Nat /\ Cardinality(UpTo(w.proc)) \in Nat
      /\ Len(w.calls) \in Nat /\ w.proc.signals \in Nat /\ Cardinality(Open(w.calls)) \in Nat
      /\ Cardinality(Before(v.proc)) \in Nat /\ Cardinality(UpTo(v.proc)) \in Nat
  BY CountedAreFinite
<1>3. /\ Cardinality(Before(v.proc)) <= Cardinality(Before(w.proc))
      /\ Cardinality(UpTo(v.proc)) <= Cardinality(UpTo(w.proc))
  BY <1>1, <1>2, FS_Subset
<1>4. Weight(v) <= Weight(w)
  BY <1>1, <1>2, <1>3 DEF Weight
<1>5. Apps(v) <= Apps(w)
  BY <1>1, <1>2 DEF Apps
<1> QED
  BY <1>1, <1>4, <1>5 DEF Within, Spared

\* Steps within the bounds follow one another.
LEMMA WithinFollows ==
    ASSUME NEW w \in WorldType, NEW v \in WorldType, NEW u \in WorldType,
           Within(w, v), Within(v, u)
    PROVE  Within(w, u)
<1>1. ASSUME NEW x \in WorldType PROVE Weight(x) \in Nat /\ Apps(x) \in Nat
  <2>1. /\ Cardinality(Before(x.proc)) \in Nat /\ Cardinality(UpTo(x.proc)) \in Nat
        /\ Cardinality(Open(x.calls)) \in Nat
        /\ Len(x.calls) \in Nat /\ x.proc.signals \in Nat
    BY CountedAreFinite
  <2> QED
    BY <2>1 DEF Weight, Apps
<1>2. /\ Weight(w) \in Nat /\ Weight(v) \in Nat /\ Weight(u) \in Nat
      /\ Apps(w) \in Nat /\ Apps(v) \in Nat /\ Apps(u) \in Nat
  BY <1>1
<1> QED
  BY <1>2 DEF Within

\* A memory and calls have no other parts.
LEMMA WorldParts ==
    ASSUME NEW w \in WorldType
    PROVE  /\ w.proc \in Events!Proc /\ w.calls \in Seq(Events!Call)
           /\ w = [proc |-> w.proc, calls |-> w.calls]
BY DEF WorldType

\* An awaited event of an evaluation means an evaluation under way.
LEMMA NobodyWaits ==
    ASSUME NEW w, Good(w), w.proc.inFlight = 0
    PROVE  Waiting(w.calls) = {}
<1>1. ASSUME NEW c \in Waiting(w.calls) PROVE FALSE
  <2>1. /\ w.calls[c].signal \in Events!Signals
        /\ w.proc.stage[w.calls[c].signal] = EvalStage(w.calls[c].kind)
    BY <1>1 DEF Good, LinkInv
  <2>2. w.proc.stage[w.calls[c].signal] \in Active
    BY <2>1 DEF EvalStage, Active
  <2>3. w.proc.inFlight = w.calls[c].signal
    BY <2>1, <2>2 DEF Good, ProcInv
  <2> QED
    BY <2>1, <2>3, SignalsAreFinite
<1> QED
  BY <1>1

-----------------------------------------------------------------------------
(* Evaluations. *)

\* collectTransitionWindowTelemetry() begins.
LEMMA StartGood ==
    ASSUME NEW w, Good(w), NEW s \in Events!Signals, w.proc.inFlight = 0,
           w.proc.stage[s] = "none", s <= w.proc.signals, bucket \in 0 .. MaxBucket
    PROVE  Good(Events!Start(w, s)) /\ Calmer(w, Events!Start(w, s))
<1>1. PICK p \in Events!Proc : p = w.proc
  BY WorldParts DEF Good
<1>2. PICK cs \in Seq(Events!Call) : cs = w.calls
  BY WorldParts DEF Good
<1>3. PICK pr : pr = IF ~(p.mode = "fallback" \/ p.degraded) /\ p.probe = "none"
                       THEN "running" ELSE p.probe
  OBVIOUS
<1>4. PICK st : st = IF p.mode = "fallback" \/ p.degraded \/ p.probe = "yes"
                       THEN "collect" ELSE "probe"
  OBVIOUS
<1>5. PICK g : g = [p.stage EXCEPT ![s] = st]
  OBVIOUS
<1>6. PICK q : q = [mode |-> p.mode, probe |-> pr, degraded |-> p.degraded,
                    signals |-> p.signals, pending |-> p.pending, inFlight |-> s,
                    last |-> bucket, rested |-> FALSE, stage |-> g, breached |-> p.breached]
  OBVIOUS
<1>7. PICK v : v = [w EXCEPT !.proc = q]
  OBVIOUS
<1>8. Events!Start(w, s) = v
  <2>1. q = [p EXCEPT !.rested = FALSE, !.last = bucket, !.inFlight = s, !.probe = pr,
                      !.stage = g]
    <3>1. PICK a : a = [p EXCEPT !.rested = FALSE]
      OBVIOUS
    <3>2. PICK b : b = [a EXCEPT !.last = bucket]
      OBVIOUS
    <3>3. PICK c : c = [b EXCEPT !.inFlight = s]
      OBVIOUS
    <3>4. PICK d : d = [c EXCEPT !.probe = pr]
      OBVIOUS
    <3>5. a = [mode |-> p.mode, probe |-> p.probe, degraded |-> p.degraded,
               signals |-> p.signals, pending |-> p.pending, inFlight |-> p.inFlight,
               last |-> p.last, rested |-> FALSE, stage |-> p.stage, breached |-> p.breached]
      BY <3>1 DEF Events!Proc
    <3>6. b = [mode |-> p.mode, probe |-> p.probe, degraded |-> p.degraded,
               signals |-> p.signals, pending |-> p.pending, inFlight |-> p.inFlight,
               last |-> bucket, rested |-> FALSE, stage |-> p.stage, breached |-> p.breached]
      BY <3>2, <3>5
    <3>7. c = [mode |-> p.mode, probe |-> p.probe, degraded |-> p.degraded,
               signals |-> p.signals, pending |-> p.pending, inFlight |-> s,
               last |-> bucket, rested |-> FALSE, stage |-> p.stage, breached |-> p.breached]
      BY <3>3, <3>6
    <3>8. d = [mode |-> p.mode, probe |-> pr, degraded |-> p.degraded,
               signals |-> p.signals, pending |-> p.pending, inFlight |-> s,
               last |-> bucket, rested |-> FALSE, stage |-> p.stage, breached |-> p.breached]
      BY <3>4, <3>7
    <3>9. PICK e : e = [d EXCEPT !.stage = g]
      OBVIOUS
    <3>10. e = [mode |-> p.mode, probe |-> pr, degraded |-> p.degraded,
                signals |-> p.signals, pending |-> p.pending, inFlight |-> s,
                last |-> bucket, rested |-> FALSE, stage |-> g, breached |-> p.breached]
      BY <3>8, <3>9
    <3>11. q = e
      BY <1>6, <3>10
    <3> QED
      BY <3>1, <3>2, <3>3, <3>4, <3>9, <3>11
  <2>2. [p EXCEPT !.rested = FALSE, !.last = bucket, !.inFlight = s,
                  !.probe = IF ~(p.mode = "fallback" \/ p.degraded) /\ @ = "none"
                              THEN "running" ELSE @,
                  !.stage[s] = IF (p.mode = "fallback" \/ p.degraded) \/ p.probe = "yes"
                                 THEN "collect" ELSE "probe"] = q
    BY <1>3, <1>4, <1>5, <2>1
  <2> QED
    BY <1>1, <1>7, <2>2 DEF Events!Start
<1>9. v = [proc |-> q, calls |-> cs]
  BY <1>2, <1>7, WorldParts DEF Good, WorldType
<1>10. /\ pr \in {"none", "running", "yes", "no"} /\ (pr = "yes" => p.probe = "yes")
       /\ st \in {"collect", "probe"}
  BY <1>3, <1>4 DEF Events!Proc
<1>11. /\ g \in [Events!Signals -> Events!Stages] /\ g[s] = st
       /\ \A t \in Events!Signals : t # s => g[t] = p.stage[t]
  BY <1>5, <1>10 DEF Events!Proc, Events!Stages
<1>12. s \in 0 .. MaxEvents
  BY SignalsAreFinite
<1>13. q \in Events!Proc
  BY <1>6, <1>10, <1>11, <1>12 DEF Events!Proc
<1>14. v \in WorldType
  BY <1>9, <1>13 DEF WorldType
<1>15. ProcInv(p) /\ p.inFlight = 0 /\ p.stage[s] = "none" /\ s <= p.signals
  BY <1>1 DEF Good
<1>16. ProcInv(q)
  <2>1. p.pending = 0
    BY <1>15 DEF ProcInv
  <2>2. \A t \in Events!Signals : p.stage[t] \notin Active
    BY <1>15, SignalsAreFinite DEF ProcInv
  <2>3. /\ q.signals = p.signals /\ q.pending = p.pending /\ q.inFlight = s /\ q.stage = g
    BY <1>6
  <2>4. \A t \in Events!Signals : g[t] \in Active => t = s
    BY <1>11, <2>2
  <2>5. \A t \in Events!Signals : g[t] # "none" => t <= p.signals
    BY <1>11, <1>15 DEF ProcInv
  <2> QED
    BY <1>12, <1>15, <2>1, <2>3, <2>4, <2>5, SignalsAreFinite DEF ProcInv
<1>17. LinkInv(q, cs)
  BY <1>2, NobodyWaits DEF LinkInv
<1>18. CallsInv(cs)
  BY <1>2 DEF Good
<1>19. Good(v)
  BY <1>9, <1>14, <1>16, <1>17, <1>18 DEF Good
<1>20. Before(q) = Before(p) /\ UpTo(q) = UpTo(p)
  BY <1>6, <1>10, <1>11, <1>15 DEF Before, UpTo
<1>21. Calmer(w, v)
  BY <1>1, <1>2, <1>6, <1>9, <1>10, <1>20 DEF Calmer
<1> QED
  BY <1>8, <1>19, <1>21

\* triggerCreationTransitionGateEvaluation() with a signal newer than all before: it starts
\* an evaluation, waits for the one under way, or is ignored.
LEMMA TriggerGood ==
    ASSUME NEW w, Good(w), NEW s \in Events!Signals, s <= w.proc.signals,
           \A t \in Events!Signals : w.proc.stage[t] # "none" => t < s,
           w.proc.pending < s, bucket \in 0 .. MaxBucket
    PROVE  Good(Events!Trigger(w, s)) /\ Calmer(w, Events!Trigger(w, s))
<1>1. PICK p \in Events!Proc : p = w.proc
  BY WorldParts DEF Good
<1>2. PICK cs \in Seq(Events!Call) : cs = w.calls
  BY WorldParts DEF Good
<1>3. w = [proc |-> p, calls |-> cs]
  BY <1>1, <1>2, WorldParts DEF Good
<1>4. /\ s \in 0 .. MaxEvents /\ s \in Nat /\ MaxEvents \in Nat
      /\ p.pending \in Nat /\ p.signals \in Nat
  BY SignalsAreFinite DEF Events!Proc
<1>5. CASE p.inFlight # 0
  <2>1. PICK q : q = [p EXCEPT !.pending = s]
    OBVIOUS
  <2>2. ~(p.pending > s)
    BY <1>1, <1>4
  <2>3. Events!Trigger(w, s) = [proc |-> q, calls |-> cs]
    <3>1. Events!Trigger(w, s) = [w EXCEPT !.proc.pending = IF @ > s THEN @ ELSE s]
      BY <1>1, <1>5 DEF Events!Trigger
    <3>2. [p EXCEPT !.pending = IF @ > s THEN @ ELSE s] = q
      BY <2>1, <2>2
    <3>3. [w EXCEPT !.proc.pending = IF @ > s THEN @ ELSE s] = [w EXCEPT !.proc = q]
      BY <1>1, <3>2
    <3> QED
      BY <1>3, <3>1, <3>3
  <2>4. q \in Events!Proc
    BY <1>4, <2>1 DEF Events!Proc
  <2>5. /\ q.stage = p.stage /\ q.inFlight = p.inFlight /\ q.signals = p.signals
        /\ q.pending = s /\ q.probe = p.probe
    BY <2>1 DEF Events!Proc
  <2>6. ProcInv(q)
    BY <1>1, <1>5, <2>5 DEF Good, ProcInv
  <2>7. PICK v : v = [proc |-> q, calls |-> cs]
    OBVIOUS
  <2>8. v \in WorldType /\ v.proc = q /\ v.calls = cs
    BY <2>4, <2>7 DEF WorldType
  <2>9. Good(v)
    BY <1>1, <1>2, <2>5, <2>6, <2>8 DEF Good, LinkInv
  <2>10. Calmer(w, v)
    BY <1>1, <1>2, <2>5, <2>8 DEF Calmer, Before, UpTo
  <2> QED
    BY <2>3, <2>7, <2>9, <2>10
<1>6. CASE p.inFlight = 0 /\ p.rested
  <2>1. Events!Trigger(w, s) = Events!Start(w, s)
    BY <1>1, <1>6 DEF Events!Trigger
  <2>2. w.proc.stage[s] = "none"
    BY <1>4
  <2> QED
    BY <1>1, <1>6, <2>1, <2>2, StartGood
<1>7. CASE p.inFlight = 0 /\ ~p.rested
  BY <1>1, <1>7 DEF Events!Trigger, Calmer
<1> QED
  BY <1>5, <1>6, <1>7

\* The end of the evaluation under way, of which nothing is awaited.
LEMMA FinishGood ==
    ASSUME NEW w, Good(w), NEW s \in Events!Signals, Waiting(w.calls) = {},
           w.proc.stage[s] \in Active, bucket \in 0 .. MaxBucket
    PROVE  /\ Good(Events!Finish(w, s)) /\ Calmer(w, Events!Finish(w, s))
           /\ s \notin Before(Events!Finish(w, s).proc) /\ s \notin UpTo(Events!Finish(w, s).proc)
<1>1. PICK p \in Events!Proc : p = w.proc
  BY WorldParts DEF Good
<1>2. PICK cs \in Seq(Events!Call) : cs = w.calls
  BY WorldParts DEF Good
<1>3. w = [proc |-> p, calls |-> cs]
  BY <1>1, <1>2, WorldParts DEF Good
<1>4. ProcInv(p) /\ p.inFlight = s /\ p.stage[s] # "none"
  BY <1>1 DEF Good, ProcInv, Active
<1>5. PICK g : g = [p.stage EXCEPT ![s] = "done"]
  OBVIOUS
<1>6. /\ g \in [Events!Signals -> Events!Stages] /\ g[s] = "done"
      /\ \A t \in Events!Signals : t # s => g[t] = p.stage[t]
  BY <1>5 DEF Events!Proc, Events!Stages
<1>7. PICK p1 : p1 = [p EXCEPT !.stage = g, !.inFlight = 0]
  OBVIOUS
<1>8. [w.proc EXCEPT !.stage[s] = "done", !.inFlight = 0] = p1
  BY <1>1, <1>5, <1>7
<1>9. p1 = [mode |-> p.mode, probe |-> p.probe, degraded |-> p.degraded,
            signals |-> p.signals, pending |-> p.pending, inFlight |-> 0,
            last |-> p.last, rested |-> p.rested, stage |-> g, breached |-> p.breached]
  <2>1. PICK a : a = [p EXCEPT !.stage = g]
    OBVIOUS
  <2>2. a = [mode |-> p.mode, probe |-> p.probe, degraded |-> p.degraded,
             signals |-> p.signals, pending |-> p.pending, inFlight |-> p.inFlight,
             last |-> p.last, rested |-> p.rested, stage |-> g, breached |-> p.breached]
    BY <2>1 DEF Events!Proc
  <2>3. p1 = [a EXCEPT !.inFlight = 0]
    BY <1>7, <2>1
  <2> QED
    BY <2>2, <2>3
<1>10. /\ p.signals \in Nat /\ p.pending \in 0 .. MaxEvents /\ 0 \in 0 .. MaxEvents
       /\ MaxEvents \in Nat /\ s \in Nat /\ s > 0
  BY SignalsAreFinite DEF Events!Proc
<1>11. \A t \in Events!Signals : g[t] \notin Active
  BY <1>4, <1>6 DEF ProcInv, Active
<1>12. \A t \in Events!Signals : g[t] # "none" => t <= p.signals
  BY <1>4, <1>6 DEF ProcInv
<1>13. p.pending # 0 => \A t \in Events!Signals : g[t] # "none" => t < p.pending
  BY <1>4, <1>6 DEF ProcInv
<1>14. Before(p1) \subseteq Before(p) \ {s} /\ UpTo(p1) \subseteq UpTo(p) \ {s}
  BY <1>6, <1>9 DEF Before, UpTo
<1>15. CASE p.pending > s
  <2>1. PICK q : q = [mode |-> p.mode, probe |-> p.probe, degraded |-> p.degraded,
                      signals |-> p.signals, pending |-> 0, inFlight |-> 0,
                      last |-> p.last, rested |-> TRUE, stage |-> g, breached |-> p.breached]
    OBVIOUS
  <2>2. q = [p1 EXCEPT !.pending = 0, !.rested = TRUE]
    <3>1. PICK a : a = [p1 EXCEPT !.pending = 0]
      OBVIOUS
    <3>2. a = [mode |-> p.mode, probe |-> p.probe, degraded |-> p.degraded,
               signals |-> p.signals, pending |-> 0, inFlight |-> 0,
               last |-> p.last, rested |-> p.rested, stage |-> g, breached |-> p.breached]
      BY <1>9, <3>1
    <3>3. PICK b : b = [a EXCEPT !.rested = TRUE]
      OBVIOUS
    <3>4. b = [mode |-> p.mode, probe |-> p.probe, degraded |-> p.degraded,
               signals |-> p.signals, pending |-> 0, inFlight |-> 0,
               last |-> p.last, rested |-> TRUE, stage |-> g, breached |-> p.breached]
      BY <3>2, <3>3
    <3>5. q = b
      BY <2>1, <3>4
    <3> QED
      BY <3>1, <3>3, <3>5
  <2>3. PICK u : u = [proc |-> q, calls |-> cs]
    OBVIOUS
  <2>4. [w EXCEPT !.proc = [p1 EXCEPT !.pending = 0, !.rested = TRUE]] = u
    BY <1>3, <2>2, <2>3
  <2>5. Events!Finish(w, s) = Events!Trigger(u, p.pending)
    <3>1. p1.pending = p.pending
      BY <1>9
    <3> QED
      BY <1>8, <1>15, <2>4, <3>1 DEF Events!Finish
  <2>6. q \in Events!Proc
    BY <1>6, <1>10, <2>1 DEF Events!Proc
  <2>7. u \in WorldType /\ u.proc = q /\ u.calls = cs
    BY <2>3, <2>6 DEF WorldType
  <2>8. /\ q.pending = 0 /\ q.inFlight = 0 /\ q.stage = g /\ q.signals = p.signals
        /\ q.probe = p.probe
    BY <2>1
  <2>9. ProcInv(q)
    BY <1>10, <1>11, <1>12, <2>8 DEF ProcInv
  <2>10. Good(u)
    BY <1>2, <2>7, <2>9 DEF Good, LinkInv
  <2>11. /\ p.pending \in Events!Signals /\ p.pending <= u.proc.signals
         /\ \A t \in Events!Signals : u.proc.stage[t] # "none" => t < p.pending
         /\ u.proc.pending < p.pending
    <3>1. p.pending \in Events!Signals /\ p.pending > 0
      BY <1>10, <1>15 DEF Events!Signals
    <3> QED
      BY <1>4, <1>10, <1>13, <2>7, <2>8, <3>1 DEF ProcInv
  <2>12. Good(Events!Trigger(u, p.pending)) /\ Calmer(u, Events!Trigger(u, p.pending))
    BY <2>10, <2>11, TriggerGood
  <2>13. PICK v : v = Events!Finish(w, s)
    OBVIOUS
  <2>14. Good(v) /\ Calmer(u, v)
    BY <2>5, <2>12, <2>13
  <2>15. Before(q) = Before(p1) /\ UpTo(q) = UpTo(p1)
    BY <1>9, <2>8 DEF Before, UpTo
  <2>16. Calmer(w, v) /\ s \notin Before(v.proc) /\ s \notin UpTo(v.proc)
    BY <1>1, <1>2, <1>14, <2>7, <2>8, <2>14, <2>15 DEF Calmer
  <2> QED
    BY <2>13, <2>14, <2>16
<1>16. CASE ~(p.pending > s)
  <2>1. PICK v : v = [proc |-> p1, calls |-> cs]
    OBVIOUS
  <2>2. Events!Finish(w, s) = v
    <3>1. p1.pending = p.pending
      BY <1>9
    <3>2. [w EXCEPT !.proc = p1] = v
      BY <1>3, <2>1
    <3> QED
      BY <1>8, <1>16, <3>1, <3>2 DEF Events!Finish
  <2>3. p1 \in Events!Proc
    BY <1>6, <1>9, <1>10 DEF Events!Proc
  <2>4. v \in WorldType /\ v.proc = p1 /\ v.calls = cs
    BY <2>1, <2>3 DEF WorldType
  <2>5. p.pending = 0
    BY <1>4, <1>10, <1>16 DEF ProcInv
  <2>6. /\ p1.pending = 0 /\ p1.inFlight = 0 /\ p1.stage = g /\ p1.signals = p.signals
        /\ p1.probe = p.probe
    BY <1>9, <2>5
  <2>7. ProcInv(p1)
    BY <1>10, <1>11, <1>12, <2>6 DEF ProcInv
  <2>8. Good(v)
    BY <1>2, <2>4, <2>7 DEF Good, LinkInv
  <2>9. Calmer(w, v) /\ s \notin Before(v.proc) /\ s \notin UpTo(v.proc)
    BY <1>1, <1>2, <1>14, <2>4, <2>6 DEF Calmer
  <2> QED
    BY <2>2, <2>8, <2>9
<1> QED
  BY <1>15, <1>16

\* A memory whose sink and probe alone may have changed.
Quiet(p, q) ==
    /\ q.degraded = p.degraded /\ q.signals = p.signals /\ q.pending = p.pending
    /\ q.inFlight = p.inFlight /\ q.last = p.last /\ q.rested = p.rested
    /\ q.stage = p.stage /\ q.breached = p.breached

-----------------------------------------------------------------------------
(* Calls. *)

\* emitEvent() appends a call that waits for the table, for its row or for nothing.
LEMMA EmitShape ==
    ASSUME NEW w \in WorldType, NEW kind \in {"app", "tick", "warning"},
           NEW s \in 0 .. MaxEvents, NEW key \in Events!Keys \cup {Events!NoKey}
    PROVE  \E call \in Events!Call, q \in Events!Proc :
             /\ Events!Emit(w, kind, s, key)
                  = [proc |-> q, calls |-> Append(w.calls, call)]
             /\ Quiet(w.proc, q) /\ (q.probe = "yes" => w.proc.probe = "yes")
             /\ call.kind = kind /\ call.signal = s /\ call.key = key /\ ~call.landed
             /\ \/ call.answer = "none" /\ call.pc \in {"probe", "insert"}
                \/ call.answer = "skipped" /\ call.pc = "over"
             /\ call.pc = "insert" => w.proc.probe = "yes"
<1>1. PICK p \in Events!Proc : p = w.proc
  BY WorldParts
<1>2. PICK skips \in BOOLEAN : skips = (p.mode = "fallback" \/ p.degraded)
  OBVIOUS
<1>3. PICK at \in {"probe", "insert", "over"} :
        at = IF skips THEN "over" ELSE IF p.probe = "yes" THEN "insert" ELSE "probe"
  OBVIOUS
<1>4. PICK answer \in Events!Answers : answer = IF skips THEN "skipped" ELSE "none"
  BY DEF Events!Answers
<1>5. PICK call : call = [kind |-> kind, signal |-> s, key |-> key, pc |-> at,
                          answer |-> answer, landed |-> FALSE]
  OBVIOUS
<1>6. call \in Events!Call
  BY <1>5 DEF Events!Call
<1>7. PICK mode \in {"ready", "fallback"} : mode = IF skips THEN "fallback" ELSE p.mode
  BY DEF Events!Proc
<1>8. PICK probe \in {"none", "running", "yes", "no"} :
        probe = IF ~skips /\ p.probe = "none" THEN "running" ELSE p.probe
  BY DEF Events!Proc
<1>9. PICK q : q = [p EXCEPT !.mode = mode, !.probe = probe]
  OBVIOUS
<1>10. q \in Events!Proc
  BY <1>9 DEF Events!Proc
<1>11. Quiet(p, q) /\ q.probe = probe
  BY <1>9 DEF Events!Proc, Quiet
<1>12. Events!Emit(w, kind, s, key) = [proc |-> q, calls |-> Append(w.calls, call)]
  <2>1. [p EXCEPT !.mode = IF skips THEN "fallback" ELSE @,
                  !.probe = IF ~skips /\ @ = "none" THEN "running" ELSE @] = q
    BY <1>7, <1>8, <1>9 DEF Events!Proc
  <2> QED
    BY <1>1, <1>2, <1>3, <1>4, <1>5, <2>1 DEF Events!Emit
<1>13. /\ q.probe = "yes" => p.probe = "yes"
       /\ call.kind = kind /\ call.signal = s /\ call.key = key /\ ~call.landed
       /\ \/ call.answer = "none" /\ call.pc \in {"probe", "insert"}
          \/ call.answer = "skipped" /\ call.pc = "over"
       /\ call.pc = "insert" => p.probe = "yes"
  BY <1>3, <1>4, <1>5, <1>8, <1>11
<1> QED
  BY <1>1, <1>6, <1>10, <1>11, <1>12, <1>13

\* A call more.
LEMMA OneMore ==
    ASSUME NEW cs \in Seq(Events!Call), NEW call \in Events!Call
    PROVE  /\ Append(cs, call) \in Seq(Events!Call)
           /\ Len(Append(cs, call)) = Len(cs) + 1 /\ Len(cs) \in Nat
           /\ DOMAIN cs = 1 .. Len(cs) /\ DOMAIN Append(cs, call) = 1 .. Len(cs) + 1
           /\ Append(cs, call)[Len(cs) + 1] = call
           /\ \A i \in 1 .. Len(cs) : Append(cs, call)[i] = cs[i]
<1>1. /\ Append(cs, call) \in Seq(Events!Call) /\ Len(cs) \in Nat
      /\ Len(Append(cs, call)) = Len(cs) + 1
      /\ Append(cs, call)[Len(cs) + 1] = call
      /\ \A i \in 1 .. Len(cs) : Append(cs, call)[i] = cs[i]
  BY AppendProperties, LenProperties
<1> QED
  BY <1>1

\* What a new call does to what is said of the calls.
LEMMA OneMoreCall ==
    ASSUME NEW cs \in Seq(Events!Call), NEW call \in Events!Call, CallsInv(cs), CallInv(call),
           call.kind = "warning" => \E t \in DOMAIN cs :
              cs[t].kind = "tick" /\ cs[t].landed /\ cs[t].signal = call.signal
    PROVE  /\ CallsInv(Append(cs, call))
           /\ call.kind # "app" /\ call.answer = "none" =>
                Waiting(Append(cs, call)) = Waiting(cs) \cup {Len(cs) + 1}
           /\ ~(call.kind # "app" /\ call.answer = "none") =>
                Waiting(Append(cs, call)) = Waiting(cs)
           /\ call.kind = "app" /\ call.answer = "none" =>
                Open(Append(cs, call)) = Open(cs) \cup {Len(cs) + 1}
           /\ ~(call.kind = "app" /\ call.answer = "none") =>
                Open(Append(cs, call)) = Open(cs)
<1>1. PICK n \in Nat : n = Len(cs)
  BY LenProperties
<1>2. PICK ds \in Seq(Events!Call) : ds = Append(cs, call)
  BY OneMore
<1>3. /\ DOMAIN cs = 1 .. n /\ DOMAIN ds = 1 .. n + 1 /\ ds[n + 1] = call
      /\ \A i \in 1 .. n : ds[i] = cs[i]
  BY <1>1, <1>2, OneMore
<1>4. 1 .. n + 1 = 1 .. n \cup {n + 1} /\ n + 1 \notin 1 .. n
  OBVIOUS
<1>5. Leased(ds)
  <2>1. ASSUME NEW c \in 1 .. n + 1, ds[c].kind = "warning"
        PROVE  \E t \in 1 .. n + 1 :
                 ds[t].kind = "tick" /\ ds[t].landed /\ ds[t].signal = ds[c].signal
    <3>1. CASE c = n + 1
      <4>1. PICK t \in 1 .. n :
              cs[t].kind = "tick" /\ cs[t].landed /\ cs[t].signal = call.signal
        BY <1>3, <2>1, <3>1
      <4> QED
        BY <1>3, <1>4, <3>1, <4>1
    <3>2. CASE c # n + 1
      <4>1. c \in 1 .. n /\ cs[c].kind = "warning"
        BY <1>3, <1>4, <2>1, <3>2
      <4>2. PICK t \in 1 .. n :
              cs[t].kind = "tick" /\ cs[t].landed /\ cs[t].signal = cs[c].signal
        BY <1>3, <4>1 DEF CallsInv, Leased
      <4> QED
        BY <1>3, <1>4, <4>1, <4>2
    <3> QED
      BY <3>1, <3>2
  <2> QED
    BY <1>3, <2>1 DEF Leased
<1>6. \A c \in DOMAIN ds : CallInv(ds[c])
  BY <1>3, <1>4 DEF CallsInv
<1>7. CallsInv(ds)
  BY <1>5, <1>6 DEF CallsInv
<1>8. /\ \A c : c \in Waiting(ds) <=>
           \/ c \in Waiting(cs)
           \/ c = n + 1 /\ call.kind # "app" /\ call.answer = "none"
      /\ \A c : c \in Open(ds) <=>
           \/ c \in Open(cs)
           \/ c = n + 1 /\ call.kind = "app" /\ call.answer = "none"
  BY <1>3, <1>4 DEF Waiting, Open
<1>9. /\ call.kind # "app" /\ call.answer = "none" => Waiting(ds) = Waiting(cs) \cup {n + 1}
      /\ ~(call.kind # "app" /\ call.answer = "none") => Waiting(ds) = Waiting(cs)
  BY <1>8
<1>10. /\ call.kind = "app" /\ call.answer = "none" => Open(ds) = Open(cs) \cup {n + 1}
       /\ ~(call.kind = "app" /\ call.answer = "none") => Open(ds) = Open(cs)
  BY <1>8
<1> QED
  BY <1>1, <1>2, <1>7, <1>9, <1>10

\* An event of the application is emitted.
LEMMA EmitAppGood ==
    ASSUME NEW w, Good(w)
    PROVE  LET v == Events!Emit(w, "app", 0, Events!NoKey)
           IN  /\ Good(v) /\ (v.proc.probe = "yes" => w.proc.probe = "yes")
               /\ Spared(w) => Spared(v)
               /\ Weight(v) = Weight(w) + 1 /\ Apps(v) <= Apps(w) + 1
<1>1. w \in WorldType /\ w.proc \in Events!Proc /\ w.calls \in Seq(Events!Call)
  BY WorldParts DEF Good
<1>2. PICK v : v = Events!Emit(w, "app", 0, Events!NoKey)
  OBVIOUS
<1>3. 0 \in 0 .. MaxEvents
  BY SignalsAreFinite
<1>4. PICK call \in Events!Call, q \in Events!Proc :
        /\ v = [proc |-> q, calls |-> Append(w.calls, call)]
        /\ Quiet(w.proc, q) /\ (q.probe = "yes" => w.proc.probe = "yes")
        /\ call.kind = "app" /\ ~call.landed
        /\ \/ call.answer = "none" /\ call.pc \in {"probe", "insert"}
           \/ call.answer = "skipped" /\ call.pc = "over"
        /\ call.pc = "insert" => w.proc.probe = "yes"
  BY <1>1, <1>2, <1>3, EmitShape
<1>5. CallInv(call)
  BY <1>4 DEF CallInv
<1>6. CallsInv(w.calls) /\ ProcInv(w.proc) /\ LinkInv(w.proc, w.calls)
  BY DEF Good
<1>7. /\ CallsInv(Append(w.calls, call))
      /\ Waiting(Append(w.calls, call)) = Waiting(w.calls)
      /\ \/ Open(Append(w.calls, call)) = Open(w.calls) \cup {Len(w.calls) + 1}
         \/ Open(Append(w.calls, call)) = Open(w.calls)
  BY <1>1, <1>4, <1>5, <1>6, OneMoreCall
<1>8. PICK ds \in Seq(Events!Call) : ds = Append(w.calls, call)
  BY <1>1, OneMore
<1>9. /\ Len(ds) = Len(w.calls) + 1 /\ DOMAIN w.calls = 1 .. Len(w.calls)
      /\ DOMAIN ds = 1 .. Len(w.calls) + 1 /\ ds[Len(w.calls) + 1] = call
      /\ \A i \in 1 .. Len(w.calls) : ds[i] = w.calls[i]
  BY <1>1, <1>8, OneMore
<1>10. v.proc = q /\ v.calls = ds /\ v \in WorldType
  BY <1>4, <1>8 DEF WorldType
<1>11. ProcInv(q)
  BY <1>4, <1>6 DEF Quiet, ProcInv
<1>12. LinkInv(q, ds)
  <2>1. \A c \in Waiting(w.calls) : ds[c] = w.calls[c]
    BY <1>9 DEF Waiting
  <2> QED
    BY <1>4, <1>6, <1>7, <1>8, <2>1 DEF Quiet, LinkInv
<1>13. Good(v)
  BY <1>7, <1>8, <1>10, <1>11, <1>12 DEF Good
<1>14. Spared(w) => Spared(v)
  <2>1. ASSUME Spared(w), NEW c \in DOMAIN ds PROVE ds[c].pc # "insert"
    <3>1. CASE c = Len(w.calls) + 1
      BY <1>4, <1>9, <2>1, <3>1 DEF Spared
    <3>2. CASE c # Len(w.calls) + 1
      <4>1. c \in 1 .. Len(w.calls)
        BY <1>1, <1>9, <3>2, LenProperties
      <4> QED
        BY <1>9, <2>1, <4>1 DEF Spared
    <3> QED
      BY <3>1, <3>2
  <2> QED
    BY <1>4, <1>10, <2>1 DEF Spared
<1>15. /\ Cardinality(Before(w.proc)) \in Nat /\ Cardinality(UpTo(w.proc)) \in Nat
       /\ IsFiniteSet(Open(w.calls)) /\ Cardinality(Open(w.calls)) \in Nat
       /\ Len(w.calls) \in Nat /\ w.proc.signals \in Nat
  BY <1>1, CountedAreFinite
<1>16. Before(q) = Before(w.proc) /\ UpTo(q) = UpTo(w.proc)
  BY <1>4 DEF Quiet, Before, UpTo
<1>17. Weight(v) = Weight(w) + 1
  <2>1. PICK n \in Nat : n = Len(w.calls)
    BY <1>15
  <2>2. PICK a \in Nat, b \in Nat : a = Cardinality(Before(w.proc)) /\ b = Cardinality(UpTo(w.proc))
    BY <1>15
  <2>3. Weight(w) = n + a + b
    BY <2>1, <2>2 DEF Weight
  <2>4. Weight(v) = (n + 1) + a + b
    BY <1>9, <1>10, <1>16, <2>1, <2>2 DEF Weight
  <2> QED
    BY <2>3, <2>4
<1>18. PICK d \in Nat, o \in Nat :
         d = Cardinality(Open(ds)) /\ o = Cardinality(Open(w.calls))
  BY <1>10, <1>15, CountedAreFinite
<1>19. d <= o + 1
  <2>1. CASE Open(ds) = Open(w.calls) \cup {Len(w.calls) + 1}
    <3>1. \/ Cardinality(Open(w.calls) \cup {Len(w.calls) + 1}) = Cardinality(Open(w.calls)) + 1
          \/ Cardinality(Open(w.calls) \cup {Len(w.calls) + 1}) = Cardinality(Open(w.calls))
      BY <1>15, FS_AddElement
    <3> QED
      BY <1>18, <2>1, <3>1
  <2>2. CASE Open(ds) = Open(w.calls)
    BY <1>18, <2>2
  <2> QED
    BY <1>7, <1>8, <2>1, <2>2
<1>20. Apps(v) <= Apps(w) + 1
  <2>1. PICK n \in Nat : n = w.proc.signals
    BY <1>15
  <2>2. Apps(w) = n + o /\ Apps(v) = n + d
    BY <1>4, <1>10, <1>18, <2>1 DEF Apps, Quiet
  <2> QED
    BY <1>19, <2>2
<1> QED
  BY <1>2, <1>4, <1>10, <1>13, <1>14, <1>17, <1>20

\* An evaluation emits an event, which it awaits unless it was skipped; then it ends.
LEMMA EvaluationEmits ==
    ASSUME NEW w, Good(w), Waiting(w.calls) = {}, NEW s \in Events!Signals,
           NEW kind \in {"tick", "warning"}, NEW key \in Events!Keys \cup {Events!NoKey},
           NEW u \in WorldType, u.calls = w.calls,
           u.proc.signals = w.proc.signals, u.proc.pending = w.proc.pending,
           u.proc.inFlight = w.proc.inFlight, u.proc.probe = w.proc.probe,
           u.proc.stage[s] = EvalStage(kind),
           \A t \in Events!Signals : t # s => u.proc.stage[t] = w.proc.stage[t],
           kind = "tick" => w.proc.stage[s] = "collect",
           kind = "warning" => /\ w.proc.stage[s] = "tick"
                               /\ \E t \in DOMAIN w.calls :
                                    /\ w.calls[t].kind = "tick" /\ w.calls[t].landed
                                    /\ w.calls[t].signal = s,
           bucket \in 0 .. MaxBucket
    PROVE  LET v == Events!FinishUnless(Events!Emit(u, kind, s, key), s, kind)
           IN  Good(v) /\ Within(w, v)
<1>1. w \in WorldType /\ w.proc \in Events!Proc /\ w.calls \in Seq(Events!Call)
  BY WorldParts DEF Good
<1>2. s \in 0 .. MaxEvents /\ kind \in {"app", "tick", "warning"} /\ kind # "app"
  BY SignalsAreFinite
<1>3. PICK e : e = Events!Emit(u, kind, s, key)
  OBVIOUS
<1>4. PICK call \in Events!Call, q \in Events!Proc :
        /\ e = [proc |-> q, calls |-> Append(u.calls, call)]
        /\ Quiet(u.proc, q) /\ (q.probe = "yes" => u.proc.probe = "yes")
        /\ call.kind = kind /\ call.signal = s /\ ~call.landed
        /\ \/ call.answer = "none" /\ call.pc \in {"probe", "insert"}
           \/ call.answer = "skipped" /\ call.pc = "over"
        /\ call.pc = "insert" => u.proc.probe = "yes"
  <2>1. PICK k : k = key
    OBVIOUS
  <2>2. k \in Events!Keys \cup {Events!NoKey}
    BY <2>1
  <2>3. PICK call \in Events!Call, q \in Events!Proc :
          /\ Events!Emit(u, kind, s, k) = [proc |-> q, calls |-> Append(u.calls, call)]
          /\ Quiet(u.proc, q) /\ (q.probe = "yes" => u.proc.probe = "yes")
          /\ call.kind = kind /\ call.signal = s /\ call.key = k /\ ~call.landed
          /\ \/ call.answer = "none" /\ call.pc \in {"probe", "insert"}
             \/ call.answer = "skipped" /\ call.pc = "over"
          /\ call.pc = "insert" => u.proc.probe = "yes"
    BY <1>2, <2>2, EmitShape
  <2> QED
    BY <1>3, <2>1, <2>3
<1>5. CallInv(call)
  BY <1>4 DEF CallInv
<1>6. CallsInv(w.calls) /\ ProcInv(w.proc)
  BY DEF Good
<1>7. call.kind = "warning" => \E t \in DOMAIN w.calls :
        w.calls[t].kind = "tick" /\ w.calls[t].landed /\ w.calls[t].signal = call.signal
  BY <1>4
<1>8. PICK ds \in Seq(Events!Call) : ds = Append(w.calls, call)
  BY <1>1, OneMore
<1>9. /\ CallsInv(ds) /\ Open(ds) = Open(w.calls)
      /\ call.answer = "none" => Waiting(ds) = {Len(w.calls) + 1}
      /\ call.answer # "none" => Waiting(ds) = {}
  BY <1>1, <1>2, <1>4, <1>5, <1>6, <1>7, <1>8, OneMoreCall
<1>10. /\ Len(ds) = Len(w.calls) + 1 /\ DOMAIN w.calls = 1 .. Len(w.calls)
       /\ DOMAIN ds = 1 .. Len(w.calls) + 1 /\ ds[Len(w.calls) + 1] = call
       /\ \A i \in 1 .. Len(w.calls) : ds[i] = w.calls[i]
       /\ Len(w.calls) \in Nat
  BY <1>1, <1>8, OneMore
<1>11. e.proc = q /\ e.calls = ds /\ e \in WorldType
  BY <1>4, <1>8 DEF WorldType
<1>12. /\ q.signals = w.proc.signals /\ q.pending = w.proc.pending
       /\ q.inFlight = w.proc.inFlight /\ q.stage[s] = EvalStage(kind)
       /\ \A t \in Events!Signals : t # s => q.stage[t] = w.proc.stage[t]
       /\ q.probe = "yes" => w.proc.probe = "yes"
  BY <1>4 DEF Quiet
<1>13. w.proc.stage[s] \in Active /\ q.stage[s] \in Active /\ w.proc.stage[s] # "none"
  BY <1>12 DEF Active, EvalStage
<1>14. ProcInv(q)
  <2>1. \A t \in Events!Signals : q.stage[t] \in Active => w.proc.stage[t] \in Active
    BY <1>12, <1>13
  <2>2. \A t \in Events!Signals : q.stage[t] # "none" => w.proc.stage[t] # "none"
    BY <1>12, <1>13
  <2> QED
    BY <1>6, <1>12, <2>1, <2>2 DEF ProcInv
<1>15. LinkInv(q, ds)
  <2>1. CASE call.answer = "none"
    BY <1>4, <1>9, <1>10, <1>12, <2>1 DEF LinkInv
  <2>2. CASE call.answer # "none"
    BY <1>9, <2>2 DEF LinkInv
  <2> QED
    BY <2>1, <2>2
<1>16. Good(e)
  BY <1>9, <1>11, <1>14, <1>15 DEF Good
<1>17. Spared(w) => Spared(e)
  <2>1. ASSUME Spared(w), NEW c \in DOMAIN ds PROVE ds[c].pc # "insert"
    <3>1. CASE c = Len(w.calls) + 1
      BY <1>4, <1>10, <2>1, <3>1 DEF Spared
    <3>2. CASE c # Len(w.calls) + 1
      <4>1. c \in 1 .. Len(w.calls)
        BY <1>10, <3>2
      <4> QED
        BY <1>10, <2>1, <4>1 DEF Spared
    <3> QED
      BY <3>1, <3>2
  <2> QED
    BY <1>11, <1>12, <2>1 DEF Spared
<1>18. /\ IsFiniteSet(Before(w.proc)) /\ Cardinality(Before(w.proc)) \in Nat
       /\ IsFiniteSet(UpTo(w.proc)) /\ Cardinality(UpTo(w.proc)) \in Nat
       /\ Cardinality(Before(q)) \in Nat /\ Cardinality(UpTo(q)) \in Nat
       /\ Cardinality(Open(w.calls)) \in Nat /\ w.proc.signals \in Nat
  BY <1>1, <1>11, CountedAreFinite
<1>19. \/ /\ s \in Before(w.proc) /\ Before(q) = Before(w.proc) \ {s} /\ UpTo(q) = UpTo(w.proc)
       \/ /\ s \in UpTo(w.proc) /\ UpTo(q) = UpTo(w.proc) \ {s} /\ Before(q) = Before(w.proc)
  <2>1. CASE kind = "tick"
    <3>1. w.proc.stage[s] = "collect" /\ q.stage[s] = "tick"
      BY <1>12, <2>1 DEF EvalStage
    <3> QED
      BY <1>12, <3>1 DEF Before, UpTo
  <2>2. CASE kind = "warning"
    <3>1. w.proc.stage[s] = "tick" /\ q.stage[s] = "warn"
      BY <1>12, <2>2 DEF EvalStage
    <3> QED
      BY <1>12, <3>1 DEF Before, UpTo
  <2> QED
    BY <2>1, <2>2
<1>20. Weight(e) <= Weight(w)
  <2>1. PICK a \in Nat, b \in Nat, c \in Nat, d \in Nat, n \in Nat :
          /\ a = Cardinality(Before(w.proc)) /\ b = Cardinality(UpTo(w.proc))
          /\ c = Cardinality(Before(q)) /\ d = Cardinality(UpTo(q)) /\ n = Len(w.calls)
    BY <1>10, <1>18
  <2>2. (c = a - 1 /\ d = b) \/ (c = a /\ d = b - 1)
    <3>1. CASE /\ s \in Before(w.proc) /\ Before(q) = Before(w.proc) \ {s}
               /\ UpTo(q) = UpTo(w.proc)
      <4>1. Cardinality(Before(w.proc) \ {s}) = Cardinality(Before(w.proc)) - 1
        BY <1>18, <3>1, FS_RemoveElement
      <4> QED
        BY <2>1, <3>1, <4>1
    <3>2. CASE /\ s \in UpTo(w.proc) /\ UpTo(q) = UpTo(w.proc) \ {s}
               /\ Before(q) = Before(w.proc)
      <4>1. Cardinality(UpTo(w.proc) \ {s}) = Cardinality(UpTo(w.proc)) - 1
        BY <1>18, <3>2, FS_RemoveElement
      <4> QED
        BY <2>1, <3>2, <4>1
    <3> QED
      BY <1>19, <3>1, <3>2
  <2>3. Weight(w) = n + a + b
    BY <2>1 DEF Weight
  <2>4. Weight(e) = (n + 1) + c + d
    BY <1>10, <1>11, <2>1 DEF Weight
  <2> QED
    BY <2>2, <2>3, <2>4
<1>21. Apps(e) <= Apps(w)
  <2>1. Apps(e) = Apps(w)
    BY <1>9, <1>11, <1>12 DEF Apps
  <2>2. PICK a \in Nat, b \in Nat : a = w.proc.signals /\ b = Cardinality(Open(w.calls))
    BY <1>18
  <2>3. Apps(w) = a + b
    BY <2>2 DEF Apps
  <2> QED
    BY <2>1, <2>3
<1>22. Within(w, e)
  BY <1>11, <1>12, <1>17, <1>20, <1>21 DEF Within
<1>23. CASE call.answer = "none"
  <2>1. Events!Waits(e, s, kind)
    <3>1. Len(w.calls) + 1 \in DOMAIN e.calls
      BY <1>10, <1>11
    <3> QED
      BY <1>4, <1>10, <1>11, <1>23, <3>1 DEF Events!Waits
  <2>2. Events!FinishUnless(e, s, kind) = e
    BY <2>1 DEF Events!FinishUnless
  <2> QED
    BY <1>3, <1>16, <1>22, <2>2
<1>24. CASE call.answer # "none"
  <2>1. ~Events!Waits(e, s, kind)
    BY <1>2, <1>9, <1>11, <1>24 DEF Events!Waits, Waiting
  <2>2. Events!FinishUnless(e, s, kind) = Events!Finish(e, s)
    BY <2>1 DEF Events!FinishUnless
  <2>3. PICK v : v = Events!Finish(e, s)
    OBVIOUS
  <2>4. Waiting(e.calls) = {} /\ e.proc.stage[s] \in Active
    BY <1>9, <1>11, <1>13, <1>24
  <2>5. Good(v) /\ Calmer(e, v)
    BY <1>16, <2>3, <2>4, FinishGood
  <2>6. v \in WorldType
    BY <2>5 DEF Good
  <2>7. Within(w, v)
    BY <1>1, <1>11, <1>22, <2>5, <2>6, CalmerIsWithin, WithinFollows
  <2> QED
    BY <1>3, <2>2, <2>3, <2>5, <2>7
<1> QED
  BY <1>23, <1>24

\* One call is replaced.
PutCall(cs, c, call) == [cs EXCEPT ![c] = call]

\* A call moves on: it keeps its kind, its signal and its row, and is answered once.
LEMMA CallMovesOn ==
    ASSUME NEW cs \in Seq(Events!Call), NEW c \in DOMAIN cs, NEW new \in Events!Call,
           CallsInv(cs), CallInv(new), new.kind = cs[c].kind, new.signal = cs[c].signal,
           cs[c].landed => new.landed, new.answer = "none" => cs[c].answer = "none"
    PROVE  /\ PutCall(cs, c, new) \in Seq(Events!Call) /\ Len(PutCall(cs, c, new)) = Len(cs)
           /\ DOMAIN PutCall(cs, c, new) = DOMAIN cs /\ PutCall(cs, c, new)[c] = new
           /\ \A d \in DOMAIN cs : d # c => PutCall(cs, c, new)[d] = cs[d]
           /\ CallsInv(PutCall(cs, c, new))
           /\ new.answer # "none" =>
                /\ Waiting(PutCall(cs, c, new)) = Waiting(cs) \ {c}
                /\ Open(PutCall(cs, c, new)) = Open(cs) \ {c}
           /\ new.answer = "none" =>
                /\ Waiting(PutCall(cs, c, new)) = Waiting(cs)
                /\ Open(PutCall(cs, c, new)) = Open(cs)
<1>1. PICK ds : ds = PutCall(cs, c, new)
  OBVIOUS
<1>2. /\ ds \in Seq(Events!Call) /\ Len(ds) = Len(cs)
      /\ \A d \in 1 .. Len(cs) : ds[d] = IF d = c THEN new ELSE cs[d]
  <2>1. c \in 1 .. Len(cs)
    OBVIOUS
  <2>2. ds = [cs EXCEPT ![c] = new]
    BY <1>1 DEF PutCall
  <2> QED
    BY <2>1, <2>2, ExceptSeq
<1>3. DOMAIN ds = DOMAIN cs /\ DOMAIN cs = 1 .. Len(cs)
  BY <1>2
<1>4. ds[c] = new /\ \A d \in DOMAIN cs : d # c => ds[d] = cs[d]
  BY <1>2, <1>3
<1>5. \A d \in DOMAIN cs : /\ ds[d].kind = cs[d].kind /\ ds[d].signal = cs[d].signal
                           /\ cs[d].landed => ds[d].landed
  BY <1>4
<1>6. Leased(ds)
  <2>1. ASSUME NEW d \in DOMAIN ds, ds[d].kind = "warning"
        PROVE  \E t \in DOMAIN ds :
                 ds[t].kind = "tick" /\ ds[t].landed /\ ds[t].signal = ds[d].signal
    <3>1. PICK t \in DOMAIN cs :
            cs[t].kind = "tick" /\ cs[t].landed /\ cs[t].signal = cs[d].signal
      BY <1>3, <1>5, <2>1 DEF CallsInv, Leased
    <3> QED
      BY <1>3, <1>5, <2>1, <3>1
  <2> QED
    BY <2>1 DEF Leased
<1>7. \A d \in DOMAIN ds : CallInv(ds[d])
  BY <1>3, <1>4 DEF CallsInv
<1>8. CallsInv(ds)
  BY <1>6, <1>7 DEF CallsInv
<1>9. /\ \A d : d \in Waiting(ds) <=> d \in Waiting(cs) /\ (d # c \/ new.answer = "none")
      /\ \A d : d \in Open(ds) <=> d \in Open(cs) /\ (d # c \/ new.answer = "none")
  BY <1>3, <1>4, <1>5 DEF Waiting, Open
<1>10. /\ new.answer # "none" =>
            Waiting(ds) = Waiting(cs) \ {c} /\ Open(ds) = Open(cs) \ {c}
       /\ new.answer = "none" => Waiting(ds) = Waiting(cs) /\ Open(ds) = Open(cs)
  BY <1>9
<1> QED
  BY <1>1, <1>2, <1>3, <1>4, <1>8, <1>10

\* A call is answered, and what its caller does next.
LEMMA SettledGood ==
    ASSUME NEW w, Good(w), NEW c \in DOMAIN w.calls, w.calls[c].answer = "none",
           NEW answer \in Events!Answers \ {"none"},
           answer \in {"stored", "deduped", "skipped", "error"} => w.calls[c].pc = "over",
           answer = "stored" => w.calls[c].landed,
           answer \in {"deduped", "skipped"} => ~w.calls[c].landed,
           Apps(w) <= MaxEvents, bucket \in 0 .. MaxBucket
    PROVE  Good(Events!Settled(w, c, answer)) /\ Within(w, Events!Settled(w, c, answer))
<1>1. PICK p \in Events!Proc : p = w.proc
  BY WorldParts DEF Good
<1>2. PICK cs \in Seq(Events!Call) : cs = w.calls
  BY WorldParts DEF Good
<1>3. w = [proc |-> p, calls |-> cs] /\ w \in WorldType
  BY <1>1, <1>2, WorldParts DEF Good
<1>4. PICK call \in Events!Call : call = cs[c]
  BY <1>2
<1>5. PICK new : new = [call EXCEPT !.answer = answer]
  OBVIOUS
<1>6. /\ new \in Events!Call /\ new.kind = call.kind /\ new.signal = call.signal
      /\ new.answer = answer /\ new.pc = call.pc /\ (new.landed <=> call.landed)
  BY <1>5 DEF Events!Call, Events!Answers
<1>7. CallInv(new)
  <2>1. CallInv(call)
    BY <1>2, <1>4 DEF Good, CallsInv
  <2> QED
    BY <1>2, <1>4, <1>6, <2>1 DEF CallInv
<1>8. CallsInv(cs) /\ ProcInv(p) /\ LinkInv(p, cs)
  BY <1>1, <1>2 DEF Good
<1>9. PICK ds \in Seq(Events!Call) :
        /\ ds = PutCall(cs, c, new)
        /\ Len(ds) = Len(cs) /\ DOMAIN ds = DOMAIN cs /\ ds[c] = new
        /\ \A d \in DOMAIN cs : d # c => ds[d] = cs[d]
        /\ CallsInv(ds) /\ Waiting(ds) = Waiting(cs) \ {c} /\ Open(ds) = Open(cs) \ {c}
  <2>1. c \in DOMAIN cs /\ new.kind = cs[c].kind /\ new.signal = cs[c].signal
        /\ (cs[c].landed => new.landed) /\ new.answer # "none"
    BY <1>2, <1>4, <1>6
  <2> QED
    BY <1>6, <1>7, <1>8, <2>1, CallMovesOn
<1>10. PICK mode \in {"ready", "fallback"} : mode = Events!ModeAfter(p.mode, answer)
  BY DEF Events!ModeAfter, Events!Proc
<1>11. PICK q : q = [p EXCEPT !.mode = mode]
  OBVIOUS
<1>12. q \in Events!Proc /\ Quiet(p, q) /\ q.probe = p.probe
  BY <1>11 DEF Events!Proc, Quiet
<1>13. PICK v : v = [proc |-> q, calls |-> ds]
  OBVIOUS
<1>14. v.proc = q /\ v.calls = ds /\ v \in WorldType
  BY <1>12, <1>13 DEF WorldType
<1>15. [w EXCEPT !.proc.mode = Events!ModeAfter(@, answer), !.calls[c].answer = answer] = v
  <2>1. [w EXCEPT !.proc.mode = Events!ModeAfter(@, answer)] = [proc |-> q, calls |-> cs]
    BY <1>3, <1>10, <1>11
  <2>2. PICK x : x = [proc |-> q, calls |-> cs]
    OBVIOUS
  <2>3. [x EXCEPT !.calls[c].answer = answer] = v
    <3>1. [cs EXCEPT ![c] = new] = ds
      BY <1>9 DEF PutCall
    <3>2. [cs EXCEPT ![c].answer = answer] = ds
      BY <1>4, <1>5, <3>1
    <3> QED
      BY <1>13, <2>2, <3>2
  <2> QED
    BY <2>1, <2>2, <2>3
<1>16. ProcInv(q)
  BY <1>8, <1>12 DEF Quiet, ProcInv
<1>17. LinkInv(q, ds)
  <2>1. \A d \in Waiting(ds) : d \in Waiting(cs) /\ ds[d] = cs[d]
    BY <1>9 DEF Waiting
  <2> QED
    BY <1>8, <1>12, <2>1 DEF Quiet, LinkInv
<1>18. Good(v)
  BY <1>9, <1>14, <1>16, <1>17 DEF Good
<1>19. /\ IsFiniteSet(Open(cs)) /\ Cardinality(Open(cs)) \in Nat /\ p.signals \in Nat
       /\ Cardinality(Open(ds)) \in Nat /\ Cardinality(Before(p)) \in Nat
       /\ Cardinality(UpTo(p)) \in Nat /\ Len(cs) \in Nat
  BY <1>1, <1>2, <1>3, <1>14, CountedAreFinite
<1>20. c \in Open(cs) => Cardinality(Open(ds)) = Cardinality(Open(cs)) - 1
  BY <1>9, <1>19, FS_RemoveElement
<1>21. c \notin Open(cs) => Open(ds) = Open(cs)
  BY <1>9
<1>22. PICK k \in Nat, l \in Nat, n \in Nat :
         /\ k = p.signals /\ l = Cardinality(Open(cs)) /\ n = Cardinality(Open(ds))
         /\ Apps(w) = k + l /\ Apps(v) = k + n
         /\ (c \in Open(cs) => n = l - 1) /\ (c \notin Open(cs) => n = l)
  BY <1>1, <1>2, <1>12, <1>14, <1>19, <1>20, <1>21 DEF Apps, Quiet
<1>23. Weight(v) = Weight(w) /\ Weight(w) \in Nat
  <2>1. Before(q) = Before(p) /\ UpTo(q) = UpTo(p)
    BY <1>12 DEF Quiet, Before, UpTo
  <2>2. Weight(v) = Weight(w)
    BY <1>1, <1>2, <1>9, <1>14, <2>1 DEF Weight
  <2>3. PICK a \in Nat, b \in Nat, d \in Nat :
          a = Cardinality(Before(p)) /\ b = Cardinality(UpTo(p)) /\ d = Len(cs)
    BY <1>19
  <2>4. Weight(w) = d + a + b
    BY <1>1, <1>2, <2>3 DEF Weight
  <2> QED
    BY <2>2, <2>4
<1>24. (v.proc.probe = "yes" => w.proc.probe = "yes") /\ (Spared(w) => Spared(v))
  <2>1. \A d \in DOMAIN cs : ds[d].pc = cs[d].pc
    BY <1>4, <1>6, <1>9
  <2> QED
    BY <1>1, <1>2, <1>9, <1>12, <1>14, <2>1 DEF Spared
<1>25. Within(w, v)
  BY <1>22, <1>23, <1>24 DEF Within
<1>26. call.kind \in {"app", "tick", "warning"}
  BY DEF Events!Call
<1>27. CASE call.kind = "app" /\ answer = "stored"
  <2>1. c \in Open(cs)
    BY <1>2, <1>4, <1>27 DEF Open
  <2>2. k + 1 <= MaxEvents /\ k + 1 \in Events!Signals /\ k + 1 \in 0 .. MaxEvents
    <3>1. n = l - 1
      BY <1>22, <2>1
    <3>2. k + l <= MaxEvents
      BY <1>22
    <3>3. k + 1 <= MaxEvents
      BY <3>1, <3>2, SignalsAreFinite
    <3> QED
      BY <3>3, SignalsAreFinite DEF Events!Signals
  <2>3. PICK r : r = [q EXCEPT !.signals = k + 1]
    OBVIOUS
  <2>4. r \in Events!Proc
    BY <1>12, <2>2, <2>3 DEF Events!Proc
  <2>5. /\ r.signals = k + 1 /\ r.stage = q.stage /\ r.pending = q.pending
        /\ r.inFlight = q.inFlight /\ r.probe = q.probe
    BY <1>12, <2>3 DEF Events!Proc
  <2>6. PICK x : x = [proc |-> r, calls |-> ds]
    OBVIOUS
  <2>7. [v EXCEPT !.proc.signals = k + 1] = x
    BY <1>13, <2>3, <2>6
  <2>8. Events!Settled(w, c, answer) = Events!Trigger(x, k + 1)
    <3>1. v.proc.signals + 1 = k + 1
      BY <1>12, <1>14, <1>22 DEF Quiet
    <3>2. w.calls[c].kind = "app"
      BY <1>2, <1>4, <1>27
    <3> QED
      BY <1>15, <1>27, <2>7, <3>1, <3>2 DEF Events!Settled, Events!Signalling
  <2>9. x.proc = r /\ x.calls = ds /\ x \in WorldType
    BY <2>4, <2>6 DEF WorldType
  <2>10. q.signals = k /\ q.pending \in Nat /\ q.pending <= k
         /\ \A t \in Events!Signals : q.stage[t] # "none" => t <= k
    BY <1>12, <1>16, <1>22, SignalsAreFinite DEF Quiet, ProcInv, Events!Proc
  <2>11. ProcInv(r)
    <3>1. \A t \in Events!Signals : r.stage[t] # "none" => t <= r.signals
      BY <2>5, <2>10, SignalsAreFinite
    <3>2. r.pending <= r.signals
      BY <2>5, <2>10
    <3> QED
      BY <1>16, <2>5, <3>1, <3>2 DEF ProcInv
  <2>12. Good(x)
    BY <1>9, <1>17, <2>5, <2>9, <2>11 DEF Good, LinkInv
  <2>13. /\ k + 1 <= x.proc.signals /\ x.proc.pending < k + 1
         /\ \A t \in Events!Signals : x.proc.stage[t] # "none" => t < k + 1
    BY <2>5, <2>9, <2>10, SignalsAreFinite
  <2>14. PICK y : y = Events!Trigger(x, k + 1)
    OBVIOUS
  <2>15. Good(y) /\ Calmer(x, y)
    BY <2>2, <2>12, <2>13, <2>14, TriggerGood
  <2>16. Within(w, x)
    <3>1. Apps(x) = (k + 1) + n
      BY <1>22, <2>5, <2>9 DEF Apps
    <3>2. Apps(x) <= Apps(w)
      <4>1. n = l - 1 /\ Apps(w) = k + l
        BY <1>22, <2>1
      <4> QED
        BY <3>1, <4>1
    <3>3. Before(r) = Before(q) /\ UpTo(r) = UpTo(q)
      BY <2>5 DEF Before, UpTo
    <3>4. Weight(x) = Weight(v)
      BY <1>14, <2>9, <3>3 DEF Weight
    <3>5. (x.proc.probe = "yes" => v.proc.probe = "yes") /\ (Spared(v) => Spared(x))
      BY <1>14, <2>5, <2>9 DEF Spared
    <3> QED
      BY <1>23, <1>24, <3>2, <3>4, <3>5 DEF Within
  <2>17. y \in WorldType
    BY <2>15 DEF Good
  <2>18. Within(w, y)
    BY <1>3, <2>9, <2>15, <2>16, <2>17, CalmerIsWithin, WithinFollows
  <2> QED
    BY <2>8, <2>14, <2>15, <2>18
<1>28. CASE call.kind = "app" /\ answer # "stored"
  <2>1. w.calls[c].kind = "app"
    BY <1>2, <1>4, <1>28
  <2>2. Events!Settled(w, c, answer) = v
    BY <1>15, <1>28, <2>1 DEF Events!Settled
  <2> QED
    BY <1>18, <1>25, <2>2
<1>29. CASE call.kind \in {"tick", "warning"}
  <2>1. c \in Waiting(cs)
    BY <1>2, <1>4, <1>29 DEF Waiting
  <2>2. PICK s \in Events!Signals : s = call.signal /\ q.stage[s] = EvalStage(call.kind)
    BY <1>4, <1>8, <1>12, <2>1 DEF LinkInv, Quiet
  <2>3. Waiting(ds) = {}
    BY <1>8, <1>9, <2>1 DEF LinkInv
  <2>4. v.proc.stage[s] \in Active /\ Waiting(v.calls) = {}
    BY <1>14, <2>2, <2>3 DEF EvalStage, Active
  <2>5. PICK z : z = Events!Finish(v, s)
    OBVIOUS
  <2>6. Good(z) /\ Calmer(v, z)
    BY <1>18, <2>4, <2>5, FinishGood
  <2>7. z \in WorldType
    BY <2>6 DEF Good
  <2>8. Within(w, z)
    BY <1>3, <1>14, <1>25, <2>6, <2>7, CalmerIsWithin, WithinFollows
  <2>9. w.calls[c].kind = call.kind /\ w.calls[c].signal = s
    BY <1>2, <1>4, <2>2
  <2>10. CASE call.kind = "warning"
    <3>1. Events!Settled(w, c, answer) = z
      BY <1>15, <2>5, <2>9, <2>10 DEF Events!Settled, Events!Signalling
    <3> QED
      BY <2>6, <2>8, <3>1
  <2>11. CASE call.kind = "tick"
    <3>1. Events!Settled(w, c, answer) = Events!AfterTick(v, s, answer)
      BY <1>15, <2>9, <2>11 DEF Events!Settled, Events!Signalling
    <3>2. CASE ~(answer = "stored" /\ v.proc.breached[s])
      <4>1. Events!AfterTick(v, s, answer) = z
        BY <2>5, <3>2 DEF Events!AfterTick
      <4> QED
        BY <2>6, <2>8, <3>1, <4>1
    <3>3. CASE answer = "stored" /\ v.proc.breached[s]
      <4>1. PICK g : g = [q.stage EXCEPT ![s] = "warn"]
        OBVIOUS
      <4>2. /\ g \in [Events!Signals -> Events!Stages] /\ g[s] = "warn"
            /\ \A t \in Events!Signals : t # s => g[t] = q.stage[t]
        BY <1>12, <4>1 DEF Events!Proc, Events!Stages
      <4>3. PICK r : r = [q EXCEPT !.stage = g]
        OBVIOUS
      <4>4. r \in Events!Proc
        BY <1>12, <4>2, <4>3 DEF Events!Proc
      <4>5. /\ r.signals = q.signals /\ r.stage = g /\ r.pending = q.pending
            /\ r.inFlight = q.inFlight /\ r.probe = q.probe
        BY <1>12, <4>3 DEF Events!Proc
      <4>6. PICK u : u = [proc |-> r, calls |-> ds]
        OBVIOUS
      <4>7. [v EXCEPT !.proc.stage[s] = "warn"] = u
        <5>1. [v EXCEPT !.proc.stage[s] = "warn"] = [v EXCEPT !.proc = r]
          BY <1>14, <4>1, <4>3
        <5>2. [v EXCEPT !.proc = r] = u
          BY <1>13, <4>6
        <5> QED
          BY <5>1, <5>2
      <4>8. u.proc = r /\ u.calls = ds /\ u \in WorldType
        BY <4>4, <4>6 DEF WorldType
      <4>9. PICK y : y = Events!FinishUnless(Events!Emit(u, "warning", s, Events!Warning),
                                             s, "warning")
        OBVIOUS
      <4>10. Events!AfterTick(v, s, answer) = y
        BY <3>3, <4>7, <4>9 DEF Events!AfterTick
      <4>11. /\ v.proc.stage[s] = "tick" /\ u.proc.stage[s] = EvalStage("warning")
             /\ u.calls = v.calls
             /\ u.proc.signals = v.proc.signals /\ u.proc.pending = v.proc.pending
             /\ u.proc.inFlight = v.proc.inFlight /\ u.proc.probe = v.proc.probe
             /\ \A t \in Events!Signals : t # s => u.proc.stage[t] = v.proc.stage[t]
        BY <1>14, <2>2, <2>11, <4>2, <4>5, <4>8 DEF EvalStage
      <4>12. \E t \in DOMAIN v.calls :
               v.calls[t].kind = "tick" /\ v.calls[t].landed /\ v.calls[t].signal = s
        BY <1>2, <1>4, <1>6, <1>9, <1>14, <2>2, <2>11, <3>3
      <4>13. Events!Warning \in Events!Keys \cup {Events!NoKey}
        BY DEF Events!Keys
      <4>14. Good(y) /\ Within(v, y)
        BY <1>18, <2>4, <4>8, <4>9, <4>11, <4>12, <4>13, EvaluationEmits
      <4>15. y \in WorldType
        BY <4>14 DEF Good
      <4>16. Within(w, y)
        BY <1>3, <1>14, <1>25, <4>14, <4>15, WithinFollows
      <4> QED
        BY <3>1, <4>10, <4>14, <4>16
    <3> QED
      BY <3>2, <3>3
  <2> QED
    BY <1>29, <2>10, <2>11
<1> QED
  BY <1>26, <1>27, <1>28, <1>29

\* The insertion of a call is done, with its row or without.
LEMMA SettleGood ==
    ASSUME NEW w, Good(w), NEW c \in DOMAIN w.calls, w.calls[c].pc = "insert",
           NEW b \in BOOLEAN, NEW answer \in {"stored", "deduped", "skipped", "error"},
           answer = "stored" => b, answer \in {"deduped", "skipped"} => ~b,
           Apps(w) <= MaxEvents, bucket \in 0 .. MaxBucket
    PROVE  LET v == Events!Settle([w EXCEPT !.calls[c].landed = b], c, answer)
           IN  Good(v) /\ Within(w, v)
<1>1. PICK p \in Events!Proc : p = w.proc
  BY WorldParts DEF Good
<1>2. PICK cs \in Seq(Events!Call) : cs = w.calls
  BY WorldParts DEF Good
<1>3. w = [proc |-> p, calls |-> cs] /\ w \in WorldType
  BY <1>1, <1>2, WorldParts DEF Good
<1>4. PICK call \in Events!Call : call = cs[c]
  BY <1>2
<1>5. PICK mid : mid = [call EXCEPT !.landed = b]
  OBVIOUS
<1>6. PICK new : new = [mid EXCEPT !.pc = "over"]
  OBVIOUS
<1>7. mid = [kind |-> call.kind, signal |-> call.signal, key |-> call.key, pc |-> call.pc,
             answer |-> call.answer, landed |-> b]
  BY <1>5 DEF Events!Call
<1>8. new = [kind |-> call.kind, signal |-> call.signal, key |-> call.key, pc |-> "over",
             answer |-> call.answer, landed |-> b]
  BY <1>6, <1>7
<1>9. /\ new \in Events!Call /\ new.kind = call.kind /\ new.signal = call.signal
      /\ new.answer = call.answer /\ new.pc = "over" /\ (new.landed <=> b)
  BY <1>8 DEF Events!Call
<1>10. CallsInv(cs) /\ ProcInv(p) /\ LinkInv(p, cs) /\ call.pc = "insert" /\ CallInv(call)
  BY <1>1, <1>2, <1>4 DEF Good, CallsInv
<1>11. ~call.landed /\ call.answer \in {"none", "timeout"}
  BY <1>10 DEF CallInv, Events!Call, Events!Answers
<1>12. CallInv(new)
  BY <1>9, <1>11 DEF CallInv
<1>13. PICK ds \in Seq(Events!Call) :
        /\ ds = PutCall(cs, c, new)
        /\ Len(ds) = Len(cs) /\ DOMAIN ds = DOMAIN cs /\ ds[c] = new
        /\ \A d \in DOMAIN cs : d # c => ds[d] = cs[d]
        /\ CallsInv(ds)
        /\ new.answer # "none" => Waiting(ds) = Waiting(cs) \ {c} /\ Open(ds) = Open(cs) \ {c}
        /\ new.answer = "none" => Waiting(ds) = Waiting(cs) /\ Open(ds) = Open(cs)
  <2>1. c \in DOMAIN cs /\ new.kind = cs[c].kind /\ new.signal = cs[c].signal
        /\ (cs[c].landed => new.landed) /\ (new.answer = "none" => cs[c].answer = "none")
    BY <1>2, <1>4, <1>9, <1>11
  <2> QED
    BY <1>9, <1>10, <1>12, <2>1, CallMovesOn
<1>14. Waiting(ds) = Waiting(cs) /\ Open(ds) = Open(cs)
  <2>1. new.answer # "none" => c \notin Waiting(cs) /\ c \notin Open(cs)
    BY <1>4, <1>9 DEF Waiting, Open
  <2> QED
    BY <1>13, <2>1
<1>15. PICK es : es = [cs EXCEPT ![c] = mid]
  OBVIOUS
<1>16. es[c] = mid
  BY <1>2, <1>15
<1>17. [es EXCEPT ![c] = new] = ds
  <2>1. [es EXCEPT ![c] = new] = [cs EXCEPT ![c] = new]
    BY <1>2, <1>15
  <2> QED
    BY <1>13, <2>1 DEF PutCall
<1>18. PICK u : u = [proc |-> p, calls |-> es]
  OBVIOUS
<1>19. [w EXCEPT !.calls[c].landed = b] = u
  <2>1. [cs EXCEPT ![c].landed = b] = es
    BY <1>4, <1>5, <1>15
  <2>2. [w EXCEPT !.calls[c].landed = b] = [w EXCEPT !.calls = es]
    BY <1>2, <2>1
  <2>3. [w EXCEPT !.calls = es] = u
    BY <1>3, <1>18
  <2> QED
    BY <2>2, <2>3
<1>20. PICK v : v = [proc |-> p, calls |-> ds]
  OBVIOUS
<1>21. [u EXCEPT !.calls[c].pc = "over"] = v
  <2>1. [es EXCEPT ![c].pc = "over"] = ds
    BY <1>6, <1>16, <1>17
  <2> QED
    BY <1>18, <1>20, <2>1
<1>22. v.proc = p /\ v.calls = ds /\ v \in WorldType
  BY <1>20 DEF WorldType
<1>23. LinkInv(p, ds)
  <2>1. \A d \in Waiting(cs) : ds[d].kind = cs[d].kind /\ ds[d].signal = cs[d].signal
    BY <1>4, <1>9, <1>13 DEF Waiting
  <2> QED
    BY <1>10, <1>14, <2>1 DEF LinkInv
<1>24. Good(v)
  BY <1>10, <1>13, <1>22, <1>23 DEF Good
<1>25. Apps(v) = Apps(w) /\ Weight(v) = Weight(w)
  BY <1>1, <1>2, <1>13, <1>14, <1>22 DEF Apps, Weight
<1>26. Apps(w) \in Nat /\ Weight(w) \in Nat
  <2>1. PICK a \in Nat, d \in Nat, e \in Nat, f \in Nat, n \in Nat :
          /\ a = Cardinality(Before(w.proc)) /\ d = Cardinality(UpTo(w.proc))
          /\ e = Len(w.calls) /\ f = Cardinality(Open(w.calls)) /\ n = w.proc.signals
    BY <1>3, CountedAreFinite
  <2>2. Apps(w) = n + f /\ Weight(w) = e + a + d
    BY <2>1 DEF Apps, Weight
  <2> QED
    BY <2>2
<1>27. Within(w, v)
  <2>1. Spared(w) => Spared(v)
    BY <1>1, <1>2, <1>9, <1>13, <1>22 DEF Spared
  <2> QED
    BY <1>1, <1>22, <1>25, <1>26, <2>1 DEF Within
<1>28. u.calls[c].answer = call.answer
  BY <1>7, <1>16, <1>18
<1>29. CASE call.answer # "none"
  <2>1. Events!Settle(u, c, answer) = v
    BY <1>21, <1>28, <1>29 DEF Events!Settle
  <2> QED
    BY <1>19, <1>24, <1>27, <2>1
<1>30. CASE call.answer = "none"
  <2>1. PICK x : x = Events!Settled(v, c, answer)
    OBVIOUS
  <2>2. Events!Settle(u, c, answer) = x
    BY <1>21, <1>28, <1>30, <2>1 DEF Events!Settle
  <2>3. /\ c \in DOMAIN v.calls /\ v.calls[c].answer = "none" /\ v.calls[c].pc = "over"
        /\ (v.calls[c].landed <=> b) /\ answer \in Events!Answers \ {"none"}
    BY <1>2, <1>9, <1>13, <1>22, <1>30 DEF Events!Answers
  <2>4. Apps(v) <= MaxEvents
    BY <1>25
  <2>5. Good(x) /\ Within(v, x)
    BY <1>24, <2>1, <2>3, <2>4, SettledGood
  <2>6. x \in WorldType
    BY <2>5 DEF Good
  <2>7. Within(w, x)
    BY <1>3, <1>22, <1>27, <2>5, <2>6, WithinFollows
  <2> QED
    BY <1>19, <2>2, <2>5, <2>7
<1> QED
  BY <1>29, <1>30

\* A call under way has no row yet.
LEMMA NotLanded ==
    ASSUME NEW w, Good(w), NEW c \in DOMAIN w.calls, w.calls[c].pc # "over"
    PROVE  ~w.calls[c].landed /\ [w EXCEPT !.calls[c].landed = FALSE] = w
<1>1. PICK cs \in Seq(Events!Call) : cs = w.calls
  BY WorldParts DEF Good
<1>2. w = [proc |-> w.proc, calls |-> cs]
  BY <1>1, WorldParts DEF Good
<1>3. PICK call \in Events!Call : call = cs[c]
  BY <1>1
<1>4. CallInv(call)
  BY <1>1, <1>3 DEF Good, CallsInv
<1>5. call.landed = FALSE
  BY <1>1, <1>3, <1>4 DEF CallInv, Events!Call
<1>6. [call EXCEPT !.landed = FALSE] = call
  BY <1>5 DEF Events!Call
<1>7. [cs EXCEPT ![c] = call] = cs
  BY <1>3
<1>8. [cs EXCEPT ![c].landed = FALSE] = cs
  BY <1>3, <1>6, <1>7
<1> QED
  BY <1>1, <1>2, <1>3, <1>5, <1>8

\* Calls and stages that move on without an event: nothing new is awaited or counted.
LEMMA WorldMovesOn ==
    ASSUME NEW w, Good(w), NEW v \in WorldType,
           v.proc.signals = w.proc.signals, v.proc.pending = w.proc.pending,
           v.proc.inFlight = w.proc.inFlight,
           \A t \in Events!Signals :
              \/ v.proc.stage[t] = w.proc.stage[t]
              \/ w.proc.stage[t] = "probe" /\ v.proc.stage[t] = "collect",
           Len(v.calls) = Len(w.calls),
           \A c \in DOMAIN w.calls :
             /\ v.calls[c].kind = w.calls[c].kind /\ v.calls[c].signal = w.calls[c].signal
             /\ (v.calls[c].landed <=> w.calls[c].landed)
             /\ v.calls[c].answer = "none" => w.calls[c].answer = "none"
             /\ CallInv(v.calls[c])
    PROVE  Good(v) /\ Weight(v) <= Weight(w) /\ Apps(v) <= Apps(w)
<1>1. PICK p \in Events!Proc, q \in Events!Proc : p = w.proc /\ q = v.proc
  BY WorldParts DEF Good
<1>2. PICK cs \in Seq(Events!Call), ds \in Seq(Events!Call) : cs = w.calls /\ ds = v.calls
  BY WorldParts DEF Good
<1>3. ProcInv(p) /\ LinkInv(p, cs) /\ CallsInv(cs) /\ w \in WorldType
  BY <1>1, <1>2 DEF Good
<1>4. DOMAIN ds = DOMAIN cs
  BY <1>2
<1>5. \A c \in DOMAIN cs :
        /\ ds[c].kind = cs[c].kind /\ ds[c].signal = cs[c].signal
        /\ (ds[c].landed <=> cs[c].landed)
        /\ ds[c].answer = "none" => cs[c].answer = "none"
        /\ CallInv(ds[c])
  BY <1>2
<1>6. Leased(ds)
  <2>1. ASSUME NEW c \in DOMAIN ds, ds[c].kind = "warning"
        PROVE  \E t \in DOMAIN ds :
                 ds[t].kind = "tick" /\ ds[t].landed /\ ds[t].signal = ds[c].signal
    <3>1. PICK t \in DOMAIN cs :
            cs[t].kind = "tick" /\ cs[t].landed /\ cs[t].signal = cs[c].signal
      BY <1>3, <1>4, <1>5, <2>1 DEF CallsInv, Leased
    <3> QED
      BY <1>4, <1>5, <2>1, <3>1
  <2> QED
    BY <2>1 DEF Leased
<1>7. CallsInv(ds)
  BY <1>4, <1>5, <1>6 DEF CallsInv
<1>8. Waiting(ds) \subseteq Waiting(cs) /\ Open(ds) \subseteq Open(cs)
  BY <1>4, <1>5 DEF Waiting, Open
<1>9. \A t \in Events!Signals :
        q.stage[t] = p.stage[t] \/ (p.stage[t] = "probe" /\ q.stage[t] = "collect")
  BY <1>1
<1>10. ProcInv(q)
  <2>1. \A t \in Events!Signals : /\ q.stage[t] \in Active => p.stage[t] \in Active
                                  /\ q.stage[t] # "none" => p.stage[t] # "none"
    BY <1>9 DEF Active
  <2> QED
    BY <1>1, <1>3, <2>1 DEF ProcInv
<1>11. LinkInv(q, ds)
  <2>1. ASSUME NEW c \in Waiting(ds)
        PROVE  /\ ds[c].signal \in Events!Signals
               /\ q.stage[ds[c].signal] = EvalStage(ds[c].kind)
    <3>1. c \in Waiting(cs) /\ c \in DOMAIN cs
      BY <1>8, <2>1 DEF Waiting
    <3>2. /\ cs[c].signal \in Events!Signals
          /\ p.stage[cs[c].signal] = EvalStage(cs[c].kind)
      BY <1>3, <3>1 DEF LinkInv
    <3>3. p.stage[cs[c].signal] # "probe"
      BY <3>2 DEF EvalStage
    <3> QED
      BY <1>5, <1>9, <3>1, <3>2, <3>3
  <2>2. \A c, d \in Waiting(ds) : c = d
    BY <1>3, <1>8 DEF LinkInv
  <2> QED
    BY <2>1, <2>2 DEF LinkInv
<1>12. Good(v)
  BY <1>1, <1>2, <1>7, <1>10, <1>11 DEF Good
<1>13. Before(q) = Before(p) /\ UpTo(q) = UpTo(p)
  BY <1>9 DEF Before, UpTo
<1>14. PICK a \in Nat, b \in Nat, n \in Nat, k \in Nat, l \in Nat, m \in Nat :
         /\ a = Cardinality(Before(p)) /\ b = Cardinality(UpTo(p)) /\ n = Len(cs)
         /\ k = p.signals /\ l = Cardinality(Open(cs)) /\ m = Cardinality(Open(ds))
  BY <1>1, <1>2, <1>3, CountedAreFinite
<1>15. m <= l
  <2>1. IsFiniteSet(Open(cs))
    BY <1>2, <1>3, CountedAreFinite
  <2>2. Cardinality(Open(ds)) <= Cardinality(Open(cs))
    BY <1>8, <2>1, FS_Subset
  <2> QED
    BY <1>14, <2>2
<1>16. Weight(v) = n + a + b /\ Weight(w) = n + a + b
  BY <1>1, <1>2, <1>13, <1>14 DEF Weight
<1>17. Apps(v) = k + m /\ Apps(w) = k + l
  BY <1>1, <1>2, <1>14 DEF Apps
<1> QED
  BY <1>12, <1>15, <1>16, <1>17

\* A store that is given up, with its calls.
LEMMA DegradeGood ==
    ASSUME NEW w, Good(w)
    PROVE  /\ Good(Events!Degrade(w)) /\ Within(w, Events!Degrade(w))
           /\ Events!Degrade(w).calls = w.calls
           /\ Events!Degrade(w).proc.probe = w.proc.probe
           /\ Events!Degrade(w).proc.signals = w.proc.signals
           /\ Events!Degrade(w).proc.pending = w.proc.pending
           /\ Events!Degrade(w).proc.inFlight = w.proc.inFlight
           /\ Events!Degrade(w).proc.stage = w.proc.stage
<1>1. PICK p \in Events!Proc : p = w.proc
  BY WorldParts DEF Good
<1>2. PICK cs \in Seq(Events!Call) : cs = w.calls
  BY WorldParts DEF Good
<1>3. w = [proc |-> p, calls |-> cs] /\ w \in WorldType
  BY <1>1, <1>2, WorldParts DEF Good
<1>4. PICK v : v = Events!Degrade(w)
  OBVIOUS
<1>5. PICK q \in Events!Proc :
        /\ v = [proc |-> q, calls |-> cs]
        /\ q.signals = p.signals /\ q.pending = p.pending /\ q.inFlight = p.inFlight
        /\ q.last = p.last /\ q.rested = p.rested /\ q.stage = p.stage
        /\ q.breached = p.breached /\ q.probe = p.probe
  <2>1. CASE p.degraded
    BY <1>1, <1>3, <1>4, <2>1 DEF Events!Degrade
  <2>2. CASE ~p.degraded
    <3>1. PICK q : q = [p EXCEPT !.degraded = TRUE, !.mode = "fallback"]
      OBVIOUS
    <3>2. q \in Events!Proc
      BY <3>1 DEF Events!Proc
    <3>3. /\ q.signals = p.signals /\ q.pending = p.pending /\ q.inFlight = p.inFlight
          /\ q.last = p.last /\ q.rested = p.rested /\ q.stage = p.stage
          /\ q.breached = p.breached /\ q.probe = p.probe
      BY <3>1 DEF Events!Proc
    <3>4. PICK r : r = [p EXCEPT !.degraded = TRUE]
      OBVIOUS
    <3>5. PICK x : x = [w EXCEPT !.proc.degraded = TRUE]
      OBVIOUS
    <3>6. x = [proc |-> r, calls |-> cs]
      <4>1. x = [w EXCEPT !.proc = r]
        BY <1>1, <3>4, <3>5
      <4> QED
        BY <1>3, <4>1
    <3>7. [x EXCEPT !.proc.mode = "fallback"] = [proc |-> q, calls |-> cs]
      <4>1. [r EXCEPT !.mode = "fallback"] = q
        BY <3>1, <3>4
      <4>2. [x EXCEPT !.proc.mode = "fallback"] = [x EXCEPT !.proc = q]
        BY <3>6, <4>1
      <4> QED
        BY <3>6, <4>2
    <3>8. v = [proc |-> q, calls |-> cs]
      BY <1>1, <1>4, <2>2, <3>5, <3>7 DEF Events!Degrade
    <3> QED
      BY <3>2, <3>3, <3>8
  <2> QED
    BY <2>1, <2>2
<1>6. v.proc = q /\ v.calls = cs /\ v \in WorldType
  BY <1>5 DEF WorldType
<1>7. Good(v)
  <2>1. ProcInv(q) /\ LinkInv(q, cs) /\ CallsInv(cs)
    BY <1>1, <1>2, <1>5 DEF Good, ProcInv, LinkInv
  <2> QED
    BY <1>6, <2>1 DEF Good
<1>8. Calmer(w, v)
  BY <1>1, <1>2, <1>5, <1>6 DEF Calmer, Before, UpTo
<1>9. Within(w, v)
  BY <1>3, <1>6, <1>8, CalmerIsWithin
<1> QED
  BY <1>1, <1>2, <1>4, <1>5, <1>6, <1>7, <1>9

-----------------------------------------------------------------------------
(* The invariant. *)

\* The invariant of the events.
EventsInv ==
    /\ table \in BOOLEAN /\ rows \in [Events!Keys -> 0 .. 1]
    /\ Good(Events!World)
    /\ bucket \in 0 .. MaxBucket /\ left \in 0 .. MaxEvents
    /\ failures \in 0 .. MaxFailures /\ restarts \in 0 .. MaxRestarts
    /\ ~table => proc.probe # "yes"
    /\ ~table /\ failures = 0 => Spared(Events!World)
    /\ Weight(Events!World) + left <= 3 * MaxEvents
    /\ Apps(Events!World) + left <= MaxEvents

\* The bounds are numbers.
LEMMA EventNumbers ==
    ASSUME EventsInv
    PROVE  /\ MaxEvents \in Nat /\ MaxBucket \in Nat /\ MaxFailures \in Nat /\ MaxRestarts \in Nat
           /\ left \in Nat /\ failures \in Nat /\ Weight(Events!World) \in Nat
           /\ Apps(Events!World) \in Nat /\ Apps(Events!World) <= MaxEvents
           /\ bucket \in 0 .. MaxBucket /\ Events!World \in WorldType
           /\ Events!World.proc = proc /\ Events!World.calls = calls
           /\ proc \in Events!Proc /\ calls \in Seq(Events!Call)
<1>1. MaxEvents \in Nat /\ MaxBucket \in Nat /\ MaxFailures \in Nat /\ MaxRestarts \in Nat
  BY BoundAssumption
<1>2. left \in Nat /\ failures \in Nat /\ bucket \in 0 .. MaxBucket
  BY <1>1 DEF EventsInv
<1>3. Events!World \in WorldType
  BY DEF EventsInv, Good
<1>4. Events!World.proc = proc /\ Events!World.calls = calls
  BY DEF Events!World
<1>5. proc \in Events!Proc /\ calls \in Seq(Events!Call)
  BY <1>3, <1>4, WorldParts
<1>6. PICK a \in Nat, d \in Nat, e \in Nat, f \in Nat, n \in Nat :
        /\ a = Cardinality(Before(proc)) /\ d = Cardinality(UpTo(proc))
        /\ e = Len(calls) /\ f = Cardinality(Open(calls)) /\ n = proc.signals
  BY <1>3, <1>4, CountedAreFinite
<1>7. Weight(Events!World) = e + a + d /\ Apps(Events!World) = n + f
  BY <1>4, <1>6 DEF Weight, Apps
<1>8. PICK x \in Nat : x = Apps(Events!World)
  BY <1>7
<1>9. x + left <= MaxEvents
  BY <1>8 DEF EventsInv
<1>10. Apps(Events!World) <= MaxEvents
  BY <1>1, <1>2, <1>8, <1>9
<1> QED
  BY <1>1, <1>2, <1>3, <1>4, <1>5, <1>7, <1>10

\* A step that becomes a world with no more events, whose store is spared where it must
\* be, keeps the invariant.
LEMMA WorldKeeps ==
    ASSUME EventsInv, NEW v, Good(v), Events!Become(v),
           Weight(v) <= Weight(Events!World), Apps(v) <= Apps(Events!World),
           ~table => v.proc.probe # "yes", ~table /\ failures' = 0 => Spared(v),
           rows' \in [Events!Keys -> 0 .. 1], table' = table, left' = left,
           bucket' \in 0 .. MaxBucket, failures' \in 0 .. MaxFailures,
           restarts' \in 0 .. MaxRestarts
    PROVE  EventsInv'
<1>1. v \in WorldType /\ v = [proc |-> v.proc, calls |-> v.calls]
  BY WorldParts DEF Good
<1>2. Events!World' = v
  BY <1>1 DEF Events!Become, Events!World
<1>3. proc' = v.proc
  BY DEF Events!Become
<1>4. PICK a \in Nat, b \in Nat, c \in Nat, d \in Nat :
        /\ a = Weight(Events!World) /\ b = Apps(Events!World)
        /\ c = Weight(v) /\ d = Apps(v)
  <2>1. PICK k \in Nat, l \in Nat, e \in Nat, f \in Nat, n \in Nat :
          /\ k = Cardinality(Before(v.proc)) /\ l = Cardinality(UpTo(v.proc))
          /\ e = Len(v.calls) /\ f = Cardinality(Open(v.calls)) /\ n = v.proc.signals
    BY <1>1, CountedAreFinite
  <2>2. Weight(v) = e + k + l /\ Apps(v) = n + f
    BY <2>1 DEF Weight, Apps
  <2> QED
    BY <2>2, EventNumbers
<1>5. c <= a /\ d <= b
  BY <1>4
<1>6. a + left <= 3 * MaxEvents /\ b + left <= MaxEvents
  BY <1>4 DEF EventsInv
<1>7. c + left <= 3 * MaxEvents /\ d + left <= MaxEvents
  <2>1. left \in Nat /\ MaxEvents \in Nat
    BY EventNumbers
  <2> QED
    BY <1>5, <1>6, <2>1
<1>8. Good(Events!World')
  BY <1>2
<1>9. Weight(Events!World') + left' <= 3 * MaxEvents /\ Apps(Events!World') + left' <= MaxEvents
  BY <1>2, <1>4, <1>7
<1>10. ~table' => proc'.probe # "yes"
  BY <1>3
<1>11. ~table' /\ failures' = 0 => Spared(Events!World')
  BY <1>2
<1> QED
  BY <1>8, <1>9, <1>10, <1>11 DEF EventsInv

\* So does one that becomes a world within the bounds.
LEMMA WithinKeeps ==
    ASSUME EventsInv, NEW v, Good(v), Within(Events!World, v), Events!Become(v),
           rows' \in [Events!Keys -> 0 .. 1], table' = table, left' = left,
           bucket' \in 0 .. MaxBucket, failures' \in 0 .. MaxFailures,
           restarts' \in 0 .. MaxRestarts, failures' = 0 => failures = 0
    PROVE  EventsInv'
<1>1. Weight(v) <= Weight(Events!World) /\ Apps(v) <= Apps(Events!World)
  BY DEF Within
<1>2. ~table => v.proc.probe # "yes"
  BY EventNumbers DEF EventsInv, Within
<1>3. ~table /\ failures' = 0 => Spared(v)
  BY DEF EventsInv, Within
<1> QED
  BY <1>1, <1>2, <1>3, WorldKeeps

\* emitEvent() of the application.
LEMMA EmitAppInv == ASSUME EventsInv, Events!EmitApp PROVE EventsInv'
<1>1. PICK v : v = Events!Emit(Events!World, "app", 0, Events!NoKey)
  OBVIOUS
<1>2. /\ left > 0 /\ left' = left - 1 /\ Events!Become(v)
      /\ UNCHANGED <<table, rows, bucket, failures, restarts>>
  BY <1>1 DEF Events!EmitApp
<1>3. PICK w : w = Events!World
  OBVIOUS
<1>4. Good(w) /\ w.proc = proc
  BY <1>3, EventNumbers DEF EventsInv
<1>5. /\ Good(v) /\ (v.proc.probe = "yes" => proc.probe = "yes")
      /\ Spared(w) => Spared(v)
      /\ Weight(v) = Weight(w) + 1 /\ Apps(v) <= Apps(w) + 1
  BY <1>1, <1>3, <1>4, EmitAppGood
<1>6. v \in WorldType /\ v = [proc |-> v.proc, calls |-> v.calls]
  BY <1>5, WorldParts DEF Good
<1>7. Events!World' = v /\ proc' = v.proc
  BY <1>2, <1>6 DEF Events!Become, Events!World
<1>8. PICK a \in Nat, b \in Nat : a = Weight(w) /\ b = Apps(w)
  BY <1>3, EventNumbers
<1>9. PICK d \in Nat : d = Apps(v)
  <2>1. PICK f \in Nat, n \in Nat : f = Cardinality(Open(v.calls)) /\ n = v.proc.signals
    BY <1>6, CountedAreFinite
  <2> QED
    BY <2>1 DEF Apps
<1>10. a + left <= 3 * MaxEvents /\ b + left <= MaxEvents
  BY <1>3, <1>8 DEF EventsInv
<1>11. left \in Nat /\ left' \in 0 .. MaxEvents
  BY <1>2, EventNumbers DEF EventsInv
<1>12. (a + 1) + left' <= 3 * MaxEvents /\ d + left' <= MaxEvents
  <2>1. left \in Nat /\ MaxEvents \in Nat /\ left' = left - 1
    BY <1>2, EventNumbers
  <2>2. d <= b + 1
    BY <1>5, <1>8, <1>9
  <2> QED
    BY <1>10, <2>1, <2>2
<1>13. Weight(Events!World') + left' <= 3 * MaxEvents /\ Apps(Events!World') + left' <= MaxEvents
  BY <1>5, <1>7, <1>8, <1>9, <1>12
<1>14. Good(Events!World') /\ (~table' => proc'.probe # "yes")
       /\ (~table' /\ failures' = 0 => Spared(Events!World'))
  BY <1>2, <1>3, <1>5, <1>7 DEF EventsInv
<1> QED
  BY <1>2, <1>11, <1>13, <1>14 DEF EventsInv

\* The probe has ended: what waited for it goes on to the primary store.
LEMMA GoShape ==
    ASSUME NEW w, Good(w), NEW answer \in {"yes", "no", "none"}
    PROVE  LET v == Events!Go(w, answer)
           IN  /\ v \in WorldType /\ v.proc.probe = answer
               /\ Good(v) /\ Weight(v) <= Weight(w) /\ Apps(v) <= Apps(w)
               /\ Len(v.calls) = Len(w.calls)
               /\ v.proc.signals = w.proc.signals /\ v.proc.pending = w.proc.pending
               /\ v.proc.inFlight = w.proc.inFlight
               /\ \A t \in Events!Signals :
                     \/ v.proc.stage[t] = w.proc.stage[t]
                     \/ w.proc.stage[t] = "probe" /\ v.proc.stage[t] = "collect"
<1>1. PICK p \in Events!Proc : p = w.proc
  BY WorldParts DEF Good
<1>2. PICK cs \in Seq(Events!Call) : cs = w.calls
  BY WorldParts DEF Good
<1>3. PICK g : g = [s \in Events!Signals |-> IF p.stage[s] = "probe" THEN "collect"
                                             ELSE p.stage[s]]
  OBVIOUS
<1>4. /\ g \in [Events!Signals -> Events!Stages]
      /\ \A t \in Events!Signals :
            g[t] = p.stage[t] \/ (p.stage[t] = "probe" /\ g[t] = "collect")
  BY <1>3 DEF Events!Proc, Events!Stages
<1>5. PICK mid : mid = [p EXCEPT !.probe = answer]
  OBVIOUS
<1>6. PICK q : q = [mid EXCEPT !.stage = g]
  OBVIOUS
<1>7. mid \in Events!Proc /\ mid.stage = p.stage /\ mid.signals = p.signals
      /\ mid.pending = p.pending /\ mid.inFlight = p.inFlight /\ mid.probe = answer
  BY <1>5 DEF Events!Proc
<1>8. /\ q \in Events!Proc /\ q.stage = g /\ q.signals = p.signals
      /\ q.pending = p.pending /\ q.inFlight = p.inFlight /\ q.probe = answer
  BY <1>4, <1>6, <1>7 DEF Events!Proc
<1>9. PICK ds : ds = [c \in DOMAIN cs |-> IF cs[c].pc = "probe"
                                          THEN [cs[c] EXCEPT !.pc = "insert"] ELSE cs[c]]
  OBVIOUS
<1>10. ASSUME NEW c \in DOMAIN cs
       PROVE  /\ ds[c] \in Events!Call /\ ds[c].kind = cs[c].kind
              /\ ds[c].signal = cs[c].signal /\ (ds[c].landed <=> cs[c].landed)
              /\ ds[c].answer = cs[c].answer /\ CallInv(ds[c])
  <2>1. PICK call \in Events!Call : call = cs[c] /\ CallInv(call)
    BY <1>2 DEF Good, CallsInv
  <2>2. CASE call.pc = "probe"
    <3>1. PICK new : new = [call EXCEPT !.pc = "insert"]
      OBVIOUS
    <3>2. /\ new \in Events!Call /\ new.kind = call.kind /\ new.signal = call.signal
          /\ (new.landed <=> call.landed) /\ new.answer = call.answer
      BY <3>1 DEF Events!Call
    <3>3. CallInv(new)
      BY <2>1, <2>2, <3>2 DEF CallInv
    <3> QED
      BY <1>9, <2>1, <2>2, <3>1, <3>2, <3>3
  <2>3. CASE call.pc # "probe"
    BY <1>9, <2>1, <2>3
  <2> QED
    BY <2>2, <2>3
<1>11. ds \in Seq(Events!Call) /\ Len(ds) = Len(cs)
  BY <1>9, <1>10
<1>12. PICK v : v = [proc |-> q, calls |-> ds]
  OBVIOUS
<1>13. Events!Go(w, answer) = v
  <2>1. [p EXCEPT !.probe = answer,
                  !.stage = [s \in Events!Signals |-> IF @[s] = "probe" THEN "collect"
                                                      ELSE @[s]]] = q
    BY <1>3, <1>5, <1>6, <1>7
  <2> QED
    BY <1>1, <1>2, <1>9, <1>12, <2>1 DEF Events!Go
<1>14. v.proc = q /\ v.calls = ds /\ v \in WorldType
  BY <1>8, <1>11, <1>12 DEF WorldType
<1>15. Good(v) /\ Weight(v) <= Weight(w) /\ Apps(v) <= Apps(w)
  <2>1. \A c \in DOMAIN w.calls :
          /\ v.calls[c].kind = w.calls[c].kind /\ v.calls[c].signal = w.calls[c].signal
          /\ (v.calls[c].landed <=> w.calls[c].landed)
          /\ v.calls[c].answer = "none" => w.calls[c].answer = "none"
          /\ CallInv(v.calls[c])
    BY <1>2, <1>10, <1>14
  <2>2. /\ v.proc.signals = w.proc.signals /\ v.proc.pending = w.proc.pending
        /\ v.proc.inFlight = w.proc.inFlight /\ Len(v.calls) = Len(w.calls)
        /\ \A t \in Events!Signals :
              \/ v.proc.stage[t] = w.proc.stage[t]
              \/ w.proc.stage[t] = "probe" /\ v.proc.stage[t] = "collect"
    BY <1>1, <1>2, <1>4, <1>8, <1>11, <1>14
  <2> QED
    BY <1>14, <2>1, <2>2, WorldMovesOn
<1> QED
  BY <1>1, <1>2, <1>4, <1>8, <1>11, <1>13, <1>14, <1>15

\* A probe fails: what waited for it tries the primary store.
LEMMA ProbeFailsInv == ASSUME EventsInv, Events!ProbeFails PROVE EventsInv'
<1>1. PICK w : w = Events!World
  OBVIOUS
<1>2. PICK v : v = Events!Go(w, "none")
  OBVIOUS
<1>3. /\ failures < MaxFailures /\ failures' = failures + 1 /\ Events!Become(v)
      /\ UNCHANGED <<table, rows, bucket, left, restarts>>
  BY <1>1, <1>2 DEF Events!ProbeFails
<1>4. Good(w)
  BY <1>1 DEF EventsInv
<1>5. Good(v) /\ v.proc.probe = "none" /\ Weight(v) <= Weight(w) /\ Apps(v) <= Apps(w)
  BY <1>2, <1>4, GoShape
<1>6. failures' \in 0 .. MaxFailures /\ failures' # 0
  BY <1>3, EventNumbers
<1>7. /\ rows' \in [Events!Keys -> 0 .. 1] /\ bucket' \in 0 .. MaxBucket
      /\ restarts' \in 0 .. MaxRestarts /\ table' = table /\ left' = left
  BY <1>3 DEF EventsInv
<1> QED
  BY <1>1, <1>3, <1>5, <1>6, <1>7, WorldKeeps

\* The table is looked for: the store inserts, or is given up and skips what waited.
LEMMA ProbeEndsInv == ASSUME EventsInv, Events!ProbeEnds PROVE EventsInv'
<1>1. PICK w : w = Events!World
  OBVIOUS
<1>2. /\ UNCHANGED <<table, rows, bucket, left, failures, restarts>>
      /\ Good(w) /\ w.proc = proc /\ w.calls = calls
  BY <1>1, EventNumbers DEF EventsInv, Events!ProbeEnds, Events!bounds
<1>3. /\ rows' \in [Events!Keys -> 0 .. 1] /\ bucket' \in 0 .. MaxBucket
      /\ failures' \in 0 .. MaxFailures /\ failures' = failures
      /\ restarts' \in 0 .. MaxRestarts /\ table' = table /\ left' = left
  BY <1>2 DEF EventsInv
<1>4. CASE table
  <2>1. PICK v : v = Events!Go(w, "yes")
    OBVIOUS
  <2>2. Events!Become(v)
    BY <1>1, <1>4, <2>1 DEF Events!ProbeEnds
  <2>3. Good(v) /\ Weight(v) <= Weight(w) /\ Apps(v) <= Apps(w)
    BY <1>2, <2>1, GoShape
  <2> QED
    BY <1>1, <1>3, <1>4, <2>2, <2>3, WorldKeeps
<1>5. CASE ~table
  <2>1. PICK u : u = Events!Go(w, "no")
    OBVIOUS
  <2>2. PICK x : x = Events!Degrade(u)
    OBVIOUS
  <2>3. PICK cs \in Seq(Events!Call) : cs = w.calls
    BY <1>2, WorldParts DEF Good
  <2>4. PICK ds : ds = [c \in DOMAIN cs |->
                          IF cs[c].pc # "probe" THEN cs[c]
                          ELSE [cs[c] EXCEPT !.pc = "over",
                                  !.answer = IF @ = "none" THEN "skipped" ELSE @]]
    OBVIOUS
  <2>5. /\ Good(u) /\ u.proc.probe = "no" /\ u.proc.signals = w.proc.signals
        /\ u.proc.pending = w.proc.pending /\ u.proc.inFlight = w.proc.inFlight
        /\ \A t \in Events!Signals :
              \/ u.proc.stage[t] = w.proc.stage[t]
              \/ w.proc.stage[t] = "probe" /\ u.proc.stage[t] = "collect"
    BY <1>2, <2>1, GoShape
  <2>6. /\ Good(x) /\ x.proc.probe = "no" /\ x.proc.signals = u.proc.signals
        /\ x.proc.pending = u.proc.pending /\ x.proc.inFlight = u.proc.inFlight
        /\ x.proc.stage = u.proc.stage
    BY <2>2, <2>5, DegradeGood
  <2>7. PICK v : v = [proc |-> x.proc, calls |-> ds]
    OBVIOUS
  <2>8. Events!Become(v)
    <3>1. Events!Become([x EXCEPT !.calls = [c \in DOMAIN calls |->
              IF c \notin Events!Probing THEN calls[c]
              ELSE [calls[c] EXCEPT !.pc = "over",
                      !.answer = IF @ = "none" THEN "skipped" ELSE @]]])
      BY <1>1, <1>5, <2>1, <2>2 DEF Events!ProbeEnds
    <3>2. [c \in DOMAIN calls |->
              IF c \notin Events!Probing THEN calls[c]
              ELSE [calls[c] EXCEPT !.pc = "over",
                      !.answer = IF @ = "none" THEN "skipped" ELSE @]] = ds
      BY <1>2, <2>3, <2>4 DEF Events!Probing
    <3>3. Events!Become([x EXCEPT !.calls = ds])
      BY <3>1, <3>2
    <3>4. [x EXCEPT !.calls = ds].proc = v.proc /\ [x EXCEPT !.calls = ds].calls = v.calls
      BY <2>6, <2>7 DEF Good, WorldType
    <3> QED
      BY <3>3, <3>4 DEF Events!Become
  <2>9. ASSUME NEW c \in DOMAIN cs
        PROVE  /\ ds[c] \in Events!Call /\ ds[c].kind = cs[c].kind
               /\ ds[c].signal = cs[c].signal /\ (ds[c].landed <=> cs[c].landed)
               /\ (ds[c].answer = "none" => cs[c].answer = "none")
               /\ CallInv(ds[c]) /\ (ds[c].pc = "insert" => cs[c].pc = "insert")
    <3>1. PICK call \in Events!Call : call = cs[c] /\ CallInv(call)
      BY <1>2, <2>3 DEF Good, CallsInv
    <3>2. CASE call.pc = "probe"
      <4>1. PICK answer \in Events!Answers :
              answer = IF call.answer = "none" THEN "skipped" ELSE call.answer
        BY DEF Events!Answers, Events!Call
      <4>2. PICK new : new = [call EXCEPT !.pc = "over", !.answer = answer]
        OBVIOUS
      <4>3. /\ new \in Events!Call /\ new.kind = call.kind /\ new.signal = call.signal
            /\ (new.landed <=> call.landed) /\ new.answer = answer /\ new.pc = "over"
        BY <4>2 DEF Events!Call
      <4>4. CallInv(new)
        BY <3>1, <3>2, <4>1, <4>3 DEF CallInv
      <4>5. ds[c] = new
        <5>1. [call EXCEPT !.pc = "over",
                           !.answer = IF @ = "none" THEN "skipped" ELSE @] = new
          BY <4>1, <4>2
        <5> QED
          BY <2>4, <3>1, <3>2, <5>1
      <4> QED
        BY <3>1, <4>1, <4>3, <4>4, <4>5
    <3>3. CASE call.pc # "probe"
      BY <2>4, <3>1, <3>3
    <3> QED
      BY <3>2, <3>3
  <2>10. ds \in Seq(Events!Call) /\ Len(ds) = Len(cs) /\ DOMAIN ds = DOMAIN cs
    <3>1. PICK n \in Nat : n = Len(cs) /\ DOMAIN cs = 1 .. n
      BY LenProperties
    <3>2. DOMAIN ds = 1 .. n /\ \A c \in 1 .. n : ds[c] \in Events!Call
      BY <2>4, <2>9, <3>1
    <3>3. ds \in [1 .. n -> Events!Call]
      BY <2>4, <3>1, <3>2
    <3>4. ds \in Seq(Events!Call)
      BY <3>3, SeqDef
    <3>5. Len(ds) = n
      BY <3>2, <3>4, LenProperties
    <3> QED
      BY <3>1, <3>2, <3>4, <3>5
  <2>11. v.proc = x.proc /\ v.calls = ds /\ v \in WorldType
    BY <2>6, <2>7, <2>10, WorldParts DEF Good, WorldType
  <2>12. /\ \A c \in DOMAIN w.calls :
              /\ v.calls[c].kind = w.calls[c].kind /\ v.calls[c].signal = w.calls[c].signal
              /\ (v.calls[c].landed <=> w.calls[c].landed)
              /\ v.calls[c].answer = "none" => w.calls[c].answer = "none"
              /\ CallInv(v.calls[c])
         /\ Len(v.calls) = Len(w.calls)
    BY <2>3, <2>9, <2>10, <2>11
  <2>13. /\ v.proc.signals = w.proc.signals /\ v.proc.pending = w.proc.pending
         /\ v.proc.inFlight = w.proc.inFlight
         /\ \A t \in Events!Signals :
               \/ v.proc.stage[t] = w.proc.stage[t]
               \/ w.proc.stage[t] = "probe" /\ v.proc.stage[t] = "collect"
    BY <2>5, <2>6, <2>11
  <2>14. Good(v) /\ Weight(v) <= Weight(w) /\ Apps(v) <= Apps(w)
    BY <1>2, <2>11, <2>12, <2>13, WorldMovesOn
  <2>15. failures' = 0 => Spared(v)
    BY <1>1, <1>3, <1>5, <2>3, <2>6, <2>9, <2>10, <2>11 DEF Spared, EventsInv
  <2> QED
    BY <1>1, <1>3, <2>6, <2>8, <2>11, <2>14, <2>15, WorldKeeps
<1> QED
  BY <1>4, <1>5

\* A row that is no duplicate is the first of its key.
LEMMA LandedRows ==
    ASSUME EventsInv, NEW c \in DOMAIN calls, ~Events!Duplicate(c), Events!Landed(c)
    PROVE  rows' \in [Events!Keys -> 0 .. 1]
<1>1. PICK k \in Events!Keys \cup {Events!NoKey} : k = calls[c].key
  <2>1. calls \in Seq(Events!Call)
    BY EventNumbers
  <2>2. PICK call \in Events!Call : call = calls[c]
    BY <2>1
  <2>3. call.key \in Events!Keys \cup {Events!NoKey}
    BY DEF Events!Call
  <2> QED
    BY <2>2, <2>3
<1>2. rows \in [Events!Keys -> 0 .. 1]
  BY DEF EventsInv
<1>3. CASE k = Events!NoKey
  BY <1>1, <1>2, <1>3 DEF Events!Landed
<1>4. CASE k # Events!NoKey
  <2>1. k \in Events!Keys /\ rows[k] = 0
    BY <1>1, <1>2, <1>4 DEF Events!Duplicate
  <2>2. rows' = [rows EXCEPT ![k] = @ + 1]
    BY <1>1, <1>4 DEF Events!Landed
  <2>3. rows[k] + 1 \in 0 .. 1
    BY <2>1
  <2> QED
    BY <1>2, <2>1, <2>2, <2>3
<1> QED
  BY <1>3, <1>4

\* The primary store's insertion ends with a row, as a duplicate, or without a table.
LEMMA InsertInv ==
    ASSUME EventsInv, NEW c \in DOMAIN calls, Events!Insert(c) PROVE EventsInv'
<1>1. PICK w : w = Events!World
  OBVIOUS
<1>2. /\ calls[c].pc = "insert"
      /\ UNCHANGED <<table, bucket, left, failures, restarts>>
  BY DEF Events!Insert, Events!bounds
<1>3. /\ Good(w) /\ w.proc = proc /\ w.calls = calls /\ w \in WorldType
      /\ Apps(w) <= MaxEvents /\ bucket \in 0 .. MaxBucket
  BY <1>1, EventNumbers DEF EventsInv
<1>4. c \in DOMAIN w.calls /\ w.calls[c].pc = "insert"
  BY <1>2, <1>3
<1>5. /\ bucket' \in 0 .. MaxBucket /\ failures' \in 0 .. MaxFailures
      /\ failures' = failures /\ restarts' \in 0 .. MaxRestarts
      /\ table' = table /\ left' = left /\ rows \in [Events!Keys -> 0 .. 1]
  BY <1>2 DEF EventsInv
<1>6. \/ /\ ~Events!Duplicate(c) /\ Events!Landed(c)
         /\ Events!Become(Events!Settle([w EXCEPT !.calls[c].landed = TRUE], c, "stored"))
      \/ rows' = rows /\ Events!Become(Events!Settle(w, c, "deduped"))
      \/ rows' = rows /\ Events!Become(Events!Settle(Events!Degrade(w), c, "skipped"))
  BY <1>1 DEF Events!Insert
<1>7. CASE /\ ~Events!Duplicate(c) /\ Events!Landed(c)
           /\ Events!Become(Events!Settle([w EXCEPT !.calls[c].landed = TRUE], c, "stored"))
  <2>1. PICK v : v = Events!Settle([w EXCEPT !.calls[c].landed = TRUE], c, "stored")
    OBVIOUS
  <2>2. Good(v) /\ Within(w, v)
    BY <1>3, <1>4, <2>1, SettleGood
  <2>3. rows' \in [Events!Keys -> 0 .. 1]
    BY <1>7, LandedRows
  <2> QED
    BY <1>1, <1>5, <1>7, <2>1, <2>2, <2>3, WithinKeeps
<1>8. CASE rows' = rows /\ Events!Become(Events!Settle(w, c, "deduped"))
  <2>1. PICK v : v = Events!Settle([w EXCEPT !.calls[c].landed = FALSE], c, "deduped")
    OBVIOUS
  <2>2. Good(v) /\ Within(w, v)
    BY <1>3, <1>4, <2>1, SettleGood
  <2>3. Events!Become(v)
    BY <1>3, <1>4, <1>8, <2>1, NotLanded
  <2> QED
    BY <1>1, <1>5, <1>8, <2>2, <2>3, WithinKeeps
<1>9. CASE rows' = rows /\ Events!Become(Events!Settle(Events!Degrade(w), c, "skipped"))
  <2>1. PICK x : x = Events!Degrade(w)
    OBVIOUS
  <2>2. Good(x) /\ Within(w, x) /\ x.calls = w.calls /\ x \in WorldType
    BY <1>3, <2>1, DegradeGood DEF Good
  <2>3. Apps(x) <= MaxEvents
    <3>1. PICK a \in Nat, b \in Nat : a = Apps(w) /\ b = Apps(x)
      <4>1. PICK f \in Nat, n \in Nat : f = Cardinality(Open(x.calls)) /\ n = x.proc.signals
        BY <2>2, CountedAreFinite
      <4> QED
        BY <1>1, <4>1, EventNumbers DEF Apps
    <3>2. b <= a /\ a <= MaxEvents
      BY <1>3, <2>2, <3>1 DEF Within
    <3>3. MaxEvents \in Nat
      BY EventNumbers
    <3> QED
      BY <3>1, <3>2, <3>3
  <2>4. PICK v : v = Events!Settle([x EXCEPT !.calls[c].landed = FALSE], c, "skipped")
    OBVIOUS
  <2>5. c \in DOMAIN x.calls /\ x.calls[c].pc = "insert"
    BY <1>4, <2>2
  <2>6. Good(v) /\ Within(x, v)
    BY <1>3, <2>2, <2>3, <2>4, <2>5, SettleGood
  <2>7. Events!Become(v)
    BY <1>9, <2>1, <2>2, <2>4, <2>5, NotLanded
  <2>8. Within(w, v)
    BY <1>3, <2>2, <2>6, WithinFollows DEF Good
  <2> QED
    BY <1>1, <1>5, <1>9, <2>6, <2>7, <2>8, WithinKeeps
<1> QED
  BY <1>6, <1>7, <1>8, <1>9

\* The database fails, with the row or without.
LEMMA InsertFailsInv ==
    ASSUME EventsInv, NEW c \in DOMAIN calls, Events!InsertFails(c) PROVE EventsInv'
<1>1. PICK w : w = Events!World
  OBVIOUS
<1>2. /\ calls[c].pc = "insert" /\ failures < MaxFailures /\ failures' = failures + 1
      /\ UNCHANGED <<table, bucket, left, restarts>>
  BY DEF Events!InsertFails
<1>3. /\ Good(w) /\ w.calls = calls /\ Apps(w) <= MaxEvents /\ bucket \in 0 .. MaxBucket
  BY <1>1, EventNumbers DEF EventsInv
<1>4. c \in DOMAIN w.calls /\ w.calls[c].pc = "insert"
  BY <1>2, <1>3
<1>5. failures' \in 0 .. MaxFailures /\ failures' # 0
  BY <1>2, EventNumbers
<1>6. /\ bucket' \in 0 .. MaxBucket /\ restarts' \in 0 .. MaxRestarts
      /\ table' = table /\ left' = left /\ rows \in [Events!Keys -> 0 .. 1]
  BY <1>2 DEF EventsInv
<1>7. PICK b \in {FALSE, table /\ ~Events!Duplicate(c)} :
        /\ IF b THEN Events!Landed(c) ELSE rows' = rows
        /\ Events!Become(Events!Settle([w EXCEPT !.calls[c].landed = b], c, "error"))
  BY <1>1 DEF Events!InsertFails
<1>8. b \in BOOLEAN /\ (b => ~Events!Duplicate(c))
  BY <1>7
<1>9. PICK v : v = Events!Settle([w EXCEPT !.calls[c].landed = b], c, "error")
  OBVIOUS
<1>10. Good(v) /\ Within(w, v)
  BY <1>3, <1>4, <1>8, <1>9, SettleGood
<1>11. rows' \in [Events!Keys -> 0 .. 1]
  BY <1>6, <1>7, <1>8, LandedRows
<1> QED
  BY <1>1, <1>5, <1>6, <1>7, <1>9, <1>10, <1>11, WithinKeeps

\* A time limit is over.
LEMMA TimeOutInv ==
    ASSUME EventsInv, NEW c \in DOMAIN calls, Events!TimeOut(c) PROVE EventsInv'
<1>1. PICK w : w = Events!World
  OBVIOUS
<1>2. PICK v : v = Events!Settled(w, c, "timeout")
  OBVIOUS
<1>3. /\ calls[c].answer = "none" /\ Events!Become(v)
      /\ UNCHANGED <<table, rows, bucket, left, failures, restarts>>
  BY <1>1, <1>2 DEF Events!TimeOut, Events!bounds
<1>4. /\ Good(w) /\ w.calls = calls /\ Apps(w) <= MaxEvents /\ bucket \in 0 .. MaxBucket
  BY <1>1, EventNumbers DEF EventsInv
<1>5. c \in DOMAIN w.calls /\ w.calls[c].answer = "none"
  BY <1>3, <1>4
<1>6. "timeout" \in Events!Answers \ {"none"}
  BY DEF Events!Answers
<1>7. Good(v) /\ Within(w, v)
  BY <1>2, <1>4, <1>5, <1>6, SettledGood
<1>8. /\ rows' \in [Events!Keys -> 0 .. 1] /\ bucket' \in 0 .. MaxBucket
      /\ failures' \in 0 .. MaxFailures /\ failures' = failures
      /\ restarts' \in 0 .. MaxRestarts /\ table' = table /\ left' = left
  BY <1>3 DEF EventsInv
<1> QED
  BY <1>1, <1>3, <1>7, <1>8, WithinKeeps

\* An evaluation that reads its window awaits no event.
LEMMA CollectingAwaitsNothing ==
    ASSUME NEW w, Good(w), NEW s \in Events!Signals,
           w.proc.inFlight = s, w.proc.stage[s] = "collect"
    PROVE  Waiting(w.calls) = {}
<1>1. ASSUME NEW c \in Waiting(w.calls) PROVE FALSE
  <2>1. /\ w.calls[c].signal \in Events!Signals
        /\ w.proc.stage[w.calls[c].signal] = EvalStage(w.calls[c].kind)
    BY <1>1 DEF Good, LinkInv
  <2>2. /\ w.proc.stage[w.calls[c].signal] \in Active
        /\ w.proc.stage[w.calls[c].signal] # "collect"
    BY <2>1 DEF Active, EvalStage
  <2>3. w.calls[c].signal = s
    BY <2>1, <2>2 DEF Good, ProcInv
  <2> QED
    BY <2>2, <2>3
<1> QED
  BY <1>1

\* The window of an evaluation was read: it asks for its lease.
LEMMA CollectedInv ==
    ASSUME EventsInv, NEW s \in Events!Signals, Events!Collected(s) PROVE EventsInv'
<1>1. PICK w : w = Events!World
  OBVIOUS
<1>2. /\ proc.inFlight = s /\ proc.stage[s] = "collect"
      /\ UNCHANGED <<table, rows, bucket, left, failures, restarts>>
  BY DEF Events!Collected, Events!bounds
<1>3. PICK b \in BOOLEAN :
        Events!Become(Events!FinishUnless(
            Events!Emit([w EXCEPT !.proc.stage[s] = "tick", !.proc.breached[s] = b],
                        "tick", s, Events!Lease(proc.last, s)), s, "tick"))
  BY <1>1 DEF Events!Collected
<1>4. /\ Good(w) /\ w.proc = proc /\ w.calls = calls /\ w \in WorldType
      /\ bucket \in 0 .. MaxBucket
  BY <1>1, EventNumbers DEF EventsInv
<1>5. PICK p \in Events!Proc : p = proc
  BY EventNumbers
<1>6. PICK cs \in Seq(Events!Call) : cs = calls
  BY EventNumbers
<1>7. w = [proc |-> p, calls |-> cs]
  BY <1>1, <1>5, <1>6 DEF Events!World
<1>8. PICK g : g = [p.stage EXCEPT ![s] = "tick"]
  OBVIOUS
<1>9. PICK h : h = [p.breached EXCEPT ![s] = b]
  OBVIOUS
<1>10. PICK mid : mid = [p EXCEPT !.stage = g]
  OBVIOUS
<1>11. PICK q : q = [mid EXCEPT !.breached = h]
  OBVIOUS
<1>12. /\ g \in [Events!Signals -> Events!Stages] /\ g[s] = "tick"
       /\ \A t \in Events!Signals : t # s => g[t] = p.stage[t]
       /\ h \in [Events!Signals -> BOOLEAN]
  BY <1>8, <1>9 DEF Events!Proc, Events!Stages
<1>13. mid = [mode |-> p.mode, probe |-> p.probe, degraded |-> p.degraded,
              signals |-> p.signals, pending |-> p.pending, inFlight |-> p.inFlight,
              last |-> p.last, rested |-> p.rested, stage |-> g, breached |-> p.breached]
  BY <1>10 DEF Events!Proc
<1>14. q = [mode |-> p.mode, probe |-> p.probe, degraded |-> p.degraded,
            signals |-> p.signals, pending |-> p.pending, inFlight |-> p.inFlight,
            last |-> p.last, rested |-> p.rested, stage |-> g, breached |-> h]
  BY <1>11, <1>13
<1>15. q \in Events!Proc
  BY <1>12, <1>14 DEF Events!Proc
<1>16. PICK u : u = [proc |-> q, calls |-> cs]
  OBVIOUS
<1>17. [w EXCEPT !.proc.stage[s] = "tick", !.proc.breached[s] = b] = u
  <2>1. PICK x : x = [w EXCEPT !.proc.stage[s] = "tick"]
    OBVIOUS
  <2>2. x = [proc |-> mid, calls |-> cs]
    <3>1. [p EXCEPT !.stage[s] = "tick"] = mid
      BY <1>8, <1>10
    <3>2. [w EXCEPT !.proc.stage[s] = "tick"] = [w EXCEPT !.proc = mid]
      BY <1>7, <3>1
    <3> QED
      BY <1>7, <2>1, <3>2
  <2>3. [x EXCEPT !.proc.breached[s] = b] = u
    <3>1. [mid EXCEPT !.breached[s] = b] = q
      BY <1>9, <1>11, <1>13
    <3>2. [x EXCEPT !.proc.breached[s] = b] = [x EXCEPT !.proc = q]
      BY <2>2, <3>1
    <3> QED
      BY <1>16, <2>2, <3>2
  <2> QED
    BY <2>1, <2>3
<1>18. u.proc = q /\ u.calls = cs /\ u \in WorldType
  BY <1>15, <1>16 DEF WorldType
<1>19. PICK k : k = Events!Lease(p.last, s)
  OBVIOUS
<1>20. k \in Events!Keys \cup {Events!NoKey}
  BY <1>19 DEF Events!Keys, Events!Proc
<1>21. Waiting(w.calls) = {}
  BY <1>2, <1>4, CollectingAwaitsNothing
<1>22. PICK kind \in {"tick", "warning"} : kind = "tick"
  OBVIOUS
<1>23. PICK v : v = Events!FinishUnless(Events!Emit(u, kind, s, k), s, kind)
  OBVIOUS
<1>24. /\ u.calls = w.calls /\ u.proc.signals = w.proc.signals
       /\ u.proc.pending = w.proc.pending /\ u.proc.inFlight = w.proc.inFlight
       /\ u.proc.probe = w.proc.probe /\ u.proc.stage[s] = EvalStage(kind)
       /\ \A t \in Events!Signals : t # s => u.proc.stage[t] = w.proc.stage[t]
       /\ w.proc.stage[s] = "collect" /\ kind # "warning"
  BY <1>2, <1>4, <1>5, <1>6, <1>12, <1>14, <1>18, <1>22 DEF EvalStage
<1>25. Good(v) /\ Within(w, v)
  BY <1>4, <1>18, <1>20, <1>21, <1>23, <1>24, EvaluationEmits
<1>26. Events!Become(v)
  BY <1>3, <1>5, <1>17, <1>19, <1>22, <1>23
<1>27. /\ rows' \in [Events!Keys -> 0 .. 1] /\ bucket' \in 0 .. MaxBucket
       /\ failures' \in 0 .. MaxFailures /\ failures' = failures
       /\ restarts' \in 0 .. MaxRestarts /\ table' = table /\ left' = left
  BY <1>2 DEF EventsInv
<1> QED
  BY <1>1, <1>25, <1>26, <1>27, WithinKeeps

\* The window could not be read: the evaluation ends.
LEMMA CollectFailsInv ==
    ASSUME EventsInv, NEW s \in Events!Signals, Events!CollectFails(s) PROVE EventsInv'
<1>1. PICK w : w = Events!World
  OBVIOUS
<1>2. PICK v : v = Events!Finish(w, s)
  OBVIOUS
<1>3. /\ proc.inFlight = s /\ proc.stage[s] = "collect" /\ Events!Become(v)
      /\ failures < MaxFailures /\ failures' = failures + 1
      /\ UNCHANGED <<table, rows, bucket, left, restarts>>
  BY <1>1, <1>2 DEF Events!CollectFails
<1>4. /\ Good(w) /\ w.proc = proc /\ w.calls = calls /\ w \in WorldType
      /\ bucket \in 0 .. MaxBucket
  BY <1>1, EventNumbers DEF EventsInv
<1>5. Waiting(w.calls) = {}
  BY <1>3, <1>4, CollectingAwaitsNothing
<1>6. w.proc.stage[s] \in Active
  BY <1>3, <1>4 DEF Active
<1>7. Good(v) /\ Calmer(w, v)
  BY <1>2, <1>4, <1>5, <1>6, FinishGood
<1>8. Within(w, v)
  BY <1>4, <1>7, CalmerIsWithin DEF Good
<1>9. failures' \in 0 .. MaxFailures /\ failures' # 0
  BY <1>3, EventNumbers
<1>10. /\ rows' \in [Events!Keys -> 0 .. 1] /\ bucket' \in 0 .. MaxBucket
       /\ restarts' \in 0 .. MaxRestarts /\ table' = table /\ left' = left
  BY <1>3 DEF EventsInv
<1> QED
  BY <1>1, <1>3, <1>7, <1>8, <1>9, <1>10, WithinKeeps

\* A memory that differs in what no bound counts is within the bounds.
LEMMA MemoryKeeps ==
    ASSUME EventsInv, NEW q \in Events!Proc, proc' = q, calls' = calls,
           q.stage = proc.stage, q.signals = proc.signals, q.pending = proc.pending,
           q.inFlight = proc.inFlight, q.probe = proc.probe,
           rows' = rows, table' = table, left' = left, bucket' \in 0 .. MaxBucket,
           failures' = failures, restarts' = restarts
    PROVE  EventsInv'
<1>1. PICK w : w = Events!World
  OBVIOUS
<1>2. PICK p \in Events!Proc : p = proc
  BY EventNumbers
<1>3. PICK cs \in Seq(Events!Call) : cs = calls
  BY EventNumbers
<1>4. Good(w) /\ w.proc = p /\ w.calls = cs /\ w \in WorldType
  BY <1>1, <1>2, <1>3, EventNumbers DEF EventsInv
<1>5. PICK v : v = [proc |-> q, calls |-> cs]
  OBVIOUS
<1>6. v.proc = q /\ v.calls = cs /\ v \in WorldType
  BY <1>5 DEF WorldType
<1>7. Good(v)
  <2>1. ProcInv(q) /\ LinkInv(q, cs) /\ CallsInv(cs)
    BY <1>2, <1>4 DEF Good, ProcInv, LinkInv
  <2> QED
    BY <1>6, <2>1 DEF Good
<1>8. Calmer(w, v)
  BY <1>2, <1>4, <1>6 DEF Calmer, Before, UpTo
<1>9. Within(w, v)
  BY <1>4, <1>6, <1>8, CalmerIsWithin
<1>10. Events!Become(v)
  BY <1>3, <1>6 DEF Events!Become
<1>11. /\ rows' \in [Events!Keys -> 0 .. 1] /\ failures' \in 0 .. MaxFailures
       /\ restarts' \in 0 .. MaxRestarts
  BY DEF EventsInv
<1> QED
  BY <1>1, <1>7, <1>9, <1>10, <1>11, WithinKeeps

\* The cooldown of the sink is over, an interval passes, or one has passed since the last
\* evaluation.
LEMMA TimePassesInv ==
    ASSUME EventsInv, Events!CoolDown \/ Events!NextBucket \/ Events!Rest PROVE EventsInv'
<1>1. PICK p \in Events!Proc : p = proc
  BY EventNumbers
<1>2. CASE Events!CoolDown
  <2>1. PICK q : q = [p EXCEPT !.mode = "ready"]
    OBVIOUS
  <2>2. /\ q \in Events!Proc /\ q.stage = p.stage /\ q.signals = p.signals
        /\ q.pending = p.pending /\ q.inFlight = p.inFlight /\ q.probe = p.probe
    BY <2>1 DEF Events!Proc
  <2>3. /\ proc' = q /\ calls' = calls /\ rows' = rows /\ table' = table /\ left' = left
        /\ bucket' = bucket /\ failures' = failures /\ restarts' = restarts
    BY <1>1, <1>2, <2>1 DEF Events!CoolDown, Events!bounds
  <2>4. bucket' \in 0 .. MaxBucket
    BY <2>3 DEF EventsInv
  <2> QED
    BY <1>1, <2>2, <2>3, <2>4, MemoryKeeps
<1>3. CASE Events!NextBucket
  <2>1. /\ proc' = p /\ calls' = calls /\ rows' = rows /\ table' = table /\ left' = left
        /\ bucket < MaxBucket /\ bucket' = bucket + 1
        /\ failures' = failures /\ restarts' = restarts
    BY <1>1, <1>3 DEF Events!NextBucket
  <2>2. bucket' \in 0 .. MaxBucket
    BY <2>1, EventNumbers
  <2> QED
    BY <1>1, <2>1, <2>2, MemoryKeeps
<1>4. CASE Events!Rest
  <2>1. PICK q : q = [p EXCEPT !.rested = TRUE]
    OBVIOUS
  <2>2. /\ q \in Events!Proc /\ q.stage = p.stage /\ q.signals = p.signals
        /\ q.pending = p.pending /\ q.inFlight = p.inFlight /\ q.probe = p.probe
    BY <2>1 DEF Events!Proc
  <2>3. /\ proc' = q /\ calls' = calls /\ rows' = rows /\ table' = table /\ left' = left
        /\ bucket' = bucket /\ failures' = failures /\ restarts' = restarts
    BY <1>1, <1>4, <2>1 DEF Events!Rest, Events!bounds
  <2>4. bucket' \in 0 .. MaxBucket
    BY <2>3 DEF EventsInv
  <2> QED
    BY <1>1, <2>2, <2>3, <2>4, MemoryKeeps
<1> QED
  BY <1>2, <1>3, <1>4

\* The invariant is about the variables of the events.
LEMMA EventsStandStill == ASSUME EventsInv, UNCHANGED eventVars PROVE EventsInv'
<1>1. /\ proc' = proc /\ calls' = calls /\ rows' = rows /\ table' = table /\ left' = left
      /\ bucket' = bucket /\ failures' = failures /\ restarts' = restarts
  BY DEF eventVars
<1>2. bucket' \in 0 .. MaxBucket
  BY <1>1 DEF EventsInv
<1> QED
  BY <1>1, <1>2, EventNumbers, MemoryKeeps

\* A server without memory and calls.
LEMMA NewWorld ==
    /\ Good([proc |-> Events!NewProc, calls |-> <<>>])
    /\ Spared([proc |-> Events!NewProc, calls |-> <<>>])
    /\ Weight([proc |-> Events!NewProc, calls |-> <<>>]) = 2 * MaxEvents
    /\ Apps([proc |-> Events!NewProc, calls |-> <<>>]) = 0
    /\ Events!NewProc.probe = "none"
<1>1. PICK p : p = Events!NewProc
  OBVIOUS
<1>2. PICK cs : cs = << >>
  OBVIOUS
<1>3. PICK w : w = [proc |-> p, calls |-> cs]
  OBVIOUS
<1>4. /\ p.signals = 0 /\ p.pending = 0 /\ p.inFlight = 0 /\ p.probe = "none"
      /\ \A s \in Events!Signals : p.stage[s] = "none"
  BY <1>1 DEF Events!NewProc
<1>5. 0 \in 0 .. MaxEvents /\ 0 \in 0 .. MaxBucket
  BY BoundAssumption
<1>6. p \in Events!Proc
  <2>1. PICK g : g = [s \in Events!Signals |-> "none"]
    OBVIOUS
  <2>2. PICK h : h = [s \in Events!Signals |-> FALSE]
    OBVIOUS
  <2>3. g \in [Events!Signals -> Events!Stages] /\ h \in [Events!Signals -> BOOLEAN]
    BY <2>1, <2>2 DEF Events!Stages
  <2>4. p = [mode |-> "ready", probe |-> "none", degraded |-> FALSE, signals |-> 0,
             pending |-> 0, inFlight |-> 0, last |-> 0, rested |-> TRUE,
             stage |-> g, breached |-> h]
    BY <1>1, <2>1, <2>2 DEF Events!NewProc
  <2> QED
    BY <1>5, <2>3, <2>4 DEF Events!Proc
<1>7. cs \in Seq(Events!Call) /\ Len(cs) = 0 /\ DOMAIN cs = {}
  BY <1>2
<1>8. w.proc = p /\ w.calls = cs /\ w \in WorldType
  BY <1>3, <1>6, <1>7 DEF WorldType
<1>9. Waiting(cs) = {} /\ Open(cs) = {}
  BY <1>7 DEF Waiting, Open
<1>10. ProcInv(p)
  BY <1>4 DEF ProcInv, Active
<1>11. LinkInv(p, cs) /\ CallsInv(cs)
  BY <1>7, <1>9 DEF LinkInv, CallsInv, Leased
<1>12. Good(w)
  BY <1>8, <1>10, <1>11 DEF Good
<1>13. Spared(w)
  BY <1>4, <1>7, <1>8 DEF Spared
<1>14. Before(p) = Events!Signals /\ UpTo(p) = Events!Signals
  BY <1>4 DEF Before, UpTo
<1>15. MaxEvents \in Nat /\ Cardinality(Events!Signals) = MaxEvents /\ Cardinality({}) = 0
  BY SignalsAreFinite, FS_EmptySet
<1>16. Weight(w) = 2 * MaxEvents
  <2>1. PICK n \in Nat : n = MaxEvents
    BY <1>15
  <2>2. Weight(w) = 0 + n + n
    BY <1>7, <1>8, <1>14, <1>15, <2>1 DEF Weight
  <2> QED
    BY <2>1, <2>2
<1>17. Apps(w) = 0
  BY <1>4, <1>8, <1>9, <1>15 DEF Apps
<1> QED
  BY <1>1, <1>2, <1>3, <1>4, <1>12, <1>13, <1>16, <1>17

\* The server stops; the insertions under way may still be done, each for the first time.
LEMMA RestartInv == ASSUME EventsInv, Events!Restart PROVE EventsInv'
<1>1. PICK w : w = [proc |-> Events!NewProc, calls |-> <<>>]
  OBVIOUS
<1>2. /\ Good(w) /\ Spared(w) /\ Weight(w) = 2 * MaxEvents /\ Apps(w) = 0
      /\ Events!NewProc.probe = "none"
  BY <1>1, NewWorld
<1>3. /\ proc' = Events!NewProc /\ calls' = <<>> /\ restarts < MaxRestarts
      /\ restarts' = restarts + 1 /\ UNCHANGED <<table, bucket, left, failures>>
  BY DEF Events!Restart
<1>4. Events!World' = w
  BY <1>1, <1>3 DEF Events!World
<1>5. MaxEvents \in Nat /\ MaxRestarts \in Nat /\ left \in 0 .. MaxEvents
      /\ restarts \in 0 .. MaxRestarts
  BY EventNumbers DEF EventsInv
<1>6. Weight(Events!World') + left' <= 3 * MaxEvents /\ Apps(Events!World') + left' <= MaxEvents
  BY <1>2, <1>3, <1>4, <1>5
<1>7. restarts' \in 0 .. MaxRestarts
  BY <1>3, <1>5
<1>8. rows' \in [Events!Keys -> 0 .. 1]
  <2>1. PICK done \in SUBSET {calls[c].key : c \in {c \in DOMAIN calls :
                                 calls[c].pc = "insert" /\ ~Events!Duplicate(c)}} :
          rows' = [k \in Events!Keys |-> IF k \in done /\ table THEN rows[k] + 1 ELSE rows[k]]
    BY DEF Events!Restart
  <2>2. ASSUME NEW k \in Events!Keys, k \in done PROVE rows[k] = 0
    <3>1. PICK c \in DOMAIN calls : ~Events!Duplicate(c) /\ k = calls[c].key
      BY <2>1, <2>2
    <3>2. k # Events!NoKey
      BY DEF Events!Keys, Events!NoKey, Events!Warning, Events!Lease
    <3>3. rows[k] \in 0 .. 1
      BY DEF EventsInv
    <3> QED
      BY <3>1, <3>2, <3>3 DEF Events!Duplicate
  <2>3. \A k \in Events!Keys : rows[k] \in 0 .. 1
    BY DEF EventsInv
  <2>4. \A k \in Events!Keys :
          (IF k \in done /\ table THEN rows[k] + 1 ELSE rows[k]) \in 0 .. 1
    BY <2>2, <2>3
  <2> QED
    BY <2>1, <2>4
<1>9. ~table' => proc'.probe # "yes"
  BY <1>2, <1>3
<1>10. /\ table' \in BOOLEAN /\ bucket' \in 0 .. MaxBucket /\ left' \in 0 .. MaxEvents
       /\ failures' \in 0 .. MaxFailures
  BY <1>3 DEF EventsInv
<1>11. Good(Events!World') /\ Spared(Events!World')
  BY <1>2, <1>4
<1> QED
  BY <1>6, <1>7, <1>8, <1>9, <1>10, <1>11 DEF EventsInv

\* Nothing was emitted yet.
LEMMA EventsBegin == ASSUME Events!Init PROVE EventsInv
<1>1. PICK w : w = [proc |-> Events!NewProc, calls |-> <<>>]
  OBVIOUS
<1>2. /\ Good(w) /\ Spared(w) /\ Weight(w) = 2 * MaxEvents /\ Apps(w) = 0
      /\ Events!NewProc.probe = "none"
  BY <1>1, NewWorld
<1>3. /\ table \in BOOLEAN /\ rows = [k \in Events!Keys |-> 0]
      /\ proc = Events!NewProc /\ calls = <<>>
      /\ bucket = 0 /\ left = MaxEvents /\ failures = 0 /\ restarts = 0
  BY DEF Events!Init
<1>4. Events!World = w
  BY <1>1, <1>3 DEF Events!World
<1>5. MaxEvents \in Nat /\ MaxBucket \in Nat /\ MaxFailures \in Nat /\ MaxRestarts \in Nat
  BY BoundAssumption
<1>6. Weight(Events!World) + left <= 3 * MaxEvents /\ Apps(Events!World) + left <= MaxEvents
  BY <1>2, <1>3, <1>4, <1>5
<1>7. /\ bucket \in 0 .. MaxBucket /\ left \in 0 .. MaxEvents
      /\ failures \in 0 .. MaxFailures /\ restarts \in 0 .. MaxRestarts
  BY <1>3, <1>5
<1>8. rows \in [Events!Keys -> 0 .. 1]
  BY <1>3
<1> QED
  BY <1>2, <1>3, <1>4, <1>6, <1>7, <1>8 DEF EventsInv

\* Every step of any part keeps the invariant of the events.
LEMMA EventsStep ==
    ASSUME EventsInv, [MCNext]_<<part, vars, eventVars, importVars>>
    PROVE  EventsInv'
<1>1. CASE Events!Next
  <2>1. CASE Events!EmitApp
    BY <2>1, EmitAppInv
  <2>2. CASE Events!ProbeEnds
    BY <2>2, ProbeEndsInv
  <2>3. CASE Events!ProbeFails
    BY <2>3, ProbeFailsInv
  <2>4. ASSUME NEW c \in DOMAIN calls,
               Events!Insert(c) \/ Events!InsertFails(c) \/ Events!TimeOut(c)
        PROVE  EventsInv'
    BY <2>4, InsertInv, InsertFailsInv, TimeOutInv
  <2>5. ASSUME NEW s \in Events!Signals, Events!Collected(s) \/ Events!CollectFails(s)
        PROVE  EventsInv'
    BY <2>5, CollectedInv, CollectFailsInv
  <2>6. CASE Events!CoolDown \/ Events!NextBucket \/ Events!Rest
    BY <2>6, TimePassesInv
  <2>7. CASE Events!Restart
    BY <2>7, RestartInv
  <2> QED
    BY <1>1, <2>1, <2>2, <2>3, <2>4, <2>5, <2>6, <2>7 DEF Events!Next
<1>2. CASE UNCHANGED eventVars
  BY <1>2, EventsStandStill
<1>3. Events!Next \/ UNCHANGED eventVars
  BY DEF MCNext
<1> QED
  BY <1>1, <1>2, <1>3

\* The invariant says what an emitter and a reader of the table may rely on.
LEMMA EventsConsequence ==
    ASSUME EventsInv
    PROVE  /\ Events!TypeOK /\ Events!AnswersAreTruthful /\ Events!NoSecondRow
           /\ Events!MissingTableIsSpared /\ EvaluationsTakeTurns
<1>1. PICK p \in Events!Proc, cs \in Seq(Events!Call) : p = proc /\ cs = calls
  BY EventNumbers
<1>2. ProcInv(p) /\ CallsInv(cs)
  BY <1>1, EventNumbers DEF EventsInv, Good
<1>3. rows \in [Events!Keys -> 0 .. 1]
  BY DEF EventsInv
<1>4. Len(calls) <= 3 * MaxEvents
  <2>1. PICK a \in Nat, b \in Nat, n \in Nat :
          a = Cardinality(Before(proc)) /\ b = Cardinality(UpTo(proc)) /\ n = Len(calls)
    BY CountedAreFinite, EventNumbers
  <2>2. Weight(Events!World) = n + a + b
    BY <2>1, EventNumbers DEF Weight
  <2>3. (n + a + b) + left <= 3 * MaxEvents
    BY <2>2 DEF EventsInv
  <2>4. left \in Nat /\ MaxEvents \in Nat
    BY EventNumbers
  <2>5. n <= 3 * MaxEvents
    BY <2>3, <2>4
  <2> QED
    BY <2>1, <2>5
<1>5. Events!TypeOK
  <2>1. rows \in [Events!Keys -> Nat]
    BY <1>3
  <2>2. /\ table \in BOOLEAN /\ bucket \in 0 .. MaxBucket /\ left \in 0 .. MaxEvents
        /\ failures \in 0 .. MaxFailures /\ restarts \in 0 .. MaxRestarts
    BY DEF EventsInv
  <2> QED
    BY <1>1, <1>4, <2>1, <2>2 DEF Events!TypeOK
<1>6. Events!AnswersAreTruthful
  BY <1>1, <1>2 DEF Events!AnswersAreTruthful, CallsInv, CallInv
<1>7. Events!NoSecondRow
  BY <1>3 DEF Events!NoSecondRow
<1>8. Events!MissingTableIsSpared
  BY EventNumbers DEF EventsInv, Spared, Events!MissingTableIsSpared
<1>9. Events!OneEvaluationAtATime
  BY <1>1, <1>2 DEF Events!OneEvaluationAtATime, ProcInv, Active
<1>10. Events!WarningsHoldTheLease
  BY <1>1, <1>2 DEF Events!WarningsHoldTheLease, CallsInv, Leased
<1> QED
  BY <1>5, <1>6, <1>7, <1>8, <1>9, <1>10 DEF EvaluationsTakeTurns

\* The events' invariant holds whichever part of the server runs.
LEMMA EventsInvariant == MCSpec => []EventsInv
<1>1. MCInit => EventsInv
  BY EventsBegin DEF MCInit
<1>2. EventsInv /\ [MCNext]_<<part, vars, eventVars, importVars>> => EventsInv'
  BY EventsStep
<1> QED
  BY <1>1, <1>2, PTL DEF MCSpec

-----------------------------------------------------------------------------
(* Silence has a cause.  What a world says of the sink needs no bounds on  *)
(* its numbers: it is followed through worlds of a wider type.             *)

KeyType == {"warning", "tick", "none"} \X Nat \X Nat
LooseProc ==
    [mode : {"ready", "fallback"}, probe : {"none", "running", "yes", "no"},
     degraded : BOOLEAN, signals : Nat, pending : Nat, inFlight : Nat, last : Nat,
     rested : BOOLEAN, stage : [Events!Signals -> Events!Stages],
     breached : [Events!Signals -> BOOLEAN]]
LooseCall ==
    [kind : {"app", "tick", "warning"}, signal : Nat, key : KeyType,
     pc : {"probe", "insert", "over"}, answer : Events!Answers, landed : BOOLEAN]
LooseWorld == [proc : LooseProc, calls : Seq(LooseCall)]

Failing(call) == call.answer \in {"timeout", "error"}
Excused(w) ==
    \/ w.proc.degraded
    \/ /\ w.proc.mode = "fallback" => \E d \in DOMAIN w.calls : Failing(w.calls[d])
       /\ \A c \in DOMAIN w.calls :
            w.calls[c].answer = "skipped" => \E d \in 1 .. c - 1 : Failing(w.calls[d])

\* The memory may have changed, but not what it says of the sink.
SameSink(w, v) ==
    /\ v \in LooseWorld /\ v.calls = w.calls
    /\ v.proc.mode = w.proc.mode /\ v.proc.degraded = w.proc.degraded

\* A world of the invariant is one of the wider type.
LEMMA LooseParts ==
    /\ \A w \in WorldType : w \in LooseWorld
    /\ \A w \in LooseWorld :
              /\ w.proc \in LooseProc /\ w.calls \in Seq(LooseCall)
              /\ w = [proc |-> w.proc, calls |-> w.calls]
<1>1. ASSUME NEW w \in WorldType PROVE w \in LooseWorld
  <2>1. PICK p \in Events!Proc, cs \in Seq(Events!Call) : w = [proc |-> p, calls |-> cs]
    BY WorldParts
  <2>2. MaxEvents \in Nat /\ MaxBucket \in Nat
    BY BoundAssumption
  <2>3. Events!Proc \subseteq LooseProc
    BY <2>2 DEF Events!Proc, LooseProc
  <2>4. \A k \in Events!Keys \cup {Events!NoKey} : k \in KeyType
    BY <2>2, SignalsAreFinite
       DEF Events!Keys, Events!NoKey, Events!Warning, Events!Lease, KeyType
  <2>5. Events!Call \subseteq LooseCall
    BY <2>2, <2>4 DEF Events!Call, LooseCall
  <2>6. cs \in Seq(LooseCall)
    BY <2>5
  <2> QED
    BY <2>1, <2>3, <2>6 DEF LooseWorld
<1>2. ASSUME NEW w \in LooseWorld
      PROVE  /\ w.proc \in LooseProc /\ w.calls \in Seq(LooseCall)
             /\ w = [proc |-> w.proc, calls |-> w.calls]
  BY DEF LooseWorld
<1> QED
  BY <1>1, <1>2

\* A sink that is no worse and answers that are the same leave the silence excused.
LEMMA SilenceKept ==
    ASSUME NEW w, NEW v, Excused(w),
           v.proc.mode \in {w.proc.mode, "ready"}, v.proc.degraded = w.proc.degraded,
           DOMAIN v.calls = DOMAIN w.calls, w.calls \in Seq(LooseCall),
           \A c \in DOMAIN w.calls : v.calls[c].answer = w.calls[c].answer
    PROVE  Excused(v)
<1>1. CASE w.proc.degraded
  BY <1>1 DEF Excused
<1>2. CASE ~w.proc.degraded
  <2>1. \A c \in DOMAIN w.calls : \A d \in 1 .. c - 1 : d \in DOMAIN w.calls
    BY LenProperties
  <2>2. \A d \in DOMAIN w.calls : Failing(v.calls[d]) <=> Failing(w.calls[d])
    BY DEF Failing
  <2>3. /\ w.proc.mode = "fallback" => \E d \in DOMAIN w.calls : Failing(w.calls[d])
        /\ \A c \in DOMAIN w.calls :
             w.calls[c].answer = "skipped" => \E d \in 1 .. c - 1 : Failing(w.calls[d])
    BY <1>2 DEF Excused
  <2>4. v.proc.mode = "fallback" => \E d \in DOMAIN v.calls : Failing(v.calls[d])
    BY <2>2, <2>3
  <2>5. ASSUME NEW c \in DOMAIN v.calls, v.calls[c].answer = "skipped"
        PROVE  \E d \in 1 .. c - 1 : Failing(v.calls[d])
    <3>1. PICK d \in 1 .. c - 1 : Failing(w.calls[d])
      BY <2>3, <2>5
    <3> QED
      BY <2>1, <2>2, <2>5, <3>1
  <2> QED
    BY <2>4, <2>5 DEF Excused
<1> QED
  BY <1>1, <1>2

\* The same sink, the same silence.
LEMMA SameSinkKeeps ==
    ASSUME NEW w \in LooseWorld, NEW v, SameSink(w, v), Excused(w)
    PROVE  Excused(v)
BY SilenceKept, LooseParts DEF SameSink

\* Evaluations begin, wait and end without a word of the sink.
LEMMA TriggerSinks ==
    ASSUME NEW w \in LooseWorld, NEW s \in Nat, bucket \in Nat
    PROVE  SameSink(w, Events!Start(w, s)) /\ SameSink(w, Events!Trigger(w, s))
<1>1. PICK p \in LooseProc, cs \in Seq(LooseCall) :
        w = [proc |-> p, calls |-> cs] /\ w.proc = p /\ w.calls = cs
  BY LooseParts
<1>2. SameSink(w, Events!Start(w, s))
  <2>1. PICK pr \in {"none", "running", "yes", "no"} :
          pr = IF ~(p.mode = "fallback" \/ p.degraded) /\ p.probe = "none"
                 THEN "running" ELSE p.probe
    BY DEF LooseProc
  <2>2. PICK at \in Events!Stages :
          at = IF p.mode = "fallback" \/ p.degraded \/ p.probe = "yes"
                 THEN "collect" ELSE "probe"
    BY DEF Events!Stages
  <2>3. PICK g \in [Events!Signals -> Events!Stages] : g = [p.stage EXCEPT ![s] = at]
    BY DEF LooseProc
  <2>4. PICK q : q = [p EXCEPT !.rested = FALSE, !.last = bucket, !.inFlight = s,
                               !.probe = pr, !.stage = g]
    OBVIOUS
  <2>5. q \in LooseProc /\ q.mode = p.mode /\ q.degraded = p.degraded
    BY <2>4 DEF LooseProc
  <2>6. [p EXCEPT !.rested = FALSE, !.last = bucket, !.inFlight = s,
                  !.probe = IF ~(p.mode = "fallback" \/ p.degraded) /\ @ = "none"
                              THEN "running" ELSE @,
                  !.stage[s] = IF p.mode = "fallback" \/ p.degraded \/ p.probe = "yes"
                                 THEN "collect" ELSE "probe"] = q
    BY <2>1, <2>2, <2>3, <2>4 DEF LooseProc
  <2>7. Events!Start(w, s) = [w EXCEPT !.proc = q]
    BY <1>1, <2>6 DEF Events!Start
  <2>8. Events!Start(w, s) = [proc |-> q, calls |-> cs]
    BY <1>1, <2>7
  <2> QED
    BY <1>1, <2>5, <2>8 DEF SameSink, LooseWorld
<1>3. SameSink(w, Events!Trigger(w, s))
  <2>1. CASE p.inFlight # 0
    <3>1. PICK k \in Nat : k = IF p.pending > s THEN p.pending ELSE s
      BY DEF LooseProc
    <3>2. PICK q : q = [p EXCEPT !.pending = k]
      OBVIOUS
    <3>3. q \in LooseProc /\ q.mode = p.mode /\ q.degraded = p.degraded
      BY <3>2 DEF LooseProc
    <3>4. [p EXCEPT !.pending = IF @ > s THEN @ ELSE s] = q
      BY <3>1, <3>2
    <3>5. Events!Trigger(w, s) = [w EXCEPT !.proc = q]
      BY <1>1, <2>1, <3>4 DEF Events!Trigger
    <3>6. Events!Trigger(w, s) = [proc |-> q, calls |-> cs]
      BY <1>1, <3>5
    <3> QED
      BY <1>1, <3>3, <3>6 DEF SameSink, LooseWorld
  <2>2. CASE p.inFlight = 0 /\ p.rested
    BY <1>1, <1>2, <2>2 DEF Events!Trigger
  <2>3. CASE p.inFlight = 0 /\ ~p.rested
    BY <1>1, <2>3 DEF Events!Trigger, SameSink
  <2> QED
    BY <2>1, <2>2, <2>3
<1> QED
  BY <1>2, <1>3

\* The end of an evaluation.
LEMMA FinishSinks ==
    ASSUME NEW w \in LooseWorld, NEW s \in Nat, bucket \in Nat
    PROVE  SameSink(w, Events!Finish(w, s))
<1>1. PICK p \in LooseProc, cs \in Seq(LooseCall) :
        w = [proc |-> p, calls |-> cs] /\ w.proc = p /\ w.calls = cs
  BY LooseParts
<1>2. PICK g \in [Events!Signals -> Events!Stages] : g = [p.stage EXCEPT ![s] = "done"]
  BY DEF LooseProc, Events!Stages
<1>3. PICK p1 : p1 = [p EXCEPT !.stage = g, !.inFlight = 0]
  OBVIOUS
<1>4. p1 \in LooseProc /\ p1.mode = p.mode /\ p1.degraded = p.degraded /\ p1.pending = p.pending
  BY <1>3 DEF LooseProc
<1>5. [w.proc EXCEPT !.stage[s] = "done", !.inFlight = 0] = p1
  BY <1>1, <1>2, <1>3
<1>6. PICK p2 : p2 = [p1 EXCEPT !.pending = 0, !.rested = TRUE]
  OBVIOUS
<1>7. p2 \in LooseProc /\ p2.mode = p.mode /\ p2.degraded = p.degraded
  BY <1>4, <1>6 DEF LooseProc
<1>8. PICK x : x = [proc |-> p2, calls |-> cs]
  OBVIOUS
<1>9. x \in LooseWorld /\ SameSink(w, x)
  BY <1>1, <1>7, <1>8 DEF SameSink, LooseWorld
<1>10. CASE p1.pending > s
  <2>1. [w EXCEPT !.proc = p2] = x
    BY <1>1, <1>8
  <2>2. Events!Finish(w, s) = Events!Trigger(x, p1.pending)
    BY <1>5, <1>6, <1>10, <2>1 DEF Events!Finish
  <2>3. SameSink(x, Events!Trigger(x, p1.pending))
    <3>1. p1.pending \in Nat
      BY <1>4 DEF LooseProc
    <3> QED
      BY <1>9, <3>1, TriggerSinks
  <2> QED
    BY <1>9, <2>2, <2>3 DEF SameSink
<1>11. CASE ~(p1.pending > s)
  <2>1. Events!Finish(w, s) = [w EXCEPT !.proc = p1]
    BY <1>5, <1>11 DEF Events!Finish
  <2>2. Events!Finish(w, s) = [proc |-> p1, calls |-> cs]
    BY <1>1, <2>1
  <2> QED
    BY <1>1, <1>4, <2>2 DEF SameSink, LooseWorld
<1> QED
  BY <1>10, <1>11

\* A world of the wider type whose silence is excused.
Honest(w) == w \in LooseWorld /\ Excused(w)

\* emitEvent() skips an event only of a sink that rests, or with a store that was given up.
LEMMA EmitHonest ==
    ASSUME NEW w, Honest(w), NEW kind \in {"app", "tick", "warning"}, NEW s \in Nat,
           NEW key \in KeyType
    PROVE  Honest(Events!Emit(w, kind, s, key))
<1>1. PICK p \in LooseProc, cs \in Seq(LooseCall) :
        w = [proc |-> p, calls |-> cs] /\ w.proc = p /\ w.calls = cs
  BY LooseParts DEF Honest
<1>2. PICK skips \in BOOLEAN : skips = (p.mode = "fallback" \/ p.degraded)
  OBVIOUS
<1>3. PICK at \in {"probe", "insert", "over"} :
        at = IF skips THEN "over" ELSE IF p.probe = "yes" THEN "insert" ELSE "probe"
  OBVIOUS
<1>4. PICK answer \in Events!Answers : answer = IF skips THEN "skipped" ELSE "none"
  BY DEF Events!Answers
<1>5. PICK call : call = [kind |-> kind, signal |-> s, key |-> key, pc |-> at,
                          answer |-> answer, landed |-> FALSE]
  OBVIOUS
<1>6. call \in LooseCall /\ call.answer = answer
  BY <1>5 DEF LooseCall
<1>7. PICK mode \in {"ready", "fallback"} : mode = IF skips THEN "fallback" ELSE p.mode
  BY DEF LooseProc
<1>8. PICK probe \in {"none", "running", "yes", "no"} :
        probe = IF ~skips /\ p.probe = "none" THEN "running" ELSE p.probe
  BY DEF LooseProc
<1>9. PICK q : q = [p EXCEPT !.mode = mode, !.probe = probe]
  OBVIOUS
<1>10. q \in LooseProc /\ q.mode = mode /\ q.degraded = p.degraded
  BY <1>9 DEF LooseProc
<1>11. PICK ds : ds = Append(cs, call)
  OBVIOUS
<1>12. PICK n \in Nat : n = Len(cs)
  BY LenProperties
<1>13. /\ ds \in Seq(LooseCall) /\ DOMAIN cs = 1 .. n /\ DOMAIN ds = 1 .. n + 1
       /\ ds[n + 1] = call /\ \A i \in 1 .. n : ds[i] = cs[i]
  <2>1. /\ ds \in Seq(LooseCall) /\ Len(ds) = n + 1 /\ ds[n + 1] = call
        /\ \A i \in 1 .. n : ds[i] = cs[i]
    BY <1>6, <1>11, <1>12, AppendProperties
  <2> QED
    BY <1>12, <2>1, LenProperties
<1>14. PICK v : v = [proc |-> q, calls |-> ds]
  OBVIOUS
<1>15. v \in LooseWorld /\ v.proc = q /\ v.calls = ds
  BY <1>10, <1>13, <1>14 DEF LooseWorld
<1>16. Events!Emit(w, kind, s, key) = v
  <2>1. [p EXCEPT !.mode = IF skips THEN "fallback" ELSE @,
                  !.probe = IF ~skips /\ @ = "none" THEN "running" ELSE @] = q
    BY <1>7, <1>8, <1>9 DEF LooseProc
  <2> QED
    BY <1>1, <1>2, <1>3, <1>4, <1>5, <1>11, <1>14, <2>1 DEF Events!Emit
<1>17. Excused(v)
  <2>1. CASE p.degraded
    BY <1>10, <1>15, <2>1 DEF Excused
  <2>2. CASE ~p.degraded
    <3>1. /\ p.mode = "fallback" => \E d \in 1 .. n : Failing(cs[d])
          /\ \A c \in 1 .. n : cs[c].answer = "skipped" => \E d \in 1 .. c - 1 : Failing(cs[d])
      BY <1>1, <1>13, <2>2 DEF Honest, Excused
    <3>2. skips => \E d \in 1 .. n : Failing(ds[d])
      BY <1>2, <1>13, <2>2, <3>1
    <3>3. q.mode = "fallback" => \E d \in 1 .. n + 1 : Failing(ds[d])
      <4>1. q.mode = "fallback" => \E d \in 1 .. n : Failing(ds[d])
        BY <1>2, <1>7, <1>10, <3>2
      <4> QED
        BY <4>1
    <3>4. ASSUME NEW c \in 1 .. n + 1, ds[c].answer = "skipped"
          PROVE  \E d \in 1 .. c - 1 : Failing(ds[d])
      <4>1. CASE c = n + 1
        <5>1. skips
          BY <1>4, <1>6, <1>13, <3>4, <4>1
        <5> QED
          BY <3>2, <4>1, <5>1
      <4>2. CASE c # n + 1
        <5>1. c \in 1 .. n /\ cs[c].answer = "skipped"
          BY <1>13, <3>4, <4>2
        <5>2. PICK d \in 1 .. c - 1 : Failing(cs[d])
          BY <3>1, <5>1
        <5> QED
          BY <1>13, <5>1, <5>2
      <4> QED
        BY <4>1, <4>2
    <3> QED
      BY <1>13, <1>15, <3>3, <3>4 DEF Excused
  <2> QED
    BY <2>1, <2>2
<1> QED
  BY <1>15, <1>16, <1>17 DEF Honest

\* An evaluation goes on with a warning, awaited or not, or ends.
LEMMA EvaluationHonest ==
    ASSUME NEW w, Honest(w), NEW s \in Nat, bucket \in Nat
    PROVE  /\ Honest(Events!Finish(w, s))
           /\ \A kind : Honest(Events!FinishUnless(w, s, kind))
           /\ \A answer : Honest(Events!AfterTick(w, s, answer))
<1>1. ASSUME NEW x, Honest(x) PROVE Honest(Events!Finish(x, s))
  BY <1>1, FinishSinks, SameSinkKeeps DEF Honest, SameSink
<1>2. ASSUME NEW x, Honest(x), NEW kind PROVE Honest(Events!FinishUnless(x, s, kind))
  BY <1>1, <1>2 DEF Events!FinishUnless
<1>3. ASSUME NEW answer PROVE Honest(Events!AfterTick(w, s, answer))
  <2>1. PICK p \in LooseProc, cs \in Seq(LooseCall) :
          w = [proc |-> p, calls |-> cs] /\ w.proc = p /\ w.calls = cs
    BY LooseParts DEF Honest
  <2>2. PICK g \in [Events!Signals -> Events!Stages] : g = [p.stage EXCEPT ![s] = "warn"]
    BY DEF LooseProc, Events!Stages
  <2>3. PICK q : q = [p EXCEPT !.stage = g]
    OBVIOUS
  <2>4. q \in LooseProc /\ q.mode = p.mode /\ q.degraded = p.degraded
    BY <2>3 DEF LooseProc
  <2>5. PICK x : x = [proc |-> q, calls |-> cs]
    OBVIOUS
  <2>6. [w EXCEPT !.proc.stage[s] = "warn"] = x
    <3>1. [p EXCEPT !.stage[s] = "warn"] = q
      BY <2>2, <2>3
    <3> QED
      BY <2>1, <2>5, <3>1
  <2>7. Honest(x)
    <3>1. SameSink(w, x)
      BY <2>1, <2>4, <2>5 DEF SameSink, LooseWorld
    <3> QED
      BY <3>1, SameSinkKeeps DEF Honest, SameSink
  <2>8. Events!Warning \in KeyType
    BY DEF Events!Warning, KeyType
  <2>9. PICK y : y = Events!Emit(x, "warning", s, Events!Warning)
    OBVIOUS
  <2>10. Honest(y)
    BY <2>7, <2>8, <2>9, EmitHonest
  <2>11. Honest(Events!FinishUnless(y, s, "warning"))
    BY <1>2, <2>10
  <2> QED
    BY <1>1, <2>6, <2>9, <2>11 DEF Events!AfterTick
<1> QED
  BY <1>1, <1>2, <1>3

\* An answer is given: the sink rests after a failure, and skips only with a store that was
\* given up.
LEMMA SettledHonest ==
    ASSUME NEW w, Honest(w), NEW c \in DOMAIN w.calls, w.calls[c].answer = "none",
           NEW answer \in Events!Answers \ {"none"},
           answer = "skipped" => w.proc.degraded, bucket \in Nat
    PROVE  Honest(Events!Settled(w, c, answer))
<1>1. PICK p \in LooseProc, cs \in Seq(LooseCall) :
        w = [proc |-> p, calls |-> cs] /\ w.proc = p /\ w.calls = cs
  BY LooseParts DEF Honest
<1>2. PICK call \in LooseCall : call = cs[c]
  BY <1>1
<1>3. PICK new : new = [call EXCEPT !.answer = answer]
  OBVIOUS
<1>4. new \in LooseCall /\ new.answer = answer
  BY <1>3 DEF LooseCall, Events!Answers
<1>5. PICK ds : ds = [cs EXCEPT ![c] = new]
  OBVIOUS
<1>6. PICK n \in Nat : n = Len(cs) /\ DOMAIN cs = 1 .. n
  BY LenProperties
<1>7. /\ ds \in Seq(LooseCall) /\ DOMAIN ds = 1 .. n /\ ds[c] = new
      /\ \A d \in 1 .. n : d # c => ds[d] = cs[d]
  BY <1>1, <1>4, <1>5, <1>6
<1>8. PICK mode \in {"ready", "fallback"} : mode = Events!ModeAfter(p.mode, answer)
  BY DEF Events!ModeAfter, LooseProc
<1>9. PICK q : q = [p EXCEPT !.mode = mode]
  OBVIOUS
<1>10. q \in LooseProc /\ q.mode = mode /\ q.degraded = p.degraded
  BY <1>9 DEF LooseProc
<1>11. PICK v : v = [proc |-> q, calls |-> ds]
  OBVIOUS
<1>12. v \in LooseWorld /\ v.proc = q /\ v.calls = ds
  BY <1>7, <1>10, <1>11 DEF LooseWorld
<1>13. [w EXCEPT !.proc.mode = Events!ModeAfter(@, answer), !.calls[c].answer = answer] = v
  <2>1. [w EXCEPT !.proc.mode = Events!ModeAfter(@, answer)] = [proc |-> q, calls |-> cs]
    BY <1>1, <1>8, <1>9
  <2>2. PICK x : x = [proc |-> q, calls |-> cs]
    OBVIOUS
  <2>3. [cs EXCEPT ![c].answer = answer] = ds
    <3>1. [cs[c] EXCEPT !.answer = answer] = new
      BY <1>2, <1>3
    <3> QED
      BY <1>5, <3>1
  <2>4. [x EXCEPT !.calls[c].answer = answer] = v
    <3>1. x.calls = cs /\ [x EXCEPT !.calls = ds] = v
      BY <1>11, <2>2
    <3>2. [x.calls EXCEPT ![c].answer = answer] = ds
      BY <2>3, <3>1
    <3> QED
      BY <3>1, <3>2
  <2> QED
    BY <2>1, <2>2, <2>4
<1>14. Excused(v)
  <2>1. CASE p.degraded
    BY <1>10, <1>12, <2>1 DEF Excused
  <2>2. CASE ~p.degraded
    <3>1. /\ p.mode = "fallback" => \E d \in 1 .. n : Failing(cs[d])
          /\ \A e \in 1 .. n : cs[e].answer = "skipped" => \E d \in 1 .. e - 1 : Failing(cs[d])
      BY <1>1, <1>6, <2>2 DEF Honest, Excused
    <3>2. answer \in {"stored", "deduped", "timeout", "error"}
      BY <1>1, <2>2 DEF Events!Answers
    <3>3. ~Failing(cs[c])
      BY <1>1 DEF Failing
    <3>4. \A d \in 1 .. n : Failing(cs[d]) => Failing(ds[d])
      BY <1>7, <3>3
    <3>5. mode = "fallback" => \E d \in 1 .. n : Failing(ds[d])
      <4>1. CASE answer \in {"timeout", "error"}
        BY <1>1, <1>4, <1>6, <1>7, <4>1 DEF Failing
      <4>2. CASE answer = "deduped"
        BY <1>8, <3>1, <3>4, <4>2 DEF Events!ModeAfter
      <4>3. CASE answer = "stored"
        BY <1>8, <4>3 DEF Events!ModeAfter
      <4> QED
        BY <3>2, <4>1, <4>2, <4>3
    <3>6. ASSUME NEW e \in 1 .. n, ds[e].answer = "skipped"
          PROVE  \E d \in 1 .. e - 1 : Failing(ds[d])
      <4>1. e # c
        BY <1>4, <1>7, <3>2, <3>6
      <4>2. PICK d \in 1 .. e - 1 : Failing(cs[d])
        BY <1>7, <3>1, <3>6, <4>1
      <4> QED
        BY <3>4, <4>2
    <3> QED
      BY <1>7, <1>10, <1>12, <3>5, <3>6 DEF Excused
  <2> QED
    BY <2>1, <2>2
<1>15. Honest(v)
  BY <1>12, <1>14 DEF Honest
<1>16. PICK k \in Nat : k = v.proc.signals + 1
  BY <1>10, <1>12 DEF LooseProc
<1>17. PICK x : x = [v EXCEPT !.proc.signals = k]
  OBVIOUS
<1>18. Honest(x)
  <2>1. PICK r : r = [q EXCEPT !.signals = k]
    OBVIOUS
  <2>2. r \in LooseProc /\ r.mode = q.mode /\ r.degraded = q.degraded
    BY <1>10, <2>1 DEF LooseProc
  <2>3. x = [proc |-> r, calls |-> ds]
    BY <1>11, <1>17, <2>1
  <2>4. SameSink(v, x)
    BY <1>7, <1>12, <2>2, <2>3 DEF SameSink, LooseWorld
  <2> QED
    BY <1>12, <1>14, <2>4, SameSinkKeeps DEF Honest, SameSink
<1>19. Honest(Events!Trigger(x, k))
  BY <1>18, TriggerSinks, SameSinkKeeps DEF Honest, SameSink
<1>20. PICK u : u = IF call.kind \in Events!Signalling /\ answer = "stored"
                      THEN Events!Trigger(x, k) ELSE v
  OBVIOUS
<1>21. Honest(u)
  BY <1>15, <1>19, <1>20
<1>22. /\ call.kind = "tick" =>
            Events!Settled(w, c, answer) = Events!AfterTick(u, call.signal, answer)
       /\ call.kind = "warning" =>
            Events!Settled(w, c, answer) = Events!Finish(u, call.signal)
       /\ call.kind = "app" => Events!Settled(w, c, answer) = u
  <2>1. w.calls[c] = call /\ [v EXCEPT !.proc.signals = v.proc.signals + 1] = x
    BY <1>1, <1>2, <1>16, <1>17
  <2>2. v.proc.signals + 1 = k
    BY <1>16
  <2>3. CASE call.kind = "tick"
    BY <1>13, <1>20, <2>1, <2>2, <2>3 DEF Events!Settled, Events!Signalling
  <2>4. CASE call.kind = "warning"
    BY <1>13, <1>20, <2>1, <2>2, <2>4 DEF Events!Settled, Events!Signalling
  <2>5. CASE call.kind = "app" /\ answer = "stored"
    <3>1. w.calls[c].kind = "app" /\ u = Events!Trigger(x, k)
      BY <1>20, <2>1, <2>5 DEF Events!Signalling
    <3>2. Events!Settled(w, c, answer) = Events!Trigger(x, k)
      BY <1>13, <1>17, <2>2, <2>5, <3>1 DEF Events!Settled, Events!Signalling
    <3> QED
      BY <2>5, <3>1, <3>2
  <2>6. CASE call.kind = "app" /\ answer # "stored"
    BY <1>13, <1>20, <2>1, <2>6 DEF Events!Settled, Events!Signalling
  <2> QED
    BY <2>3, <2>4, <2>5, <2>6
<1>23. call.signal \in Nat /\ call.kind \in {"app", "tick", "warning"}
  BY DEF LooseCall
<1>24. /\ Honest(Events!AfterTick(u, call.signal, answer))
       /\ Honest(Events!Finish(u, call.signal))
  BY <1>21, <1>23, EvaluationHonest
<1> QED
  BY <1>21, <1>22, <1>23, <1>24

\* A call that moves on without an answer.
LEMMA PutKeeps ==
    ASSUME NEW cs \in Seq(LooseCall), NEW c \in DOMAIN cs, NEW new \in LooseCall,
           new.answer = cs[c].answer
    PROVE  /\ [cs EXCEPT ![c] = new] \in Seq(LooseCall)
           /\ DOMAIN [cs EXCEPT ![c] = new] = DOMAIN cs
           /\ \A d \in DOMAIN cs : [cs EXCEPT ![c] = new][d].answer = cs[d].answer
<1>1. PICK n \in Nat : n = Len(cs) /\ DOMAIN cs = 1 .. n
  BY LenProperties
<1>2. PICK ds : ds = [cs EXCEPT ![c] = new]
  OBVIOUS
<1>3. ds \in Seq(LooseCall) /\ DOMAIN ds = 1 .. n
  BY <1>1, <1>2
<1>4. \A d \in 1 .. n : ds[d].answer = cs[d].answer
  BY <1>1, <1>2
<1> QED
  BY <1>1, <1>2, <1>3, <1>4

\* The insertion of a call is done; what comes after the time limit changes nothing.
LEMMA SettleHonest ==
    ASSUME NEW w, Honest(w), NEW c \in DOMAIN w.calls, NEW b \in BOOLEAN,
           NEW answer \in {"stored", "deduped", "skipped", "error"},
           answer = "skipped" => w.proc.degraded, bucket \in Nat
    PROVE  /\ Honest(Events!Settle(w, c, answer))
           /\ Honest(Events!Settle([w EXCEPT !.calls[c].landed = b], c, answer))
<1>1. PICK p \in LooseProc, cs \in Seq(LooseCall) :
        w = [proc |-> p, calls |-> cs] /\ w.proc = p /\ w.calls = cs
  BY LooseParts DEF Honest
<1>2. ASSUME NEW x, Honest(x), x.proc = p, c \in DOMAIN x.calls
      PROVE  Honest(Events!Settle(x, c, answer))
  <2>1. PICK ds \in Seq(LooseCall) : x = [proc |-> p, calls |-> ds] /\ x.calls = ds
    BY <1>2, LooseParts DEF Honest
  <2>2. PICK call \in LooseCall : call = ds[c]
    BY <1>2, <2>1
  <2>3. PICK new : new = [call EXCEPT !.pc = "over"]
    OBVIOUS
  <2>4. new \in LooseCall /\ new.answer = call.answer
    BY <2>3 DEF LooseCall
  <2>5. PICK es : es = [ds EXCEPT ![c] = new]
    OBVIOUS
  <2>6. /\ es \in Seq(LooseCall) /\ DOMAIN es = DOMAIN ds
        /\ \A d \in DOMAIN ds : es[d].answer = ds[d].answer
    BY <1>2, <2>1, <2>2, <2>4, <2>5, PutKeeps
  <2>7. PICK v : v = [proc |-> p, calls |-> es]
    OBVIOUS
  <2>8. [x EXCEPT !.calls[c].pc = "over"] = v
    <3>1. [ds EXCEPT ![c].pc = "over"] = es
      <4>1. [ds[c] EXCEPT !.pc = "over"] = new
        BY <2>2, <2>3
      <4> QED
        BY <2>5, <4>1
    <3> QED
      BY <2>1, <2>7, <3>1
  <2>9. v \in LooseWorld /\ v.proc = p /\ v.calls = es
    BY <2>6, <2>7 DEF LooseWorld
  <2>10. Excused(v)
    BY <1>2, <2>1, <2>6, <2>9, SilenceKept DEF Honest
  <2>11. Honest(v)
    BY <2>9, <2>10 DEF Honest
  <2>12. CASE ds[c].answer = "none"
    <3>1. c \in DOMAIN v.calls /\ v.calls[c].answer = "none"
      BY <1>2, <2>1, <2>6, <2>9, <2>12
    <3>2. answer \in Events!Answers \ {"none"} /\ (answer = "skipped" => v.proc.degraded)
      BY <1>1, <2>9 DEF Events!Answers
    <3>3. Honest(Events!Settled(v, c, answer))
      BY <2>11, <3>1, <3>2, SettledHonest
    <3> QED
      BY <2>1, <2>8, <2>12, <3>3 DEF Events!Settle
  <2>13. CASE ds[c].answer # "none"
    BY <2>1, <2>8, <2>11, <2>13 DEF Events!Settle
  <2> QED
    BY <2>12, <2>13
<1>3. PICK call \in LooseCall : call = cs[c]
  BY <1>1
<1>4. PICK new : new = [call EXCEPT !.landed = b]
  OBVIOUS
<1>5. new \in LooseCall /\ new.answer = call.answer
  BY <1>4 DEF LooseCall
<1>6. PICK ds : ds = [cs EXCEPT ![c] = new]
  OBVIOUS
<1>7. /\ ds \in Seq(LooseCall) /\ DOMAIN ds = DOMAIN cs
      /\ \A d \in DOMAIN cs : ds[d].answer = cs[d].answer
  BY <1>1, <1>3, <1>5, <1>6, PutKeeps
<1>8. PICK x : x = [proc |-> p, calls |-> ds]
  OBVIOUS
<1>9. [w EXCEPT !.calls[c].landed = b] = x
  <2>1. [cs EXCEPT ![c].landed = b] = ds
    <3>1. [cs[c] EXCEPT !.landed = b] = new
      BY <1>3, <1>4
    <3> QED
      BY <1>6, <3>1
  <2>2. [w EXCEPT !.calls = ds] = x
    BY <1>1, <1>8
  <2>3. [w.calls EXCEPT ![c].landed = b] = ds
    BY <1>1, <2>1
  <2> QED
    BY <2>2, <2>3
<1>10. x \in LooseWorld /\ x.proc = p /\ x.calls = ds
  BY <1>7, <1>8 DEF LooseWorld
<1>11. Excused(x)
  BY <1>1, <1>7, <1>10, SilenceKept DEF Honest
<1>12. Honest(x) /\ c \in DOMAIN x.calls
  BY <1>1, <1>7, <1>10, <1>11 DEF Honest
<1> QED
  BY <1>1, <1>2, <1>9, <1>10, <1>12

\* The store is given up.
LEMMA DegradeHonest ==
    ASSUME NEW w, Honest(w)
    PROVE  /\ Honest(Events!Degrade(w)) /\ Events!Degrade(w).proc.degraded
           /\ Events!Degrade(w).calls = w.calls
<1>1. PICK p \in LooseProc, cs \in Seq(LooseCall) :
        w = [proc |-> p, calls |-> cs] /\ w.proc = p /\ w.calls = cs
  BY LooseParts DEF Honest
<1>2. CASE p.degraded
  BY <1>1, <1>2 DEF Events!Degrade
<1>3. CASE ~p.degraded
  <2>1. PICK q : q = [p EXCEPT !.degraded = TRUE, !.mode = "fallback"]
    OBVIOUS
  <2>2. q \in LooseProc /\ q.degraded
    BY <2>1 DEF LooseProc
  <2>3. PICK v : v = [proc |-> q, calls |-> cs]
    OBVIOUS
  <2>4. Events!Degrade(w) = v
    <3>1. PICK r : r = [p EXCEPT !.degraded = TRUE]
      OBVIOUS
    <3>2. PICK x : x = [w EXCEPT !.proc.degraded = TRUE]
      OBVIOUS
    <3>3. x = [proc |-> r, calls |-> cs]
      BY <1>1, <3>1, <3>2
    <3>4. [r EXCEPT !.mode = "fallback"] = q
      BY <2>1, <3>1
    <3>5. [x EXCEPT !.proc.mode = "fallback"] = v
      BY <2>3, <3>3, <3>4
    <3> QED
      BY <1>1, <1>3, <3>2, <3>5 DEF Events!Degrade
  <2>5. v \in LooseWorld /\ v.proc = q /\ v.calls = cs
    BY <2>2, <2>3 DEF LooseWorld
  <2> QED
    BY <1>1, <2>2, <2>4, <2>5 DEF Honest, Excused
<1> QED
  BY <1>2, <1>3

\* The probe has an answer.
LEMMA GoHonest ==
    ASSUME NEW w, Honest(w), NEW answer \in {"yes", "no", "none"}
    PROVE  /\ Honest(Events!Go(w, answer))
           /\ DOMAIN Events!Go(w, answer).calls = DOMAIN w.calls
<1>1. PICK p \in LooseProc, cs \in Seq(LooseCall) :
        w = [proc |-> p, calls |-> cs] /\ w.proc = p /\ w.calls = cs
  BY LooseParts DEF Honest
<1>2. PICK g : g = [s \in Events!Signals |-> IF p.stage[s] = "probe" THEN "collect"
                                             ELSE p.stage[s]]
  OBVIOUS
<1>3. g \in [Events!Signals -> Events!Stages]
  BY <1>2 DEF LooseProc, Events!Stages
<1>4. PICK q : q = [p EXCEPT !.probe = answer, !.stage = g]
  OBVIOUS
<1>5. q \in LooseProc /\ q.mode = p.mode /\ q.degraded = p.degraded
  BY <1>3, <1>4 DEF LooseProc
<1>6. PICK ds : ds = [c \in DOMAIN cs |-> IF cs[c].pc = "probe"
                                            THEN [cs[c] EXCEPT !.pc = "insert"] ELSE cs[c]]
  OBVIOUS
<1>7. PICK n \in Nat : DOMAIN cs = 1 .. n
  BY LenProperties
<1>8. ASSUME NEW c \in 1 .. n
      PROVE  ds[c] \in LooseCall /\ ds[c].answer = cs[c].answer
  <2>1. PICK call \in LooseCall : call = cs[c]
    BY <1>7
  <2>2. [call EXCEPT !.pc = "insert"] \in LooseCall
        /\ [call EXCEPT !.pc = "insert"].answer = call.answer
    BY DEF LooseCall
  <2> QED
    BY <1>6, <1>7, <2>1, <2>2
<1>9. ds \in Seq(LooseCall) /\ DOMAIN ds = DOMAIN cs
  <2>1. ds \in [1 .. n -> LooseCall]
    BY <1>6, <1>7, <1>8
  <2> QED
    BY <1>7, <2>1
<1>10. PICK v : v = [proc |-> q, calls |-> ds]
  OBVIOUS
<1>11. v \in LooseWorld /\ v.proc = q /\ v.calls = ds
  BY <1>5, <1>9, <1>10 DEF LooseWorld
<1>12. Events!Go(w, answer) = v
  <2>1. [p EXCEPT !.probe = answer,
                  !.stage = [s \in Events!Signals |-> IF @[s] = "probe" THEN "collect"
                                                      ELSE @[s]]] = q
    BY <1>2, <1>4 DEF LooseProc
  <2> QED
    BY <1>1, <1>6, <1>10, <2>1 DEF Events!Go
<1>13. Excused(v)
  BY <1>1, <1>5, <1>7, <1>8, <1>9, <1>11, SilenceKept DEF Honest
<1> QED
  BY <1>1, <1>9, <1>11, <1>12, <1>13 DEF Honest

\* The silence of the server is excused.
SilenceInv == EventsInv /\ Excused(Events!World)

\* What a step needs: an honest world, and a world it becomes.
LEMMA SilentWorld ==
    ASSUME SilenceInv
    PROVE  /\ Honest(Events!World) /\ bucket \in Nat
           /\ Events!World.proc = proc /\ Events!World.calls = calls
           /\ \A v : Honest(v) /\ Events!Become(v) => Excused(Events!World)'
<1>1. /\ Events!World \in WorldType /\ bucket \in 0 .. MaxBucket /\ MaxBucket \in Nat
      /\ Events!World.proc = proc /\ Events!World.calls = calls
  BY EventNumbers DEF SilenceInv
<1>2. Honest(Events!World)
  BY <1>1, LooseParts DEF SilenceInv, Honest
<1>3. ASSUME NEW v, Honest(v), Events!Become(v) PROVE Excused(Events!World)'
  <2>1. v = [proc |-> v.proc, calls |-> v.calls]
    BY <1>3, LooseParts DEF Honest
  <2>2. Events!World' = v
    BY <1>3, <2>1 DEF Events!Become, Events!World
  <2>3. Excused(Events!World')
    BY <1>3, <2>2 DEF Honest
  <2> QED
    BY <2>3
<1> QED
  BY <1>1, <1>2, <1>3

\* Calls are answered, by their insertions or by the time limit.
LEMMA AnswersExcused ==
    ASSUME SilenceInv, NEW c \in DOMAIN calls,
           Events!Insert(c) \/ Events!InsertFails(c) \/ Events!TimeOut(c)
    PROVE  Excused(Events!World)'
<1>1. PICK w : w = Events!World
  OBVIOUS
<1>2. Honest(w) /\ bucket \in Nat /\ w.calls = calls /\ c \in DOMAIN w.calls
  BY <1>1, SilentWorld
<1>3. CASE Events!Insert(c)
  <2>1. \/ Events!Become(Events!Settle([w EXCEPT !.calls[c].landed = TRUE], c, "stored"))
        \/ Events!Become(Events!Settle(w, c, "deduped"))
        \/ Events!Become(Events!Settle(Events!Degrade(w), c, "skipped"))
    BY <1>1, <1>3 DEF Events!Insert
  <2>2. /\ Honest(Events!Settle([w EXCEPT !.calls[c].landed = TRUE], c, "stored"))
        /\ Honest(Events!Settle(w, c, "deduped"))
    BY <1>2, SettleHonest
  <2>3. Honest(Events!Settle(Events!Degrade(w), c, "skipped"))
    <3>1. PICK v : v = Events!Degrade(w)
      OBVIOUS
    <3>2. Honest(v) /\ v.proc.degraded /\ c \in DOMAIN v.calls
      BY <1>2, <3>1, DegradeHonest
    <3>3. Honest(Events!Settle(v, c, "skipped"))
      BY <1>2, <3>2, SettleHonest
    <3> QED
      BY <3>1, <3>3
  <2> QED
    BY <2>1, <2>2, <2>3, SilentWorld
<1>4. CASE Events!InsertFails(c)
  <2>1. PICK b \in BOOLEAN :
          Events!Become(Events!Settle([w EXCEPT !.calls[c].landed = b], c, "error"))
    <3>1. (table /\ ~Events!Duplicate(c)) \in BOOLEAN
      OBVIOUS
    <3> QED
      BY <1>1, <1>4, <3>1 DEF Events!InsertFails
  <2>2. Honest(Events!Settle([w EXCEPT !.calls[c].landed = b], c, "error"))
    BY <1>2, SettleHonest
  <2> QED
    BY <2>1, <2>2, SilentWorld
<1>5. CASE Events!TimeOut(c)
  <2>1. Events!Become(Events!Settled(w, c, "timeout")) /\ calls[c].answer = "none"
    BY <1>1, <1>5 DEF Events!TimeOut
  <2>2. "timeout" \in Events!Answers \ {"none"} /\ "timeout" # "skipped"
    BY DEF Events!Answers
  <2>3. Honest(Events!Settled(w, c, "timeout"))
    BY <1>2, <2>1, <2>2, SettledHonest
  <2> QED
    BY <2>1, <2>3, SilentWorld
<1> QED
  BY <1>3, <1>4, <1>5

\* The table was looked for, or asking for it failed.
LEMMA ProbesExcused ==
    ASSUME SilenceInv, Events!ProbeEnds \/ Events!ProbeFails
    PROVE  Excused(Events!World)'
<1>1. PICK w : w = Events!World
  OBVIOUS
<1>2. Honest(w) /\ w.calls = calls
  BY <1>1, SilentWorld
<1>3. CASE Events!ProbeFails
  <2>1. Events!Become(Events!Go(w, "none")) /\ Honest(Events!Go(w, "none"))
    BY <1>1, <1>2, <1>3, GoHonest DEF Events!ProbeFails
  <2> QED
    BY <2>1, SilentWorld
<1>4. CASE Events!ProbeEnds /\ table
  <2>1. Events!Become(Events!Go(w, "yes")) /\ Honest(Events!Go(w, "yes"))
    BY <1>1, <1>2, <1>4, GoHonest DEF Events!ProbeEnds
  <2> QED
    BY <2>1, SilentWorld
<1>5. CASE Events!ProbeEnds /\ ~table
  <2>1. PICK v : v = Events!Degrade(Events!Go(w, "no"))
    OBVIOUS
  <2>2. Honest(v) /\ v.proc.degraded
    BY <1>2, <2>1, GoHonest, DegradeHonest
  <2>3. v = [proc |-> v.proc, calls |-> v.calls]
    BY <2>2, LooseParts DEF Honest
  <2>4. PICK ds : Events!Become([v EXCEPT !.calls = ds])
    BY <1>1, <1>5, <2>1 DEF Events!ProbeEnds
  <2>5. proc' = v.proc
    BY <2>3, <2>4 DEF Events!Become
  <2> QED
    BY <2>2, <2>5 DEF Excused, Events!World
<1> QED
  BY <1>3, <1>4, <1>5

\* An evaluation has its window, or failed to read it.
LEMMA EvaluationsExcused ==
    ASSUME SilenceInv, NEW s \in Events!Signals, Events!Collected(s) \/ Events!CollectFails(s)
    PROVE  Excused(Events!World)'
<1>1. PICK w : w = Events!World
  OBVIOUS
<1>2. Honest(w) /\ bucket \in Nat /\ w.proc = proc /\ s \in Nat
  BY <1>1, SilentWorld, SignalsAreFinite
<1>3. CASE Events!CollectFails(s)
  <2>1. Events!Become(Events!Finish(w, s)) /\ Honest(Events!Finish(w, s))
    BY <1>1, <1>2, <1>3, EvaluationHonest DEF Events!CollectFails
  <2> QED
    BY <2>1, SilentWorld
<1>4. CASE Events!Collected(s)
  <2>1. PICK b \in BOOLEAN :
          Events!Become(Events!FinishUnless(
            Events!Emit([w EXCEPT !.proc.stage[s] = "tick", !.proc.breached[s] = b],
                        "tick", s, Events!Lease(proc.last, s)), s, "tick"))
    BY <1>1, <1>4 DEF Events!Collected
  <2>2. PICK p \in LooseProc, cs \in Seq(LooseCall) :
          w = [proc |-> p, calls |-> cs] /\ w.proc = p /\ w.calls = cs
    BY <1>2, LooseParts DEF Honest
  <2>3. PICK g \in [Events!Signals -> Events!Stages] : g = [p.stage EXCEPT ![s] = "tick"]
    BY DEF LooseProc, Events!Stages
  <2>4. PICK h \in [Events!Signals -> BOOLEAN] : h = [p.breached EXCEPT ![s] = b]
    BY DEF LooseProc
  <2>5. PICK mid : mid = [p EXCEPT !.stage = g]
    OBVIOUS
  <2>6. mid \in LooseProc /\ mid.mode = p.mode /\ mid.degraded = p.degraded
        /\ mid.breached = p.breached
    BY <2>5 DEF LooseProc
  <2>7. PICK q : q = [mid EXCEPT !.breached = h]
    OBVIOUS
  <2>8. q \in LooseProc /\ q.mode = p.mode /\ q.degraded = p.degraded
    BY <2>6, <2>7 DEF LooseProc
  <2>9. PICK x : x = [proc |-> q, calls |-> cs]
    OBVIOUS
  <2>10. [w EXCEPT !.proc.stage[s] = "tick", !.proc.breached[s] = b] = x
    <3>1. PICK y : y = [w EXCEPT !.proc.stage[s] = "tick"]
      OBVIOUS
    <3>2. y = [proc |-> mid, calls |-> cs]
      BY <2>2, <2>3, <2>5, <3>1
    <3>3. [mid EXCEPT !.breached[s] = b] = q
      BY <2>4, <2>6, <2>7
    <3>4. [y EXCEPT !.proc.breached[s] = b] = x
      BY <2>9, <3>2, <3>3
    <3> QED
      BY <3>1, <3>4
  <2>11. Honest(x)
    <3>1. SameSink(w, x)
      BY <2>2, <2>8, <2>9 DEF SameSink, LooseWorld
    <3> QED
      BY <1>2, <3>1, SameSinkKeeps DEF Honest, SameSink
  <2>12. PICK k \in KeyType : k = Events!Lease(proc.last, s)
    <3>1. p.last \in Nat /\ proc = p
      BY <1>2, <2>2 DEF LooseProc
    <3> QED
      BY <1>2, <3>1 DEF Events!Lease, KeyType
  <2>13. PICK y : y = Events!Emit(x, "tick", s, k)
    OBVIOUS
  <2>14. Honest(y)
    BY <1>2, <2>11, <2>13, EmitHonest
  <2>15. Honest(Events!FinishUnless(y, s, "tick"))
    BY <1>2, <2>14, EvaluationHonest
  <2>16. Events!Become(Events!FinishUnless(y, s, "tick"))
    BY <2>1, <2>10, <2>12, <2>13
  <2> QED
    BY <2>15, <2>16, SilentWorld
<1> QED
  BY <1>3, <1>4

\* Time passes, the cooldown of the sink is over, or the server is restarted.
LEMMA TimeExcused ==
    ASSUME SilenceInv,
           \/ Events!CoolDown \/ Events!NextBucket \/ Events!Rest \/ Events!Restart
           \/ UNCHANGED eventVars
    PROVE  Excused(Events!World)'
<1>1. PICK p \in Events!Proc, cs \in Seq(Events!Call) : p = proc /\ cs = calls
  BY EventNumbers DEF SilenceInv
<1>2. PICK w : w = [proc |-> p, calls |-> cs]
  OBVIOUS
<1>3. w.proc = p /\ w.calls = cs /\ Excused(w) /\ w \in LooseWorld
  <2>1. Events!World = w
    BY <1>1, <1>2 DEF Events!World
  <2> QED
    BY <1>2, <2>1, SilentWorld DEF Honest
<1>4. ASSUME NEW q, proc' = q, calls' = cs, q.mode \in {p.mode, "ready"},
             q.degraded = p.degraded
      PROVE  Excused(Events!World)'
  <2>1. PICK v : v = [proc |-> q, calls |-> cs]
    OBVIOUS
  <2>2. v.proc = q /\ v.calls = cs
    BY <2>1
  <2>3. Excused(v)
    BY <1>3, <1>4, <2>2, LooseParts, SilenceKept
  <2>4. Events!World' = v
    BY <1>4, <2>1 DEF Events!World
  <2>5. Excused(Events!World')
    BY <2>3, <2>4
  <2> QED
    BY <2>5
<1>5. CASE Events!CoolDown
  <2>1. PICK q : q = [p EXCEPT !.mode = "ready"]
    OBVIOUS
  <2>2. q.mode = "ready" /\ q.degraded = p.degraded
    BY <2>1 DEF Events!Proc
  <2>3. proc' = q /\ calls' = cs
    BY <1>1, <1>5, <2>1 DEF Events!CoolDown
  <2> QED
    BY <1>4, <2>2, <2>3
<1>6. CASE Events!NextBucket \/ UNCHANGED eventVars
  BY <1>1, <1>4, <1>6 DEF Events!NextBucket, eventVars
<1>7. CASE Events!Rest
  <2>1. PICK q : q = [p EXCEPT !.rested = TRUE]
    OBVIOUS
  <2>2. q.mode = p.mode /\ q.degraded = p.degraded
    BY <2>1 DEF Events!Proc
  <2>3. proc' = q /\ calls' = cs
    BY <1>1, <1>7, <2>1 DEF Events!Rest
  <2> QED
    BY <1>4, <2>2, <2>3
<1>8. CASE Events!Restart
  <2>1. proc' = Events!NewProc /\ calls' = <<>>
    BY <1>8 DEF Events!Restart
  <2> QED
    BY <2>1 DEF Excused, Events!World, Events!NewProc
<1> QED
  BY <1>5, <1>6, <1>7, <1>8

\* The sink is silent only after a failure, whichever part of the server runs.
LEMMA SilenceInvariant == MCSpec => []SilenceInv
<1>1. MCInit => SilenceInv
  <2>1. SUFFICES ASSUME MCInit PROVE SilenceInv
    OBVIOUS
  <2>2. EventsInv
    BY <2>1, EventsBegin DEF MCInit
  <2>3. proc = Events!NewProc /\ calls = <<>>
    BY <2>1 DEF MCInit, Events!Init
  <2>4. Excused(Events!World)
    BY <2>3 DEF Excused, Events!World, Events!NewProc
  <2> QED
    BY <2>2, <2>4 DEF SilenceInv
<1>2. SilenceInv /\ [MCNext]_<<part, vars, eventVars, importVars>> => SilenceInv'
  <2>1. SUFFICES ASSUME SilenceInv, [MCNext]_<<part, vars, eventVars, importVars>>
                 PROVE  SilenceInv'
    OBVIOUS
  <2>2. EventsInv'
    BY <2>1, EventsStep DEF SilenceInv
  <2>3. Events!Next \/ UNCHANGED eventVars
    BY <2>1 DEF MCNext
  <2>4. ASSUME Events!EmitApp PROVE Excused(Events!World)'
    <3>1. PICK v : v = Events!Emit(Events!World, "app", 0, Events!NoKey)
      OBVIOUS
    <3>2. Events!NoKey \in KeyType
      BY DEF Events!NoKey, KeyType
    <3>3. Honest(v)
      BY <2>1, <3>1, <3>2, SilentWorld, EmitHonest
    <3>4. Events!Become(v)
      BY <2>4, <3>1 DEF Events!EmitApp
    <3> QED
      BY <2>1, <3>3, <3>4, SilentWorld
  <2>5. ASSUME Events!ProbeEnds \/ Events!ProbeFails PROVE Excused(Events!World)'
    BY <2>1, <2>5, ProbesExcused
  <2>6. ASSUME NEW c \in DOMAIN calls,
               Events!Insert(c) \/ Events!InsertFails(c) \/ Events!TimeOut(c)
        PROVE  Excused(Events!World)'
    BY <2>1, <2>6, AnswersExcused
  <2>7. ASSUME NEW s \in Events!Signals, Events!Collected(s) \/ Events!CollectFails(s)
        PROVE  Excused(Events!World)'
    BY <2>1, <2>7, EvaluationsExcused
  <2>8. ASSUME \/ Events!CoolDown \/ Events!NextBucket \/ Events!Rest \/ Events!Restart
               \/ UNCHANGED eventVars
        PROVE  Excused(Events!World)'
    BY <2>1, <2>8, TimeExcused
  <2>9. Excused(Events!World)'
    BY <2>3, <2>4, <2>5, <2>6, <2>7, <2>8 DEF Events!Next
  <2> QED
    BY <2>2, <2>9 DEF SilenceInv
<1> QED
  BY <1>1, <1>2, PTL DEF MCSpec

\* What an emitter is told is what happened to its row, no key has a second row, a table
\* that is missing is not written to, unless a probe failed, and an event is skipped only
\* after one failed: every number of events, intervals, failures and restarts (emitEvent,
\* ResilientCreationTransitionTelemetryStore, activateTelemetrySinkFallback).
THEOREM EventsTold == MCSpec => []EventsAreTold
<1>1. SilenceInv => EventsAreTold
  <2>1. SUFFICES ASSUME SilenceInv PROVE EventsAreTold
    OBVIOUS
  <2>2. Events!World.proc = proc /\ Events!World.calls = calls
    BY <2>1, SilentWorld
  <2>3. Events!SilenceHasACause
    BY <2>1, <2>2 DEF SilenceInv, Excused, Failing, Events!SilenceHasACause, Events!Failed
  <2> QED
    BY <2>1, <2>3, EventsConsequence DEF SilenceInv, EventsAreTold
<1> QED
  BY <1>1, SilenceInvariant, PTL

\* Evaluations of the gate run one at a time, and one warns only under a lease of its own
\* (triggerCreationTransitionGateEvaluation).
THEOREM EvaluationsInTurn == MCSpec => []EvaluationsTakeTurns
<1>1. EventsInv => EvaluationsTakeTurns
  BY EventsConsequence
<1> QED
  BY <1>1, EventsInvariant, PTL

=============================================================================
