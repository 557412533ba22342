------------------------ MODULE TransitionTelemetry ------------------------
(***************************************************************************)
(* Telemetry of the creation assistant: events are inserted into a table   *)
(* within a time limit, a sink that fails rests for a while, a store whose *)
(* table is missing is given up, and stored events trigger evaluations of  *)
(* a gate, one at a time, each holding a lease and ending in a warning.    *)
(*                                                                         *)
(* There are one gate, one day and one server, that may be restarted.      *)
(***************************************************************************)
EXTENDS Naturals, Sequences, FiniteSets

CONSTANTS
    MaxEvents,     \* bound: events of the application
    MaxBucket,     \* bound: evaluation intervals that pass
    MaxFailures,   \* bound: failing calls; time limits have none
    MaxRestarts    \* bound

VARIABLES
    table,      \* the table creation_telemetry_events exists: no migration runs beside
    rows,       \* rows[k]: how many rows of dedupe key k it has
    proc,       \* memory of the server
    calls,      \* sequence of the emitted events, finished ones included
    bucket,     \* evaluation intervals that have passed
    left,       \* events the application may still emit
    failures, restarts

vars == <<table, rows, proc, calls, bucket, left, failures, restarts>>
bounds == <<bucket, left, failures, restarts>>

Signals == 1 .. MaxEvents
Warning == <<"warning", 0, 0>>
Lease(b, s) == <<"tick", b, s>>
NoKey == <<"none", 0, 0>>
Keys == {Warning} \cup {Lease(b, s) : b \in 0 .. MaxBucket, s \in Signals}

Answers == {"none", "stored", "deduped", "skipped", "timeout", "error"}
\* signal: of the evaluation it belongs to, 0 for the application's;
\* landed: it has a row of its own.
Call == [kind : {"app", "tick", "warning"}, signal : 0 .. MaxEvents,
         key : Keys \cup {NoKey}, pc : {"probe", "insert", "over"},
         answer : Answers, landed : BOOLEAN]

Stages == {"none", "probe", "collect", "tick", "warn", "done"}
\* last: interval of the last evaluation; rested: an interval is over since then;
\* stage, breached: of the evaluation of each signal.
Proc == [mode : {"ready", "fallback"}, probe : {"none", "running", "yes", "no"},
         degraded : BOOLEAN, signals : 0 .. MaxEvents, pending : 0 .. MaxEvents,
         inFlight : 0 .. MaxEvents, last : 0 .. MaxBucket, rested : BOOLEAN,
         stage : [Signals -> Stages], breached : [Signals -> BOOLEAN]]
NewProc ==
    [mode |-> "ready", probe |-> "none", degraded |-> FALSE, signals |-> 0,
     pending |-> 0, inFlight |-> 0, last |-> 0, rested |-> TRUE,
     stage |-> [s \in Signals |-> "none"], breached |-> [s \in Signals |-> FALSE]]

\* The memory, the calls and the rows keep their types; no more is emitted than the
\* application's events and two events for the evaluation each may cause.
TypeOK ==
    /\ table \in BOOLEAN
    /\ rows \in [Keys -> Nat]
    /\ proc \in Proc
    /\ calls \in Seq(Call) /\ Len(calls) <= 3 * MaxEvents
    /\ bucket \in 0 .. MaxBucket /\ left \in 0 .. MaxEvents
    /\ failures \in 0 .. MaxFailures /\ restarts \in 0 .. MaxRestarts

Init ==
    /\ table \in BOOLEAN
    /\ rows = [k \in Keys |-> 0]
    /\ proc = NewProc /\ calls = <<>>
    /\ bucket = 0 /\ left = MaxEvents
    /\ failures = 0 /\ restarts = 0

-----------------------------------------------------------------------------
(* What happens between two awaits, as functions of the memory and the     *)
(* calls together.                                                         *)

World == [proc |-> proc, calls |-> calls]
Become(w) == proc' = w.proc /\ calls' = w.calls

\* collectTransitionWindowTelemetry() begins; a store that rests answers at once.
\* lastGateEvaluationAtMs and the lease bucket are of the same moment.
Start(w, s) ==
    LET p == w.proc
        blind == p.mode = "fallback" \/ p.degraded
    IN  [w EXCEPT !.proc =
          [p EXCEPT !.rested = FALSE, !.last = bucket, !.inFlight = s,
                    !.probe = IF ~blind /\ @ = "none" THEN "running" ELSE @,
                    !.stage[s] = IF blind \/ p.probe = "yes" THEN "collect" ELSE "probe"]]

\* Fault: an evaluation in flight is not looked at.
TriggerAnyway(w, s) == IF w.proc.rested \/ w.proc.inFlight # 0 THEN Start(w, s) ELSE w

\* triggerCreationTransitionGateEvaluation()
Trigger(w, s) ==
    LET p == w.proc
    IN  IF p.inFlight # 0
          THEN [w EXCEPT !.proc.pending = IF @ > s THEN @ ELSE s]
          ELSE IF p.rested THEN Start(w, s) ELSE w

\* Fault: the time of the last evaluation is not reset.
FinishResting(w, s) ==
    LET p == [w.proc EXCEPT !.stage[s] = "done", !.inFlight = 0]
    IN  IF p.pending > s
          THEN Trigger([w EXCEPT !.proc = [p EXCEPT !.pending = 0]], p.pending)
          ELSE [w EXCEPT !.proc = p]

\* The finally of the evaluation: the newest signal it missed is evaluated at once.
Finish(w, s) ==
    LET p == [w.proc EXCEPT !.stage[s] = "done", !.inFlight = 0]
    IN  IF p.pending > s
          THEN Trigger([w EXCEPT !.proc = [p EXCEPT !.pending = 0, !.rested = TRUE]],
                       p.pending)
          ELSE [w EXCEPT !.proc = p]

\* emitEvent() up to its first await: skipped by a resting sink, or by the noop store of
\* a degraded one, which makes the sink rest again.
Emit(w, kind, s, key) ==
    LET p == w.proc
        skips == p.mode = "fallback" \/ p.degraded
        call == [kind |-> kind, signal |-> s, key |-> key,
                 pc |-> IF skips THEN "over"
                        ELSE IF p.probe = "yes" THEN "insert" ELSE "probe",
                 answer |-> IF skips THEN "skipped" ELSE "none", landed |-> FALSE]
    IN  [proc |-> [p EXCEPT !.mode = IF skips THEN "fallback" ELSE @,
                            !.probe = IF ~skips /\ @ = "none" THEN "running" ELSE @],
         calls |-> Append(w.calls, call)]

Waits(w, s, kind) ==
    \E c \in DOMAIN w.calls : w.calls[c].signal = s /\ w.calls[c].kind = kind
                              /\ w.calls[c].answer = "none"

\* The evaluation ends unless the event it has just emitted is awaited.
FinishUnless(w, s, kind) == IF Waits(w, s, kind) THEN w ELSE Finish(w, s)

\* A lease that was not stored is another evaluation's.
AfterTick(w, s, answer) ==
    IF answer = "stored" /\ w.proc.breached[s]
      THEN FinishUnless(Emit([w EXCEPT !.proc.stage[s] = "warn"], "warning", s, Warning),
                        s, "warning")
      ELSE Finish(w, s)

\* What the answer does to the sink.
ModeAfter(mode, answer) ==
    CASE answer = "stored" -> "ready"
      [] answer = "deduped" -> mode
      [] OTHER -> "fallback"

\* GATE_EVALUATION_TRIGGER_EVENTS
Signalling == {"app"}

\* The rest of emitEvent(), and what its caller does next.
Settled(w, c, answer) ==
    LET call == w.calls[c]
        v == [w EXCEPT !.proc.mode = ModeAfter(@, answer), !.calls[c].answer = answer]
        signal == v.proc.signals + 1
        u == IF call.kind \in Signalling /\ answer = "stored"
               THEN Trigger([v EXCEPT !.proc.signals = signal], signal) ELSE v
    IN  CASE call.kind = "tick" -> AfterTick(u, call.signal, answer)
          [] call.kind = "warning" -> Finish(u, call.signal)
          [] OTHER -> u

\* runWithTimeout(): a result that comes after the time limit is dropped.
Settle(w, c, answer) ==
    LET v == [w EXCEPT !.calls[c].pc = "over"]
    IN  IF w.calls[c].answer = "none" THEN Settled(v, c, answer) ELSE v

\* degradeToFallback(), once, with its onDegraded callback.
Degrade(w) ==
    IF w.proc.degraded THEN w
    ELSE [w EXCEPT !.proc.degraded = TRUE, !.proc.mode = "fallback"]

-----------------------------------------------------------------------------

EmitApp ==
    /\ left > 0 /\ left' = left - 1
    /\ Become(Emit(World, "app", 0, NoKey))
    /\ UNCHANGED <<table, rows, bucket, failures, restarts>>

Probing == {c \in DOMAIN calls : calls[c].pc = "probe"}

\* Everything that waits for the probe goes on, to the primary store.
Go(w, answer) ==
    [proc |-> [w.proc EXCEPT !.probe = answer,
                 !.stage = [s \in Signals |-> IF @[s] = "probe" THEN "collect" ELSE @[s]]],
     calls |-> [c \in DOMAIN w.calls |->
                  IF w.calls[c].pc = "probe" THEN [w.calls[c] EXCEPT !.pc = "insert"]
                  ELSE w.calls[c]]]

\* The table was looked for in the catalog.
ProbeEnds ==
    /\ proc.probe = "running"
    /\ IF table
         THEN Become(Go(World, "yes"))
         ELSE LET w == Degrade(Go(World, "no"))
              IN  Become([w EXCEPT !.calls = [c \in DOMAIN calls |->
                    IF c \notin Probing THEN calls[c]
                    ELSE [calls[c] EXCEPT !.pc = "over",
                            !.answer = IF @ = "none" THEN "skipped" ELSE @]]])
    /\ UNCHANGED <<table, rows, bounds>>

\* A probe that fails is forgotten, and the primary store is tried.
ProbeFails ==
    /\ proc.probe = "running"
    /\ failures < MaxFailures /\ failures' = failures + 1
    /\ Become(Go(World, "none"))
    /\ UNCHANGED <<table, rows, bucket, left, restarts>>

\* unique(eventName, eventVersion, dedupeKey)
Duplicate(c) == calls[c].key # NoKey /\ rows[calls[c].key] > 0

Landed(c) ==
    rows' = IF calls[c].key = NoKey THEN rows ELSE [rows EXCEPT ![calls[c].key] = @ + 1]

\* Fault: a duplicate passes for stored.
InsertAny(c) ==
    /\ c \in DOMAIN calls /\ calls[c].pc = "insert"
    /\ IF table /\ ~Duplicate(c)
         THEN /\ Landed(c)
              /\ Become(Settle([World EXCEPT !.calls[c].landed = TRUE], c, "stored"))
         ELSE /\ rows' = rows
              /\ Become(IF table THEN Settle(World, c, "stored")
                        ELSE Settle(Degrade(World), c, "skipped"))
    /\ UNCHANGED <<table, bounds>>

\* The primary store's insertion: a row, a duplicate, or a missing table.
Insert(c) ==
    /\ c \in DOMAIN calls /\ calls[c].pc = "insert"
    /\ \/ /\ table /\ ~Duplicate(c)
          /\ Landed(c)
          /\ Become(Settle([World EXCEPT !.calls[c].landed = TRUE], c, "stored"))
       \/ /\ table /\ Duplicate(c)
          /\ rows' = rows
          /\ Become(Settle(World, c, "deduped"))
       \/ /\ ~table
          /\ rows' = rows
          /\ Become(Settle(Degrade(World), c, "skipped"))
    /\ UNCHANGED <<table, bounds>>

\* The database fails, with or without the row.
InsertFails(c) ==
    /\ c \in DOMAIN calls /\ calls[c].pc = "insert"
    /\ failures < MaxFailures /\ failures' = failures + 1
    /\ \E landed \in {FALSE, table /\ ~Duplicate(c)} :
         /\ IF landed THEN Landed(c) ELSE rows' = rows
         /\ Become(Settle([World EXCEPT !.calls[c].landed = landed], c, "error"))
    /\ UNCHANGED <<table, bucket, left, restarts>>

\* The time limit of emitEvent() is over; the insertion goes on.
TimeOut(c) ==
    /\ c \in DOMAIN calls /\ calls[c].answer = "none"
    /\ Become(Settled(World, c, "timeout"))
    /\ UNCHANGED <<table, rows, bounds>>

\* The window was read, with the gate breached or not: the evaluation asks for its lease.
\* A noop store counts nothing.
Collected(s) ==
    /\ proc.inFlight = s /\ proc.stage[s] = "collect"
    /\ \E breached \in IF proc.mode = "fallback" \/ proc.degraded THEN {FALSE} ELSE BOOLEAN :
         Become(FinishUnless(
             Emit([World EXCEPT !.proc.stage[s] = "tick", !.proc.breached[s] = breached],
                  "tick", s, Lease(proc.last, s)), s, "tick"))
    /\ UNCHANGED <<table, rows, bounds>>

CollectFails(s) ==
    /\ proc.inFlight = s /\ proc.stage[s] = "collect"
    /\ failures < MaxFailures /\ failures' = failures + 1
    /\ Become(Finish(World, s))
    /\ UNCHANGED <<table, rows, bucket, left, restarts>>

\* The cooldown of the sink is over.
CoolDown ==
    /\ proc.mode = "fallback"
    /\ proc' = [proc EXCEPT !.mode = "ready"]
    /\ UNCHANGED <<table, rows, calls, bounds>>

NextBucket ==
    /\ bucket < MaxBucket /\ bucket' = bucket + 1
    /\ UNCHANGED <<table, rows, proc, calls, left, failures, restarts>>

\* An interval is over since the last evaluation.
Rest ==
    /\ ~proc.rested /\ bucket > proc.last
    /\ proc' = [proc EXCEPT !.rested = TRUE]
    /\ UNCHANGED <<table, rows, calls, bounds>>

\* The memory is lost; the insertions under way may still be done.
Restart ==
    /\ restarts < MaxRestarts /\ restarts' = restarts + 1
    /\ proc' = NewProc /\ calls' = <<>>
    /\ \E done \in SUBSET {calls[c].key : c \in {c \in DOMAIN calls :
                                calls[c].pc = "insert" /\ ~Duplicate(c)}} :
         rows' = [k \in Keys |-> IF k \in done /\ table THEN rows[k] + 1 ELSE rows[k]]
    /\ UNCHANGED <<table, bucket, left, failures>>

Next ==
    \/ EmitApp \/ ProbeEnds \/ ProbeFails
    \/ \E c \in DOMAIN calls : Insert(c) \/ InsertFails(c) \/ TimeOut(c)
    \/ \E s \in Signals : Collected(s) \/ CollectFails(s)
    \/ CoolDown \/ NextBucket \/ Rest \/ Restart

\* Timers fire, and the database answers what has no time limit; it may keep an insertion
\* for ever.
Fairness ==
    /\ \A c \in 1 .. 3 * MaxEvents : WF_vars(TimeOut(c))
    /\ WF_vars(ProbeEnds) /\ \A s \in Signals : WF_vars(Collected(s))

Spec == Init /\ [][Next]_vars /\ Fairness

-----------------------------------------------------------------------------

\* An event answered stored has its row, one answered deduped or skipped has none; only a
\* time limit or an error leaves it open (runWithTimeout and the two stores).
AnswersAreTruthful ==
    \A c \in DOMAIN calls :
      /\ calls[c].answer = "stored" => calls[c].landed
      /\ calls[c].answer \in {"deduped", "skipped"} => ~calls[c].landed

\* No gate is warned of twice in a day and no lease is held twice, restarts and late
\* insertions included.
NoSecondRow == \A k \in Keys : rows[k] <= 1

\* At most one evaluation runs, and it is the one inFlight names.
OneEvaluationAtATime ==
    \A s \in Signals : proc.stage[s] \in {"probe", "collect", "tick", "warn"} =>
                        proc.inFlight = s

\* A missing table is not written to, unless a probe failed.
MissingTableIsSpared ==
    ~table /\ failures = 0 => \A c \in DOMAIN calls : calls[c].pc # "insert"

Failed(c) == calls[c].answer \in {"timeout", "error"}

\* The sink rests, and skips an event, only because an earlier one failed, or the store was
\* given up: answers that come late, and duplicates, do not put it back to rest.
SilenceHasACause ==
    \/ proc.degraded
    \/ /\ proc.mode = "fallback" => \E d \in DOMAIN calls : Failed(d)
       /\ \A c \in DOMAIN calls :
            calls[c].answer = "skipped" => \E d \in 1 .. c - 1 : Failed(d)

\* A gate warns only under a lease its own evaluation stored.
WarningsHoldTheLease ==
    \A c \in DOMAIN calls : calls[c].kind = "warning" =>
      \E t \in DOMAIN calls : /\ calls[t].kind = "tick" /\ calls[t].landed
                              /\ calls[t].signal = calls[c].signal

\* A signal that comes during an evaluation is evaluated, it or a newer one, although the
\* interval is not over, unless the server stops.
SignalsInFlightAreEvaluated ==
    \A s \in Signals, r \in 0 .. MaxRestarts :
      (proc.pending = s /\ restarts = r) ~>
        (restarts > r \/ \E t \in s .. MaxEvents : proc.stage[t] # "none")

\* Every emitter is answered although the database may never be.
EveryEmitterIsAnswered ==
    \A c \in 1 .. 3 * MaxEvents :
      (c \in DOMAIN calls) ~> (c \in DOMAIN calls => calls[c].answer # "none")
=============================================================================
