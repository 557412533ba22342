------------------------------ MODULE MCServer ------------------------------
(***************************************************************************)
(* Parts of the server that share nothing: the working snapshot of a       *)
(* project, the events of the creation assistant, and the traces of the    *)
(* imports.  A behaviour is one of any part, the others stand still.       *)
(***************************************************************************)
EXTENDS WorkingSnapshot, Sequences, TLC

CONSTANTS
    Parts,
    MaxEvents, MaxBucket, MaxFailures, MaxRestarts,
    Schemas, NSteps, MaxTombstones, MaxImports, MaxFaults

ASSUME BoundAssumption == {MaxEvents, MaxBucket, MaxFailures, MaxRestarts} \subseteq Nat

VARIABLES
    part,
    table, rows, proc, calls, bucket, left, failures, restarts,
    config, runtime, provider, active, tombstones, spans, import, imports, faults

Events == INSTANCE TransitionTelemetry
Imports == INSTANCE ImportTracing

ASSUME ImportsAssumption == Imports!ConstantsAssumption

eventVars == <<table, rows, proc, calls, bucket, left, failures, restarts>>
importVars == <<config, runtime, provider, active, tombstones, spans, import, imports, faults>>

MCInit ==
    /\ part \in Parts
    /\ Init /\ (part # "snapshot" => row = Absent)
    /\ Events!Init /\ (part # "events" => table)
    /\ Imports!Init /\ (part # "imports" => config = "disabled")

MCNext ==
    \/ part = "snapshot" /\ Next /\ UNCHANGED <<part, eventVars, importVars>>
    \/ part = "events" /\ Events!Next /\ UNCHANGED <<part, vars, importVars>>
    \/ part = "imports" /\ Imports!Next /\ UNCHANGED <<part, vars, eventVars>>

\* What is fair of the events is disabled while they stand still.
MCSpec == MCInit /\ [][MCNext]_<<part, vars, eventVars, importVars>> /\ Events!Fairness

\* What an emitter is told is what happened to its row, no row is there twice, a missing
\* table is left alone, and events are skipped only after one failed (runWithTimeout,
\* ResilientCreationTransitionTelemetryStore, activateTelemetrySinkFallback).
EventsAreTold ==
    /\ Events!TypeOK
    /\ Events!AnswersAreTruthful
    /\ Events!NoSecondRow
    /\ Events!MissingTableIsSpared
    /\ Events!SilenceHasACause

\* Evaluations run one at a time, and warn under their own lease
\* (triggerCreationTransitionGateEvaluation).
EvaluationsTakeTurns == Events!OneEvaluationAtATime /\ Events!WarningsHoldTheLease

\* Signals during an evaluation are evaluated and emitters are answered
\* (triggerCreationTransitionGateEvaluation, runWithTimeout).
NobodyIsForgotten == Events!SignalsInFlightAreEvaluated /\ Events!EveryEmitterIsAnswered

\* A fresh import has one whole trace, its run leaves a tombstone only, and is traced
\* again only when that was evicted (recordEvent, recordStep, recordSummary,
\* finalizeAndCleanupRun).
TracesAreWhole ==
    /\ Imports!TypeOK
    /\ Imports!FreshImportsAreTraced
    /\ Imports!NoRunIsLeft
    /\ Imports!SecondSpanNeedsEviction
    /\ Imports!SdkStartsOnce
=============================================================================
