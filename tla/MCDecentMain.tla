---------------------------- MODULE MCDecentMain ----------------------------
(* Model checking of DecentMain.                                           *)
EXTENDS DecentMain

MCModules == ModuleShapes

\* Polybench without instrumentation, tests 01 to 03, and a module whose own
\* main is charged although the host calls it without a threshold.
MCPlainModules ==
  { [main |-> "match", injected |-> "absent", metered |-> FALSE,
     guarded |-> FALSE, globals |-> {}],
    [main |-> "absent", injected |-> "arity", metered |-> FALSE,
     guarded |-> FALSE, globals |-> {}],
    [main |-> "match", injected |-> "match", metered |-> TRUE,
     guarded |-> FALSE, globals |-> {CounterName, ThresholdName}] }

\* Any module that is charged, guarded or not, whatever it exports.
MCInstrumentedModules ==
  {m \in ModuleShapes : m.metered /\ m.main = "match"}
=============================================================================
