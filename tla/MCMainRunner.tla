---------------------------- MODULE MCMainRunner ----------------------------
(* Model checking of MainRunner.                                           *)
EXTENDS MainRunner

\* Any module at all.
MCAllModules == ModuleShapes

\* The modules of the repository: polybench with and without instrumentation,
\* tests 01 to 03, and test 04.
MCPlainModule ==
  [main |-> "match", injected |-> "absent", metered |-> FALSE,
   guarded |-> FALSE, globals |-> {}]
MCInstrumentedModule ==
  [main |-> "match", injected |-> "match", metered |-> TRUE,
   guarded |-> TRUE, globals |-> {CounterName, ThresholdName}]
MCTestModule ==
  [main |-> "absent", injected |-> "arity", metered |-> FALSE,
   guarded |-> FALSE, globals |-> {}]
MCTest04Module ==
  [main |-> "arity", injected |-> "arity", metered |-> TRUE,
   guarded |-> FALSE, globals |-> {}]

MCRepositoryModules ==
  {MCPlainModule, MCInstrumentedModule, MCTestModule, MCTest04Module}
=============================================================================
