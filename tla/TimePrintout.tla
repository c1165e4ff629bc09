---------------------------- MODULE TimePrintout ----------------------------
(***************************************************************************)
(* ParseAllEnvTimePrintout of test/polybench/run-benchmark.py: the state   *)
(* of the parser, and what each kind of line of a benchmark's output does  *)
(* to it.  Lines that match none of the expressions are skipped and do not *)
(* appear.  A parser that raises stops; its status says so.                *)
(***************************************************************************)
EXTENDS Sequences

Envs   == {"Untrusted", "Enclave", "Native"}
PTypes == {"plain", "instrumented"}

\* The types of run there is a list for: the native program is not instrumented.
PTypesOf(env) == IF env = "Native" THEN {"plain"} ELSE PTypes

\* The lines the parser looks for, as the program prints them: "start" and
\* "end" name the type of the run, "time" and "counter" carry a measurement.
StartLine(env, ptype) == [tag |-> "start", env |-> env, ptype |-> ptype]
TimeLine(env, value)  == [tag |-> "time", env |-> env, value |-> value]
CounterLine(env, value) == [tag |-> "counter", env |-> env, value |-> value]
EndLine(env, ptype)   == [tag |-> "end", env |-> env, ptype |-> ptype]

\* The state before the first line.  The three numbers of a time line count
\* as one entry of measurements.
Clean ==
  [ res          |-> [e \in Envs |-> [p \in PTypesOf(e) |-> <<>>]],
    currEnv      |-> "",
    currPType    |-> "",
    measurements |-> <<>>,
    raised       |-> FALSE ]

Raised(state) == [state EXCEPT !.raised = TRUE]

\* A variant of TryParseStartLine that does not look for an unfinished run.
StartLineUnchecked(state, line) ==
  [state EXCEPT !.currEnv = line.env, !.currPType = line.ptype,
                !.measurements = <<>>]

TryParseStartLine(state, line) ==
  IF state.currEnv = "" /\ state.currPType = "" /\ state.measurements = <<>>
  THEN [state EXCEPT !.currEnv = line.env, !.currPType = line.ptype]
  ELSE Raised(state)

TryParseTimeLine(state, line) ==
  IF state.measurements = <<>> /\ state.currEnv = line.env
  THEN [state EXCEPT !.measurements = <<line.value>>]
  ELSE Raised(state)

TryParseCounterLine(state, line) ==
  IF /\ Len(state.measurements) = 1
     /\ state.currPType = "instrumented"
     /\ state.currEnv = line.env
  THEN [state EXCEPT !.measurements = Append(@, line.value)]
  ELSE Raised(state)

\* A variant of TryParseEndLine that keeps the measurements of the run.
EndLineKeeps(state, line) ==
  IF /\ state.currEnv = line.env
     /\ state.currPType = line.ptype
     /\ line.ptype \in PTypesOf(line.env)
     /\ state.measurements # <<>>
     /\ line.ptype = "instrumented" => Len(state.measurements) = 2
  THEN [state EXCEPT
          !.res[line.env][line.ptype] = Append(@, state.measurements),
          !.currEnv = "", !.currPType = ""]
  ELSE Raised(state)

\* A run for which there is no list raises at the lookup.
TryParseEndLine(state, line) ==
  IF /\ state.currEnv = line.env
     /\ state.currPType = line.ptype
     /\ line.ptype \in PTypesOf(line.env)
     /\ state.measurements # <<>>
     /\ line.ptype = "instrumented" => Len(state.measurements) = 2
  THEN [state EXCEPT
          !.res[line.env][line.ptype] = Append(@, state.measurements),
          !.currEnv = "", !.currPType = "", !.measurements = <<>>]
  ELSE Raised(state)

\* One line of the output.
Parse(state, line) ==
  IF state.raised THEN state
  ELSE CASE line.tag = "start"   -> TryParseStartLine(state, line)
         [] line.tag = "time"    -> TryParseTimeLine(state, line)
         [] line.tag = "counter" -> TryParseCounterLine(state, line)
         [] line.tag = "end"     -> TryParseEndLine(state, line)
=============================================================================
