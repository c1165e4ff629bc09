----------------------------- MODULE DecentMain -----------------------------
(***************************************************************************)
(* The benchmark program: main (src/Main.cpp) runs DecentWasmMain          *)
(* (src/DecentMain.hpp) outside and then inside the enclave, DecentWasmMain *)
(* drives two MainRunners through Repeat iterations each, and              *)
(* test/polybench/run-benchmark.py judges the program by its exit code and *)
(* its output.                                                             *)
(*                                                                         *)
(* The script parses the output when the program has ended.  Its parser    *)
(* reads line after line, so the variable parser is its state after the    *)
(* lines printed so far.                                                   *)
(***************************************************************************)
EXTENDS MainRunner, TimePrintout

CONSTANTS
  PlainModules,        \* the modules passed as wasm_file
  InstrumentedModules, \* the modules passed as wasm_nopt_file
  Repeat               \* sk_repeatTime, 5 in the code

ASSUME RepeatAssumption == Repeat \in Nat \ {0}
ASSUME FilesAssumption  ==
  PlainModules \cup InstrumentedModules \subseteq Modules

VARIABLES
  files,     \* the two bytecode files main has read
  benchmark, \* their guests time their main, and once, as test/polybench does;
             \* the host does not ask for it.  Fixed.
  env,       \* where DecentWasmMain runs
  ptype,     \* which of the two runners it uses
  at,        \* the statement the thread is at, see Places
  iteration, \* how many iterations of the loop are complete
  timed,     \* the guest of this iteration has stopped its clock
  lost,      \* history: a line printed in the enclave was lost
  result,    \* what DecentWasmMain returned in each environment, "none" yet
  exitCode,  \* "none", "success" or "failure"
  parser     \* the parser of the script

mainVars ==
  <<files, benchmark, env, ptype, at, iteration, timed, lost, result, exitCode,
    parser>>

allVars == <<vars, mainVars>>
fixed   == <<files, benchmark>>
output  == <<parser, lost>>

\* "construct" a runner, head of the "loop", in a "call", before the "reset",
\* the process has ended ("exit"), the script has "parsed" or given up
\* ("failed").
Places ==
  {"construct", "loop", "call", "reset", "exit", "parsed", "failed"}

MainTypeOK ==
  /\ TypeOK
  /\ benchmark \in BOOLEAN
  /\ env       \in {"Untrusted", "Enclave"}
  /\ ptype     \in PTypes
  /\ at        \in Places
  /\ iteration \in 0 .. Repeat
  /\ timed     \in BOOLEAN
  /\ lost      \in BOOLEAN
  /\ result    \in [{"Untrusted", "Enclave"} -> {"none", "true", "false"}]
  /\ exitCode  \in {"none", "success", "failure"}
  /\ parser.currEnv \in Envs \cup {""}

\* main has its arguments, has read both files and starts outside the enclave.
MainInit ==
  /\ files \in [plain : PlainModules, instrumented : InstrumentedModules]
  /\ benchmark \in BOOLEAN
  /\ Constructed(files.plain)
  /\ env = "Untrusted"
  /\ ptype = "plain"
  /\ at = "construct"
  /\ iteration = 0
  /\ timed = FALSE
  /\ lost = FALSE
  /\ result = [e \in {"Untrusted", "Enclave"} |-> "none"]
  /\ exitCode = "none"
  /\ parser = Clean

\* One string to the output.  In the enclave an OCALL takes it there, and
\* nobody looks at the status: a line that does not get out is lost.
PrintStr(line) ==
  \/ /\ parser' = Parse(parser, line)
     /\ UNCHANGED lost
  \/ /\ env = "Enclave"
     /\ lost' = TRUE
     /\ UNCHANGED parser

-----------------------------------------------------------------------------
(* What becomes of the result of DecentWasmMain.                           *)

\* A variant of Conclude for a main that ignores both results.
ConcludeIgnoring(success) ==
  /\ result' = [result EXCEPT ![env] = IF success THEN "true" ELSE "false"]
  /\ IF env = "Untrusted"
     THEN /\ env' = "Enclave"
          /\ ptype' = "plain"
          /\ at' = "construct"
          /\ UNCHANGED exitCode
     ELSE /\ exitCode' = "success"
          /\ at' = "exit"
          /\ UNCHANGED <<env, ptype>>

\* DecentWasmMain returns outside the enclave: main goes on to the enclave or
\* returns -1.  It returns inside: ecall_decent_wasm_main drops the result,
\* an enclave that crashed is only reported on stderr, and main returns 0.
Conclude(success) ==
  /\ result' = [result EXCEPT ![env] = IF success THEN "true" ELSE "false"]
  /\ \/ /\ env = "Untrusted" /\ success
        /\ env' = "Enclave"
        /\ ptype' = "plain"
        /\ at' = "construct"
        /\ UNCHANGED exitCode
     \/ /\ env = "Untrusted" /\ ~success
        /\ exitCode' = "failure"
        /\ at' = "exit"
        /\ UNCHANGED <<env, ptype>>
     \/ /\ env = "Enclave"
        /\ exitCode' = "success"
        /\ at' = "exit"
        /\ UNCHANGED <<env, ptype>>

\* enclave_init throws, and nothing in main catches it.
EnclaveInitThrows ==
  /\ at = "construct"
  /\ env = "Enclave"
  /\ ptype = "plain"
  /\ exitCode' = "failure"
  /\ at' = "exit"
  /\ UNCHANGED <<vars, fixed, env, ptype, iteration, timed, result, output>>

-----------------------------------------------------------------------------
(* DecentWasmMain.                                                         *)

\* The runner of this block, and before the first the runtime, is constructed.
ConstructRunner ==
  /\ at = "construct"
  /\ at' = "loop"
  /\ iteration' = 0
  /\ ConstructAnother(files[ptype])
  /\ UNCHANGED <<fixed, env, ptype, timed, result, exitCode, output>>

\* A part of the construction throws, and the catch clause returns false.
ConstructionThrows ==
  /\ at = "construct"
  /\ Conclude(FALSE)
  /\ UNCHANGED <<vars, fixed, iteration, timed, output>>

\* A variant of MoreIterations that runs once too often.
OneMoreIteration == iteration <= Repeat

MoreIterations == iteration < Repeat

\* The head of the loop: announce the run and make the call.
BeginIteration ==
  /\ at = "loop"
  /\ MoreIterations
  /\ IF ptype = "plain"
     THEN RunPlain
     ELSE \E t \in Thresholds : RunInstrumented(t)
  /\ PrintStr(StartLine(env, ptype))
  /\ at' = "call"
  /\ timed' = FALSE
  /\ UNCHANGED <<fixed, env, ptype, iteration, result, exitCode>>

\* The guest runs.  That one which comes to its end has stopped its clock is
\* what test/polybench does and tests 01 to 03 do not.
GuestRuns ==
  /\ at = "call"
  /\ GuestStep
  /\ benchmark /\ MainReturns => timed
  /\ UNCHANGED mainVars

\* decent_wasm_stop_benchmark prints the time whenever the guest calls it, in a
\* benchmark once.
StopBenchmark ==
  /\ at = "call"
  /\ frame = "body"
  /\ benchmark => ~timed
  /\ timed' = TRUE
  /\ PrintStr(TimeLine(env, iteration + 1))
  /\ UNCHANGED <<vars, fixed, env, ptype, at, iteration, result, exitCode>>

\* RunPlain returns its value, which nobody looks at.
PlainIterationEnds ==
  /\ at = "call"
  /\ RunPlainReturns
  /\ outcome' = "ok"
  /\ PrintStr(EndLine(env, ptype))
  /\ iteration' = iteration + 1
  /\ at' = "loop"
  /\ UNCHANGED <<fixed, env, ptype, timed, result, exitCode>>

\* RunInstrumented prints the counter and returns.
InstrumentedCallReturns ==
  /\ at = "call"
  /\ RunInstrumentedReturns
  /\ outcome' = "ok"
  /\ PrintStr(CounterLine(env, m_counter'))
  /\ at' = "reset"
  /\ UNCHANGED <<fixed, env, ptype, iteration, timed, result, exitCode>>

\* The call throws, or takes the process (or its enclave) with it.
CallThrows ==
  /\ at = "call"
  /\ RunPlainReturns \/ RunInstrumentedReturns \/ ExecFails
  /\ outcome' # "ok"
  /\ Conclude(FALSE)
  /\ UNCHANGED <<fixed, iteration, timed, output>>

\* A variant of CallRefused that makes the call again.
CallRefusedRetries ==
  /\ at = "call"
  /\ outcome = "threw"
  /\ at' = "loop"
  /\ UNCHANGED <<vars, fixed, env, ptype, iteration, timed, result, exitCode,
                 output>>

\* The runner refused the call before the guest was entered.
CallRefused ==
  /\ at = "call"
  /\ outcome = "threw"
  /\ Conclude(FALSE)
  /\ UNCHANGED <<vars, fixed, iteration, timed, output>>

\* An instrumented iteration ends with the reset.
InstrumentedIterationEnds ==
  /\ at = "reset"
  /\ ResetThresholdAndCounter
  /\ outcome' = "ok"
  /\ PrintStr(EndLine(env, ptype))
  /\ iteration' = iteration + 1
  /\ at' = "loop"
  /\ UNCHANGED <<fixed, env, ptype, timed, result, exitCode>>

ResetThrows ==
  /\ at = "reset"
  /\ ResetThresholdAndCounter
  /\ outcome' = "threw"
  /\ Conclude(FALSE)
  /\ UNCHANGED <<fixed, iteration, timed, output>>

\* The block of the plain runner is left, the other one is entered.
NextRunner ==
  /\ at = "loop"
  /\ iteration = Repeat
  /\ ptype = "plain"
  /\ ptype' = "instrumented"
  /\ at' = "construct"
  /\ UNCHANGED <<vars, fixed, env, iteration, timed, result, exitCode, output>>

\* DecentWasmMain returns true.
Completes ==
  /\ at = "loop"
  /\ iteration = Repeat
  /\ ptype = "instrumented"
  /\ Conclude(TRUE)
  /\ UNCHANGED <<vars, fixed, iteration, timed, output>>

-----------------------------------------------------------------------------
(* The script.                                                             *)

\* RunProgram raises on an exit code that is not zero.
ScriptGivesUp ==
  /\ at = "exit"
  /\ exitCode = "failure"
  /\ at' = "failed"
  /\ UNCHANGED <<vars, fixed, env, ptype, iteration, timed, result, exitCode,
                 output>>

\* Otherwise the native program runs, and the parser reads its output behind
\* that of the benchmark program.
ScriptParses ==
  /\ at = "exit"
  /\ exitCode = "success"
  /\ at' = "parsed"
  /\ parser' = Parse(Parse(Parse(parser, StartLine("Native", "plain")),
                           TimeLine("Native", 1)),
                     EndLine("Native", "plain"))
  /\ UNCHANGED <<vars, fixed, env, ptype, iteration, timed, lost, result,
                 exitCode>>

MainNext ==
  \/ EnclaveInitThrows
  \/ ConstructRunner
  \/ ConstructionThrows
  \/ BeginIteration
  \/ GuestRuns
  \/ StopBenchmark
  \/ PlainIterationEnds
  \/ InstrumentedCallReturns
  \/ CallThrows
  \/ CallRefused
  \/ InstrumentedIterationEnds
  \/ ResetThrows
  \/ NextRunner
  \/ Completes
  \/ ScriptGivesUp
  \/ ScriptParses

\* One thread that keeps running, with guests that do not wait for anything
\* outside the model.
MainSpec == MainInit /\ [][MainNext]_allVars /\ WF_allVars(MainNext)

-----------------------------------------------------------------------------
(* Properties.                                                             *)

\* DecentWasmMain drops the values RunInstrumented returns, so an injected
\* main that refuses to run would go unnoticed: every call that returns has
\* entered decent_wasm_main, because the loop resets the threshold.
InstrumentedCallRan ==
  call = "RunInstrumented" /\ outcome = "ok" => ran

\* The counter printed for an iteration is the work of that iteration alone.
ReportIsOwnWork ==
  call = "RunInstrumented" /\ outcome = "ok" => m_counter = work

\* The measurements of the runs of one type in one environment are those of
\* iterations 1, 2, ... in this order, each with a counter if instrumented.
InOrder(e, p) ==
  LET runs == parser.res[e][p] IN
    \A i \in 1 .. Len(runs) :
      /\ Len(runs[i]) = IF p = "plain" THEN 1 ELSE 2
      /\ runs[i][1] = i

Measured(e, p) == Len(parser.res[e][p]) = Repeat /\ InOrder(e, p)

\* Exit code 0 means that DecentWasmMain returned true outside the enclave and
\* was entered inside: an enclave that was not created, or whose launch token
\* was not written, counts as a failure.  Of a benchmark the output then has a
\* measurement of every iteration outside, whatever was lost inside.
SuccessMeansUntrustedMeasured ==
  exitCode = "success" =>
    /\ result["Untrusted"] = "true"
    /\ result["Enclave"] # "none"
    /\ benchmark => \A p \in PTypes : Measured("Untrusted", p)

\* What the script accepts has no half-measured runner, whatever guests it ran:
\* an iteration that was not timed, was timed twice, or started and did not
\* finish makes the parser raise, even when the program has hidden the failure
\* behind exit code 0.  Lost lines take measurements of the enclave with them,
\* never of the others.
AcceptedRunnersAreWhole ==
  at = "parsed" /\ ~parser.raised =>
    /\ \A p \in PTypes : Measured("Untrusted", p)
    /\ ~lost => \A p \in PTypes :
         parser.res["Enclave"][p] = <<>> \/ Measured("Enclave", p)

\* When DecentWasmMain returns true in both environments the parser accepts
\* the output of a benchmark and finds every measurement in it, if no line was
\* lost.
CompleteRunsAreAccepted ==
  benchmark /\ ~lost /\ at = "parsed" /\ result["Enclave"] = "true" =>
    /\ ~parser.raised
    /\ \A e \in {"Untrusted", "Enclave"}, p \in PTypes : Measured(e, p)

\* The benchmark ends, whatever fails on the way, and the script has judged it.
BenchmarkEnds == <>(at \in {"parsed", "failed"})

\* run-benchmark.py takes a nonzero exit code for a failed benchmark and any
\* other for a complete one: DecentWasmMain returned true in the enclave too.
SuccessMeansEnclaveMeasured ==
  exitCode = "success" => result["Enclave"] = "true"
=============================================================================
