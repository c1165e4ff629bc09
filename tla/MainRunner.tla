----------------------------- MODULE MainRunner -----------------------------
(***************************************************************************)
(* MainRunner (include/DecentWasmRuntime/MainRunner.hpp) and the ExecFunc  *)
(* it is built on, for a caller that calls its three operations in any     *)
(* order and goes on after an exception.                                   *)
(***************************************************************************)
EXTENDS WasmInstance

VARIABLES
  call,        \* the operation of the runner called last
  outcome,     \* "none", "pending", "ok", "threw", or "crashed"
  m_threshold, \* MainRunner::m_threshold
  m_counter,   \* MainRunner::m_counter
  carried      \* history: the counter global when the call was made

runnerVars == <<call, outcome, m_threshold, m_counter, carried>>

vars == <<instanceVars, runnerVars>>

Calls == {"none", "RunPlain", "RunInstrumented", "ResetThresholdAndCounter"}

TypeOK ==
  /\ InstanceTypeOK
  /\ call        \in Calls
  /\ outcome     \in {"none", "pending", "ok", "threw", "crashed"}
  /\ m_threshold \in UInt64
  /\ m_counter   \in UInt64
  /\ carried     \in UInt64

\* The constructor: a fresh instance of m and a zero report.
Constructed(m) ==
  /\ Instantiated(m)
  /\ call = "none"
  /\ outcome = "none"
  /\ m_threshold = 0
  /\ m_counter = 0
  /\ carried = 0

Init == \E m \in Modules : Constructed(m)

\* A new runner in the place of the last one: Constructed(m) after the step.
ConstructAnother(m) ==
  /\ InstantiateAnother(m)
  /\ call' = "none"
  /\ outcome' = "none"
  /\ m_threshold' = 0
  /\ m_counter' = 0
  /\ carried' = 0

\* The caller may call: no call is on the stack and the process lives.
Idle == frame = "none" /\ outcome # "crashed"

-----------------------------------------------------------------------------
(* ExecFunc.                                                               *)

\* The first half of ExecFunc: look the function up by name and call it; a
\* function that is not exported is an exception before the guest is entered.
ExecFunc(fn, arg, linkage) ==
  /\ carried' = counter
  /\ \/ /\ linkage = "absent"
        /\ outcome' = "threw"
        /\ work' = 0
        /\ ran' = FALSE
        /\ UNCHANGED <<module, counter, threshold, exception, frame,
                       function, argument, execRes>>
     \/ /\ EnterCall(fn, arg, linkage)
        /\ outcome' = "pending"

\* The second half when the call failed: throw what the instance says went
\* wrong.  A call refused by WAMR leaves no message, and an exception built
\* from the null pointer throws or crashes with the standard library in use.
ExecFails ==
  /\ ~execRes
  /\ LeaveCall
  /\ outcome' \in IF Healthy THEN {"threw", "crashed"} ELSE {"threw"}
  /\ UNCHANGED <<call, m_threshold, m_counter, carried>>

\* The second half when it succeeded: the results are read by kind, and the
\* wrong kind is an exception of the host.
ResultLinkage ==
  IF function = "decent_wasm_main" THEN module.main ELSE module.injected

-----------------------------------------------------------------------------
(* The operations.                                                         *)

RunPlain ==
  /\ Idle
  /\ call' = "RunPlain"
  /\ ExecFunc("decent_wasm_main", argument, module.main)
  /\ UNCHANGED <<m_threshold, m_counter>>

\* A variant of RunPlainReturns for an ExecFunc that ignores execRes.
RunPlainReturnsUnchecked ==
  /\ call = "RunPlain"
  /\ LeaveCall
  /\ outcome' = IF ResultLinkage = "match" THEN "ok" ELSE "threw"
  /\ UNCHANGED <<call, m_threshold, m_counter, carried>>

\* The value is converted and returned.
RunPlainReturns ==
  /\ call = "RunPlain"
  /\ execRes
  /\ LeaveCall
  /\ outcome' = IF ResultLinkage = "match" THEN "ok" ELSE "threw"
  /\ UNCHANGED <<call, m_threshold, m_counter, carried>>

RunInstrumented(t) ==
  /\ Idle
  /\ call' = "RunInstrumented"
  /\ m_threshold' = t
  /\ ExecFunc("decent_wasm_injected_main", t, module.injected)
  /\ UNCHANGED m_counter

\* After the call the counter global is read by name and kept.
RunInstrumentedReturns ==
  /\ call = "RunInstrumented"
  /\ execRes
  /\ LeaveCall
  /\ \/ /\ ResultLinkage = "match"
        /\ Exports(CounterName)
        /\ m_counter' = GetGlobal(CounterName)
        /\ outcome' = "ok"
     \/ /\ ResultLinkage # "match" \/ ~Exports(CounterName)
        /\ outcome' = "threw"
        /\ UNCHANGED m_counter
  /\ UNCHANGED <<call, m_threshold, carried>>

\* A variant of ResetThresholdAndCounter that leaves the threshold alone.
ResetCounterOnly ==
  /\ Idle
  /\ call' = "ResetThresholdAndCounter"
  /\ counter' = IF Exports(CounterName) THEN 0 ELSE counter
  /\ outcome' = IF Exports(CounterName) THEN "ok" ELSE "threw"
  /\ UNCHANGED <<module, threshold, exception, frame, function, argument,
                 execRes, work, ran, m_threshold, m_counter, carried>>

\* A variant that leaves the counter alone.
ResetThresholdOnly ==
  /\ Idle
  /\ call' = "ResetThresholdAndCounter"
  /\ threshold' = IF Exports(ThresholdName) THEN 0 ELSE threshold
  /\ outcome' = IF Exports(ThresholdName) THEN "ok" ELSE "threw"
  /\ UNCHANGED <<module, counter, exception, frame, function, argument,
                 execRes, work, ran, m_threshold, m_counter, carried>>

\* The counter is reset first; a threshold that is not exported throws after
\* that.
ResetThresholdAndCounter ==
  /\ Idle
  /\ call' = "ResetThresholdAndCounter"
  /\ counter' = IF Exports(CounterName) THEN 0 ELSE counter
  /\ \/ /\ {CounterName, ThresholdName} \subseteq module.globals
        /\ threshold' = 0
        /\ outcome' = "ok"
     \/ /\ ~({CounterName, ThresholdName} \subseteq module.globals)
        /\ outcome' = "threw"
        /\ UNCHANGED threshold
  /\ UNCHANGED <<module, exception, frame, function, argument, execRes, work,
                 ran, m_threshold, m_counter, carried>>

GuestStep == Guest /\ UNCHANGED runnerVars

\* The thread is below the caller: in the guest or in the rest of ExecFunc.
CallStep ==
  \/ GuestStep
  \/ ExecFails
  \/ RunPlainReturns
  \/ RunInstrumentedReturns

Next ==
  \/ RunPlain
  \/ \E t \in Thresholds : RunInstrumented(t)
  \/ ResetThresholdAndCounter
  \/ CallStep

Spec == Init /\ [][Next]_vars

\* The processor keeps executing the one thread of the program.  Of a module
\* that is not metered this says nothing: its guest may compute forever.
FairSpec == Spec /\ WF_vars(module.metered /\ CallStep)

-----------------------------------------------------------------------------
(* Properties.                                                             *)

\* A call of RunInstrumented that returns normally charged no more than the
\* threshold it was given, whatever earlier calls left in the globals.
BudgetRespected ==
  call = "RunInstrumented" /\ outcome = "ok" => work <= m_threshold

\* GetCounter after a normal return is the true amount of work: what the
\* counter held when the call was made plus what this call charged, with no
\* wrap-around in between.
ReportIsExact ==
  call = "RunInstrumented" /\ outcome = "ok" => m_counter = carried + work

\* ExecFunc never clears the exception of an instance: once a call has failed
\* in the guest, no later call on the same instance returns a result.
NoResultFromFailedInstance ==
  ~Healthy /\ call \in {"RunPlain", "RunInstrumented"} => outcome # "ok"

\* The counter exists so that no guest keeps the host waiting: every call into
\* a metered module comes back to its caller.
CallCompletes ==
  (frame # "none" /\ module.metered) ~> (frame = "none")

\* The runner seen as a budgeted call.
Status ==
  IF call # "RunInstrumented" THEN "idle"
  ELSE CASE outcome = "pending" -> "running"
         [] outcome = "ok"      -> "completed"
         [] OTHER               -> "failed"

Abstract ==
  INSTANCE BudgetedCall WITH
    Budgets  <- Thresholds,
    status   <- Status,
    budget   <- m_threshold,
    used     <- IF call = "RunInstrumented" THEN work ELSE 0,
    reported <- m_counter

\* RunInstrumented is a budgeted call, with RunPlain, resets and failures
\* between its calls.
ImplementsBudgetedCall == Abstract!Spec

\* What the comment in decent_wasm_exit and decent_wasm_counter_exceed says of
\* the layer above: it clears the exception and returns as normal.
ExitReturnsAsNormal ==
  [][ frame = "returned" /\ frame' = "none" /\ exception = "decent wasm exit"
        => exception' = "none" /\ outcome' = "ok" ]_vars
=============================================================================
