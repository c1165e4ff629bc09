---------------------------- MODULE WasmInstance ----------------------------
(***************************************************************************)
(* One WASM module instance while the host calls into it: the instrumented *)
(* guest (test/wasm/test-04/test.wat and the *.nopt.wasm modules of        *)
(* test/polybench), the natives that end a run (decent_wasm_exit and       *)
(* decent_wasm_counter_exceed of src/DecentWasmNatives.cpp), and what the  *)
(* host relies on of WAMR: wasm_runtime_call_wasm_a reports failure        *)
(* exactly when the instance carries an exception or the call does not fit *)
(* the function, and nothing but wasm_runtime_clear_exception (which no    *)
(* code of the repository calls) takes an exception away.                  *)
(*                                                                         *)
(* Values of type uint64_t are residues modulo Modulus (2^64 in the code). *)
(***************************************************************************)
EXTENDS Integers

CONSTANTS
  Modulus,    \* the number of values of the guest's unsigned i64
  Costs,      \* what one instrumented block may add to the counter
  Thresholds, \* the budgets a caller passes to RunInstrumented
  Modules     \* the modules that may be loaded, a set of ModuleShapes

CounterName   == "decent_wasm_counter"
ThresholdName == "decent_wasm_threshold"

\* How an exported function compares with the call the host makes of it:
\* not exported, exported with other parameters or another number of results,
\* exported with a result of another kind, or as expected.
Linkages == {"absent", "arity", "kind", "match"}

\* What the runner can tell of a module.  A metered module charges its
\* counter; a guarded one has the injected main of the polybench modules,
\* which returns 1 at once when the threshold global is not zero.
ModuleShapes ==
  [ main     : Linkages,
    injected : Linkages,
    metered  : BOOLEAN,
    guarded  : BOOLEAN,
    globals  : SUBSET {CounterName, ThresholdName} ]

UInt64 == 0 .. Modulus - 1

ASSUME ModulusAssumption   == Modulus \in Nat \ {0}
ASSUME CostsAssumption     == Costs \subseteq UInt64 \ {0}
ASSUME ThresholdAssumption == Thresholds \subseteq UInt64
ASSUME ModulesAssumption   == Modules \subseteq ModuleShapes

\* DecentWasmMain passes UINT64_MAX / 2 and a block costs far less than the
\* other half: one charge on top of a legal counter does not wrap around.
ASSUME HeadroomAssumption ==
  \A t \in Thresholds, k \in Costs : t + k < Modulus

VARIABLES
  module,     \* the shape of the instantiated module, fixed
  counter,    \* its global decent_wasm_counter
  threshold,  \* its global decent_wasm_threshold
  exception,  \* the exception the instance carries, or "none"
  frame,      \* where the guest is: "none", "entry", "body" or "returned"
  function,   \* the exported function the frame belongs to
  argument,   \* the threshold argument of the injected main
  execRes,    \* what wasm_runtime_call_wasm_a returned
  work,       \* history: what this call charged before an exception
  ran         \* history: this call entered decent_wasm_main

instanceVars ==
  <<module, counter, threshold, exception, frame, function, argument,
    execRes, work, ran>>

Functions  == {"decent_wasm_main", "decent_wasm_injected_main"}
Exceptions == {"none", "decent wasm exit", "decent counter exceed",
               "Failed to find global", "trap"}

InstanceTypeOK ==
  /\ module    \in ModuleShapes
  /\ counter   \in UInt64
  /\ threshold \in UInt64
  /\ exception \in Exceptions
  /\ frame     \in {"none", "entry", "body", "returned"}
  /\ function  \in Functions
  /\ argument  \in UInt64
  /\ execRes   \in BOOLEAN
  /\ work      \in Nat
  /\ ran       \in BOOLEAN

\* wasm_runtime_instantiate of m: the globals have their initial value 0.
Instantiated(m) ==
  /\ module = m
  /\ counter = 0
  /\ threshold = 0
  /\ exception = "none"
  /\ frame = "none"
  /\ function = "decent_wasm_main"
  /\ argument = 0
  /\ execRes = TRUE
  /\ work = 0
  /\ ran = FALSE

\* The same of another instance, in the place of the last one.
InstantiateAnother(m) ==
  /\ module' = m
  /\ counter' = 0
  /\ threshold' = 0
  /\ exception' = "none"
  /\ frame' = "none"
  /\ function' = "decent_wasm_main"
  /\ argument' = 0
  /\ execRes' = TRUE
  /\ work' = 0
  /\ ran' = FALSE

Healthy == exception = "none"

\* There is such a global.  One that is exported is an i64, as in every module
\* of the repository.
Exports(name) == name \in module.globals

\* A variant of GetGlobal that mixes the two globals up.
GetGlobalSwapped(name) == IF name = CounterName THEN threshold ELSE counter

\* wasm_runtime_lookup_global and wasm_runtime_get_global_i64.
GetGlobal(name) == IF name = CounterName THEN counter ELSE threshold

\* A variant of Add that forgets the width.
AddUnbounded(x, y) == x + y

\* i64.add of two unsigned values.
Add(x, y) == IF x + y < Modulus THEN x + y ELSE x + y - Modulus

-----------------------------------------------------------------------------
(* What the host does to the instance.                                     *)

\* wasm_runtime_call_wasm_a of function fn with the argument arg: when the
\* arguments or results do not fit, it returns false and sets no exception;
\* otherwise the guest is entered.
EnterCall(fn, arg, linkage) ==
  /\ frame = "none"
  /\ function' = fn
  /\ argument' = arg
  /\ work' = 0
  /\ ran' = FALSE
  /\ \/ /\ linkage = "arity"
        /\ frame' = "returned"
        /\ execRes' = FALSE
     \/ /\ linkage \in {"kind", "match"}
        /\ frame' = "entry"
        /\ UNCHANGED execRes
  /\ UNCHANGED <<module, counter, threshold, exception>>

\* The call has come back and the host has read what it wants of it.
LeaveCall ==
  /\ frame = "returned"
  /\ frame' = "none"
  /\ UNCHANGED <<module, counter, threshold, exception, function, argument,
                 execRes, work, ran>>

-----------------------------------------------------------------------------
(* The guest.                                                              *)

\* wasm_runtime_set_exception and the unwinding of the guest behind it.
Raise(e) ==
  /\ exception' = e
  /\ frame' = "returned"
  /\ execRes' = FALSE

\* The bottom frame returns: the call succeeds unless the instance carries
\* an exception of an earlier call.
GuestReturn ==
  /\ frame' = "returned"
  /\ execRes' = Healthy

\* The host called decent_wasm_main itself.
PlainMain ==
  /\ frame = "entry"
  /\ function = "decent_wasm_main"
  /\ frame' = "body"
  /\ ran' = TRUE
  /\ UNCHANGED <<module, counter, threshold, exception, function, argument,
                 execRes, work>>

\* The guard in front of the injected main of the polybench modules.
AlreadyArmed == module.guarded /\ threshold # 0

\* The host called decent_wasm_injected_main: it stores its argument in the
\* threshold global and calls decent_wasm_main.
InjectedMain ==
  /\ frame = "entry"
  /\ function = "decent_wasm_injected_main"
  /\ ~AlreadyArmed
  /\ threshold' = argument
  /\ frame' = "body"
  /\ ran' = TRUE
  /\ UNCHANGED <<module, counter, exception, function, argument, execRes, work>>

\* An injected main that finds a threshold returns without running anything.
InjectedMainRefuses ==
  /\ frame = "entry"
  /\ function = "decent_wasm_injected_main"
  /\ AlreadyArmed
  /\ GuestReturn
  /\ UNCHANGED <<module, counter, threshold, exception, function, argument,
                 work, ran>>

\* decent_wasm_counter_exceed reads both globals by name before it raises its
\* own exception; the lookup of a global that is not exported raises instead.
CounterExceed ==
  IF {ThresholdName, CounterName} \subseteq module.globals
  THEN Raise("decent counter exceed")
  ELSE Raise("Failed to find global")

\* A variant of Within with the signed comparison.
Signed(x) == IF 2 * x < Modulus THEN x ELSE x - Modulus
WithinSigned(c) == Signed(c) <= Signed(threshold)

\* i64.le_u of the counter and the threshold.
Within(c) == c <= threshold

\* One instrumented block: add its cost, compare, and leave the guest when
\* the counter is above the threshold.
Charge(k) ==
  /\ frame = "body"
  /\ module.metered
  /\ counter' = Add(counter, k)
  /\ work' = IF Healthy THEN work + k ELSE work
  /\ \/ Within(counter') /\ UNCHANGED <<exception, frame, execRes>>
     \/ ~Within(counter') /\ CounterExceed
  /\ UNCHANGED <<module, threshold, function, argument, ran>>

\* The guest calls decent_wasm_exit.
Exit ==
  /\ frame = "body"
  /\ Raise("decent wasm exit")
  /\ UNCHANGED <<module, counter, threshold, function, argument, work, ran>>

\* The guest executes an instruction that traps, or calls an import that is
\* not linked (proc_exit, which test.wat calls when the counter exceeds).
Trap ==
  /\ frame = "body"
  /\ Raise("trap")
  /\ UNCHANGED <<module, counter, threshold, function, argument, work, ran>>

\* decent_wasm_main returns.
MainReturns ==
  /\ frame = "body"
  /\ GuestReturn
  /\ UNCHANGED <<module, counter, threshold, exception, function, argument,
                 work, ran>>

Guest ==
  \/ PlainMain
  \/ InjectedMain
  \/ InjectedMainRefuses
  \/ \E k \in Costs : Charge(k)
  \/ Exit
  \/ Trap
  \/ MainReturns
=============================================================================
