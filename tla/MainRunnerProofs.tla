-------------------------- MODULE MainRunnerProofs --------------------------
(***************************************************************************)
(* Proofs about MainRunner, for every width, cost, budget and module shape *)
(* the assumptions of WasmInstance allow.                                  *)
(***************************************************************************)
EXTENDS MainRunner, TLAPS

-----------------------------------------------------------------------------
(* Types.                                                                  *)

\* i64.add stays within the width of the guest's integers.
LEMMA AddStaysInWidth ==
  ASSUME NEW x \in UInt64, NEW y \in UInt64
  PROVE  Add(x, y) \in UInt64
BY ModulusAssumption DEF Add, UInt64

\* Every step of the guest keeps the instance well typed.
LEMMA GuestTyping ==
  ASSUME TypeOK, GuestStep
  PROVE  TypeOK'
<1> USE DEF TypeOK, InstanceTypeOK, GuestStep, runnerVars
<1>1. CASE PlainMain
  BY <1>1 DEF PlainMain
<1>2. CASE InjectedMain
  BY <1>2 DEF InjectedMain
<1>3. CASE InjectedMainRefuses
  BY <1>3 DEF InjectedMainRefuses, GuestReturn, Healthy
<1>4. ASSUME NEW k \in Costs, Charge(k)
      PROVE  TypeOK'
  <2>1. k \in UInt64 /\ k \in Nat
    BY CostsAssumption, ModulusAssumption DEF UInt64
  <2>2. counter' \in UInt64
    BY <1>4, <2>1, AddStaysInWidth DEF Charge
  <2>3. work' \in Nat
    BY <1>4, <2>1 DEF Charge
  <2>4. exception' \in Exceptions /\ execRes' \in BOOLEAN
        /\ frame' \in {"none", "entry", "body", "returned"}
    BY <1>4 DEF Charge, CounterExceed, Raise, Exceptions
  <2> QED
    BY <1>4, <2>2, <2>3, <2>4 DEF Charge
<1>5. CASE Exit
  BY <1>5 DEF Exit, Raise, Exceptions
<1>6. CASE Trap
  BY <1>6 DEF Trap, Raise, Exceptions
<1>7. CASE MainReturns
  BY <1>7 DEF MainReturns, GuestReturn, Healthy
<1> QED
  BY <1>1, <1>2, <1>3, <1>4, <1>5, <1>6, <1>7 DEF Guest

\* The call of an exported function, or its refusal, keeps the types.
LEMMA ExecFuncTyping ==
  ASSUME TypeOK, NEW fn \in Functions, NEW arg \in UInt64,
         NEW linkage, ExecFunc(fn, arg, linkage)
  PROVE  /\ InstanceTypeOK'
         /\ carried' \in UInt64
         /\ outcome' \in {"threw", "pending"}
<1>1. CASE /\ outcome' = "threw"
           /\ work' = 0
           /\ ran' = FALSE
           /\ UNCHANGED <<module, counter, threshold, exception, frame,
                          function, argument, execRes>>
  BY <1>1 DEF ExecFunc, TypeOK, InstanceTypeOK
<1>2. CASE EnterCall(fn, arg, linkage) /\ outcome' = "pending"
  BY <1>2 DEF ExecFunc, EnterCall, TypeOK, InstanceTypeOK
<1> QED
  BY <1>1, <1>2 DEF ExecFunc

\* Every step keeps the types.
LEMMA TypeStep ==
  ASSUME TypeOK, [Next]_vars
  PROVE  TypeOK'
<1>1. CASE RunPlain
  BY <1>1, ExecFuncTyping
  DEF RunPlain, TypeOK, InstanceTypeOK, Functions, Calls
<1>2. ASSUME NEW t \in Thresholds, RunInstrumented(t)
      PROVE  TypeOK'
  BY <1>2, ExecFuncTyping, ThresholdAssumption
  DEF RunInstrumented, TypeOK, Functions, Calls
<1>3. CASE ResetThresholdAndCounter
  <2>1. 0 \in UInt64
    BY ModulusAssumption DEF UInt64
  <2> QED
    BY <1>3, <2>1
    DEF ResetThresholdAndCounter, TypeOK, InstanceTypeOK, Calls
<1>4. CASE GuestStep
  BY <1>4, GuestTyping
<1>5. CASE ExecFails
  BY <1>5 DEF ExecFails, LeaveCall, TypeOK, InstanceTypeOK
<1>6. CASE RunPlainReturns
  BY <1>6 DEF RunPlainReturns, LeaveCall, TypeOK, InstanceTypeOK
<1>7. CASE RunInstrumentedReturns
  BY <1>7
  DEF RunInstrumentedReturns, LeaveCall, GetGlobal, TypeOK, InstanceTypeOK
<1>8. CASE UNCHANGED vars
  BY <1>8 DEF vars, instanceVars, runnerVars, TypeOK, InstanceTypeOK
<1> QED
  BY <1>1, <1>2, <1>3, <1>4, <1>5, <1>6, <1>7, <1>8 DEF Next, CallStep

\* The initial values are of their types.
LEMMA TypeInit == Init => TypeOK
<1> SUFFICES ASSUME NEW m \in Modules, Constructed(m) PROVE TypeOK
  BY DEF Init
<1>1. 0 \in UInt64
  BY ModulusAssumption DEF UInt64
<1>2. module \in ModuleShapes
  BY ModulesAssumption DEF Constructed, Instantiated
<1>3. InstanceTypeOK
  BY <1>1, <1>2
  DEF Constructed, Instantiated, InstanceTypeOK, Functions, Exceptions
<1> QED
  BY <1>1, <1>3 DEF Constructed, TypeOK, Calls

\* Every variable of the runner and of the instance keeps its type, the
\* guest's integers their width.
THEOREM TypeCorrect == Spec => []TypeOK
<1>1. TypeOK /\ [Next]_vars => TypeOK'
  BY TypeStep
<1> QED
  BY <1>1, TypeInit, PTL DEF Spec

-----------------------------------------------------------------------------
(* The inductive invariant.                                                *)

Running == frame # "none"

\* A call is pending exactly while the guest or the rest of ExecFunc runs; an
\* instrumented call passed the threshold the runner keeps.
CallMatchesFrame ==
  /\ Running => call \in {"RunPlain", "RunInstrumented"}
  /\ Running <=> outcome = "pending"
  /\ Running /\ call = "RunPlain" => function = "decent_wasm_main"
  /\ Running /\ call = "RunInstrumented" =>
       /\ function = "decent_wasm_injected_main"
       /\ argument = m_threshold
       /\ m_threshold \in Thresholds
       /\ frame = "body" => threshold = m_threshold

\* A counter of an instance without exception is within some budget, so the
\* next charge does not wrap around.
CounterWithinSomeBudget ==
  /\ threshold \in Thresholds \cup {0}
  /\ Healthy => \E t \in Thresholds \cup {0} : counter <= t

\* While an instance has no exception the counter holds what it held before
\* the call plus the charges of the call, and those passed the comparison.
ChargesAccounted ==
  /\ frame = "entry" => work = 0
  /\ Running /\ Healthy => counter = carried + work
  /\ Running /\ Healthy /\ call = "RunInstrumented" /\ work > 0
       => counter <= m_threshold

\* WAMR reports success only of an instance without exception.
SuccessMeansHealthy == frame = "returned" /\ execRes => Healthy

IInv ==
  /\ TypeOK
  /\ CallMatchesFrame
  /\ CounterWithinSomeBudget
  /\ ChargesAccounted
  /\ SuccessMeansHealthy
  /\ BudgetRespected
  /\ ReportIsExact
  /\ NoResultFromFailedInstance

\* A charge on a counter within some budget does not wrap around.
LEMMA ChargeDoesNotWrap ==
  ASSUME NEW c \in UInt64, NEW k \in Costs, NEW t \in Thresholds \cup {0},
         c <= t
  PROVE  Add(c, k) = c + k
<1>1. t \in UInt64 /\ k \in UInt64
  BY CostsAssumption, ThresholdAssumption, ModulusAssumption DEF UInt64
<1>2. t + k < Modulus
  BY <1>1, HeadroomAssumption, ModulusAssumption DEF UInt64
<1> QED
  BY <1>1, <1>2, ModulusAssumption DEF Add, UInt64

\* Initially nothing runs and nothing is charged.
LEMMA InvInit == Init => IInv
<1> SUFFICES ASSUME Init PROVE IInv
  OBVIOUS
<1>1. TypeOK
  BY TypeInit
<1>2. CallMatchesFrame /\ ChargesAccounted /\ SuccessMeansHealthy
  BY DEF Init, Constructed, Instantiated, CallMatchesFrame, ChargesAccounted,
         SuccessMeansHealthy, Running
<1>3. CounterWithinSomeBudget
  BY DEF Init, Constructed, Instantiated, CounterWithinSomeBudget
<1>4. BudgetRespected /\ ReportIsExact /\ NoResultFromFailedInstance
  BY DEF Init, Constructed, BudgetRespected, ReportIsExact, NoResultFromFailedInstance
<1> QED
  BY <1>1, <1>2, <1>3, <1>4 DEF IInv

\* The parts of the invariant that speak of a call that has come back.
Verdicts == BudgetRespected /\ ReportIsExact /\ NoResultFromFailedInstance

\* A step of the guest keeps the invariant.
LEMMA GuestKeepsInv ==
  ASSUME IInv, GuestStep
  PROVE  IInv'
<1>0. TypeOK /\ TypeOK'
  BY GuestTyping DEF IInv
<1>1. Running /\ outcome = "pending" /\ outcome' = "pending"
  <2>1. Running
    BY DEF GuestStep, Guest, PlainMain, InjectedMain, InjectedMainRefuses,
           Charge, Exit, Trap, MainReturns, Running
  <2> QED
    BY <2>1 DEF IInv, CallMatchesFrame, GuestStep, runnerVars
<1>2. Verdicts'
  BY <1>1 DEF Verdicts, BudgetRespected, ReportIsExact,
              NoResultFromFailedInstance
<1>3. /\ CallMatchesFrame'
      /\ CounterWithinSomeBudget'
      /\ ChargesAccounted'
      /\ SuccessMeansHealthy'
  <2> USE <1>1 DEF IInv, GuestStep, runnerVars, CallMatchesFrame,
                   CounterWithinSomeBudget, ChargesAccounted,
                   SuccessMeansHealthy, Running, Healthy
  <2>1. CASE PlainMain
    BY <2>1 DEF PlainMain
  <2>2. CASE InjectedMain
    BY <2>2 DEF InjectedMain
  <2>3. CASE InjectedMainRefuses
    BY <2>3 DEF InjectedMainRefuses, GuestReturn
  <2>4. ASSUME NEW k \in Costs, Charge(k)
        PROVE  /\ CallMatchesFrame'
               /\ CounterWithinSomeBudget'
               /\ ChargesAccounted'
               /\ SuccessMeansHealthy'
    <3>1. k \in Nat
      BY CostsAssumption, ModulusAssumption DEF UInt64
    <3>2. Healthy => counter' = counter + k /\ work' = work + k
      <4> SUFFICES ASSUME Healthy
                   PROVE  counter' = counter + k /\ work' = work + k
        OBVIOUS
      <4>1. PICK t \in Thresholds \cup {0} : counter <= t
        OBVIOUS
      <4>2. Add(counter, k) = counter + k
        BY <1>0, <4>1, ChargeDoesNotWrap DEF TypeOK, InstanceTypeOK
      <4> QED
        BY <2>4, <4>2 DEF Charge
    <3>3. CASE Within(counter') /\ UNCHANGED <<exception, frame, execRes>>
      <4>1. counter' <= threshold /\ frame' = "body" /\ frame = "body"
        BY <2>4, <3>3 DEF Charge, Within
      <4>2. CallMatchesFrame' /\ SuccessMeansHealthy'
        BY <2>4, <3>3, <4>1 DEF Charge
      <4>3. CounterWithinSomeBudget'
        BY <2>4, <3>3, <4>1 DEF Charge
      <4>4. ChargesAccounted'
        BY <1>0, <2>4, <3>1, <3>2, <3>3, <4>1
        DEF Charge, TypeOK, InstanceTypeOK, UInt64
      <4> QED
        BY <4>2, <4>3, <4>4
    <3>4. CASE ~Within(counter') /\ CounterExceed
      <4>1. frame' = "returned" /\ execRes' = FALSE /\ exception' # "none"
        BY <3>4 DEF CounterExceed, Raise
      <4> QED
        BY <2>4, <4>1 DEF Charge
    <3> QED
      BY <2>4, <3>3, <3>4 DEF Charge
  <2>5. CASE Exit
    BY <2>5 DEF Exit, Raise
  <2>6. CASE Trap
    BY <2>6 DEF Trap, Raise
  <2>7. CASE MainReturns
    BY <2>7 DEF MainReturns, GuestReturn
  <2> QED
    BY <2>1, <2>2, <2>3, <2>4, <2>5, <2>6, <2>7 DEF Guest
<1> QED
  BY <1>0, <1>2, <1>3 DEF IInv, Verdicts

\* Making a call keeps the invariant: it opens a frame with nothing charged,
\* or fails at once.
LEMMA CallKeepsInv ==
  ASSUME IInv, RunPlain \/ \E t \in Thresholds : RunInstrumented(t)
  PROVE  IInv'
<1>0. TypeOK /\ TypeOK'
  BY TypeStep DEF IInv, Next
<1>1. ~Running /\ UNCHANGED <<counter, threshold, exception>>
  BY DEF RunPlain, RunInstrumented, Idle, Running, ExecFunc, EnterCall
<1>2. /\ carried' = counter
      /\ work' = 0
      /\ outcome' \in {"threw", "pending"}
      /\ call' \in {"RunPlain", "RunInstrumented"}
  BY DEF RunPlain, RunInstrumented, ExecFunc, EnterCall
<1>3. CallMatchesFrame'
  <2>1. CASE RunPlain
    BY <2>1, <1>1
    DEF RunPlain, ExecFunc, EnterCall, CallMatchesFrame, Running
  <2>2. ASSUME NEW t \in Thresholds, RunInstrumented(t)
        PROVE  CallMatchesFrame'
    BY <2>2, <1>1
    DEF RunInstrumented, ExecFunc, EnterCall, CallMatchesFrame, Running
  <2> QED
    BY <2>1, <2>2
<1>4. CounterWithinSomeBudget'
  BY <1>1 DEF IInv, CounterWithinSomeBudget, Healthy
<1>5. ChargesAccounted'
  BY <1>0, <1>1, <1>2
  DEF ChargesAccounted, TypeOK, InstanceTypeOK, UInt64
<1>6. SuccessMeansHealthy'
  BY <1>1
  DEF RunPlain, RunInstrumented, ExecFunc, EnterCall, SuccessMeansHealthy,
      Running
<1>7. Verdicts'
  BY <1>2
  DEF Verdicts, BudgetRespected, ReportIsExact, NoResultFromFailedInstance
<1> QED
  BY <1>0, <1>3, <1>4, <1>5, <1>6, <1>7 DEF IInv, Verdicts

\* The rest of ExecFunc, and what the runner does behind it, keep it.
LEMMA ReturnKeepsInv ==
  ASSUME IInv, ExecFails \/ RunPlainReturns \/ RunInstrumentedReturns
  PROVE  IInv'
<1>0. TypeOK /\ TypeOK'
  BY TypeStep DEF IInv, Next, CallStep
<1>1. /\ frame = "returned"
      /\ frame' = "none"
      /\ outcome' # "pending"
      /\ UNCHANGED <<module, counter, threshold, exception, work, call,
                     m_threshold, carried>>
  BY DEF ExecFails, RunPlainReturns, RunInstrumentedReturns, LeaveCall
<1>2. /\ CallMatchesFrame'
      /\ CounterWithinSomeBudget'
      /\ ChargesAccounted'
      /\ SuccessMeansHealthy'
  BY <1>1
  DEF IInv, CallMatchesFrame, CounterWithinSomeBudget, ChargesAccounted,
      SuccessMeansHealthy, Running, Healthy
<1>3. outcome' = "ok" => Healthy /\ counter = carried + work
  BY <1>1
  DEF IInv, ExecFails, RunPlainReturns, RunInstrumentedReturns,
      SuccessMeansHealthy, ChargesAccounted, Running
<1>4. outcome' = "ok" /\ call = "RunInstrumented" =>
        m_counter' = counter /\ work <= m_threshold
  <2> SUFFICES ASSUME outcome' = "ok", call = "RunInstrumented"
               PROVE  m_counter' = counter /\ work <= m_threshold
    OBVIOUS
  <2>1. m_counter' = counter
    BY DEF ExecFails, RunPlainReturns, RunInstrumentedReturns, GetGlobal
  <2>2. work > 0 => counter <= m_threshold
    BY <1>1, <1>3 DEF IInv, ChargesAccounted, Running
  <2> QED
    BY <1>0, <1>3, <2>1, <2>2 DEF TypeOK, InstanceTypeOK, UInt64
<1>5. Verdicts'
  BY <1>1, <1>3, <1>4
  DEF Verdicts, BudgetRespected, ReportIsExact, NoResultFromFailedInstance,
      Healthy
<1> QED
  BY <1>0, <1>2, <1>5 DEF IInv, Verdicts

\* Resetting the globals keeps it.
LEMMA ResetKeepsInv ==
  ASSUME IInv, ResetThresholdAndCounter
  PROVE  IInv'
<1>0. TypeOK /\ TypeOK'
  BY TypeStep DEF IInv, Next
<1>1. ~Running /\ ~Running' /\ outcome' # "pending"
  BY DEF ResetThresholdAndCounter, Idle, Running
<1>2. CounterWithinSomeBudget'
  BY <1>0
  DEF IInv, ResetThresholdAndCounter, CounterWithinSomeBudget, Healthy,
      TypeOK, InstanceTypeOK
<1>3. /\ CallMatchesFrame'
      /\ ChargesAccounted'
      /\ SuccessMeansHealthy'
  BY <1>1
  DEF CallMatchesFrame, ChargesAccounted, SuccessMeansHealthy, Running
<1>4. Verdicts'
  BY DEF ResetThresholdAndCounter, Verdicts, BudgetRespected, ReportIsExact,
         NoResultFromFailedInstance
<1> QED
  BY <1>0, <1>2, <1>3, <1>4 DEF IInv, Verdicts

\* So does a step of somebody else.
LEMMA StutterKeepsInv ==
  ASSUME IInv, UNCHANGED vars
  PROVE  IInv'
BY DEF IInv, vars, instanceVars, runnerVars, TypeOK, InstanceTypeOK,
       CallMatchesFrame, CounterWithinSomeBudget, ChargesAccounted,
       SuccessMeansHealthy, BudgetRespected, ReportIsExact,
       NoResultFromFailedInstance, Running, Healthy

\* The invariant is inductive.
LEMMA InvStep ==
  ASSUME IInv, [Next]_vars
  PROVE  IInv'
<1>1. CASE RunPlain \/ \E t \in Thresholds : RunInstrumented(t)
  BY <1>1, CallKeepsInv
<1>2. CASE ResetThresholdAndCounter
  BY <1>2, ResetKeepsInv
<1>3. CASE GuestStep
  BY <1>3, GuestKeepsInv
<1>4. CASE ExecFails \/ RunPlainReturns \/ RunInstrumentedReturns
  BY <1>4, ReturnKeepsInv
<1>5. CASE UNCHANGED vars
  BY <1>5, StutterKeepsInv
<1> QED
  BY <1>1, <1>2, <1>3, <1>4, <1>5 DEF Next, CallStep

\* The inductive invariant holds in every reachable state.
THEOREM Invariance == Spec => []IInv
<1>1. IInv /\ [Next]_vars => IInv'
  BY InvStep
<1> QED
  BY <1>1, InvInit, PTL DEF Spec

-----------------------------------------------------------------------------
(* What the runner promises.                                               *)

\* RunInstrumented never returns normally above the threshold it was given.
THEOREM BudgetIsRespected == Spec => []BudgetRespected
<1>1. IInv => BudgetRespected
  BY DEF IInv
<1> QED
  BY <1>1, Invariance, PTL

\* The counter it reports is what was in the counter plus what it charged.
THEOREM ReportIsTrue == Spec => []ReportIsExact
<1>1. IInv => ReportIsExact
  BY DEF IInv
<1> QED
  BY <1>1, Invariance, PTL

\* After an exception in the guest no call on the instance succeeds.
THEOREM FailureIsFinal == Spec => []NoResultFromFailedInstance
<1>1. IInv => NoResultFromFailedInstance
  BY DEF IInv
<1> QED
  BY <1>1, Invariance, PTL

-----------------------------------------------------------------------------
(* The runner implements a budgeted call.                                  *)

\* What a budgeted call has spent, in the runner's terms.
Used == IF call = "RunInstrumented" THEN work ELSE 0

AbstractNext == [Abstract!Next]_(Abstract!bvars)

\* Calls of the runner start a budgeted call, refuse it, or forget the last.
LEMMA CallRefines ==
  ASSUME IInv, RunPlain \/ \E t \in Thresholds : RunInstrumented(t)
  PROVE  AbstractNext
<1>1. Status # "running"
  BY DEF IInv, CallMatchesFrame, Running, Status, RunPlain, RunInstrumented,
         Idle
<1>2. CASE RunPlain
  <2>1. /\ Status' = "idle"
        /\ Used' = 0
        /\ UNCHANGED <<m_threshold, m_counter>>
    BY <1>2 DEF RunPlain, Status, Used
  <2>2. Abstract!Forget
    BY <1>1, <2>1 DEF Abstract!Forget, Used
  <2> QED
    BY <2>2 DEF AbstractNext, Abstract!Next
<1>3. ASSUME NEW t \in Thresholds, RunInstrumented(t)
      PROVE  AbstractNext
  <2>1. /\ Status' \in {"running", "failed"}
        /\ Used' = 0
        /\ m_threshold' = t
        /\ UNCHANGED m_counter
    BY <1>3 DEF RunInstrumented, ExecFunc, EnterCall, Status, Used
  <2>2. Abstract!Start(t) \/ Abstract!Refuse(t)
    BY <1>1, <2>1 DEF Abstract!Start, Abstract!Refuse, Used
  <2> QED
    BY <2>2 DEF AbstractNext, Abstract!Next
<1> QED
  BY <1>2, <1>3

\* A reset forgets the last call.
LEMMA ResetRefines ==
  ASSUME IInv, ResetThresholdAndCounter
  PROVE  AbstractNext
<1>1. Status # "running"
  BY DEF IInv, CallMatchesFrame, Running, Status, ResetThresholdAndCounter,
         Idle
<1>2. Status' = "idle" /\ Used' = 0 /\ UNCHANGED <<m_threshold, m_counter>>
  BY DEF ResetThresholdAndCounter, Status, Used
<1>3. Abstract!Forget
  BY <1>1, <1>2 DEF Abstract!Forget, Used
<1> QED
  BY <1>3 DEF AbstractNext, Abstract!Next

\* The guest of an instrumented call spends, or does nothing a budgeted call
\* knows of.
LEMMA GuestRefines ==
  ASSUME IInv, GuestStep
  PROVE  AbstractNext
<1>1. UNCHANGED runnerVars /\ UNCHANGED Status
  BY DEF GuestStep, runnerVars, Status
<1>2. CASE work' = work
  BY <1>1, <1>2 DEF AbstractNext, Abstract!bvars, runnerVars, Used
<1>3. ASSUME NEW k \in Costs, Charge(k)
      PROVE  AbstractNext
  <2>1. work \in Nat /\ k \in Nat /\ k > 0
    BY CostsAssumption, ModulusAssumption
    DEF IInv, TypeOK, InstanceTypeOK, UInt64
  <2>2. CASE call = "RunInstrumented" /\ Healthy
    <3>1. Status = "running"
      BY <1>3, <2>2 DEF IInv, CallMatchesFrame, Running, Charge, Status
    <3>2. Abstract!Spend
      BY <1>1, <1>3, <2>1, <2>2, <3>1
      DEF Abstract!Spend, Charge, runnerVars
    <3> QED
      BY <3>2 DEF AbstractNext, Abstract!Next
  <2>3. CASE ~(call = "RunInstrumented" /\ Healthy)
    BY <1>1, <1>3, <2>3
    DEF AbstractNext, Abstract!bvars, Charge, runnerVars
  <2> QED
    BY <2>2, <2>3
<1>4. (\E k \in Costs : Charge(k)) \/ work' = work
  BY DEF GuestStep, Guest, PlainMain, InjectedMain, InjectedMainRefuses,
         Exit, Trap, MainReturns
<1> QED
  BY <1>2, <1>3, <1>4

\* Coming back completes or fails the budgeted call.
LEMMA ReturnRefines ==
  ASSUME IInv, ExecFails \/ RunPlainReturns \/ RunInstrumentedReturns
  PROVE  AbstractNext
<1>0. IInv'
  BY ReturnKeepsInv
<1>1. /\ UNCHANGED <<call, m_threshold, work, carried>>
      /\ outcome = "pending"
      /\ outcome' # "pending"
  BY DEF IInv, CallMatchesFrame, Running, ExecFails, RunPlainReturns,
         RunInstrumentedReturns, LeaveCall
<1>2. CASE call # "RunInstrumented"
  <2>1. UNCHANGED <<m_counter, Status>>
    BY <1>1, <1>2
    DEF ExecFails, RunPlainReturns, RunInstrumentedReturns, Status
  <2> QED
    BY <1>1, <1>2, <2>1 DEF AbstractNext, Abstract!bvars
<1>3. CASE call = "RunInstrumented" /\ outcome' = "ok"
  <2>1. Status = "running" /\ Status' = "completed"
    BY <1>1, <1>3 DEF Status
  <2>2. work' <= m_threshold' /\ m_counter' = carried' + work'
    BY <1>0, <1>1, <1>3 DEF IInv, BudgetRespected, ReportIsExact
  <2>3. /\ work <= m_threshold
        /\ m_counter' \in Nat
        /\ m_counter' >= work
    BY <1>0, <1>1, <2>2, ModulusAssumption
    DEF IInv, TypeOK, InstanceTypeOK, UInt64
  <2>4. Abstract!Complete
    BY <1>1, <1>3, <2>1, <2>3 DEF Abstract!Complete
  <2> QED
    BY <2>4 DEF AbstractNext, Abstract!Next
<1>4. CASE call = "RunInstrumented" /\ outcome' # "ok"
  <2>1. Status = "running" /\ Status' = "failed"
    BY <1>1, <1>4 DEF Status
  <2>2. UNCHANGED m_counter
    BY <1>4 DEF ExecFails, RunPlainReturns, RunInstrumentedReturns
  <2>3. Abstract!Fail
    BY <1>1, <1>4, <2>1, <2>2 DEF Abstract!Fail
  <2> QED
    BY <2>3 DEF AbstractNext, Abstract!Next
<1> QED
  BY <1>2, <1>3, <1>4

\* Every step of the runner is one of a budgeted call, or none.
LEMMA StepRefines ==
  ASSUME IInv, [Next]_vars
  PROVE  AbstractNext
<1>1. CASE UNCHANGED vars
  BY <1>1
  DEF vars, instanceVars, runnerVars, AbstractNext, Abstract!bvars, Status
<1>2. CASE RunPlain \/ \E t \in Thresholds : RunInstrumented(t)
  BY <1>2, CallRefines
<1>3. CASE ResetThresholdAndCounter
  BY <1>3, ResetRefines
<1>4. CASE GuestStep
  BY <1>4, GuestRefines
<1>5. CASE ExecFails \/ RunPlainReturns \/ RunInstrumentedReturns
  BY <1>5, ReturnRefines
<1> QED
  BY <1>1, <1>2, <1>3, <1>4, <1>5 DEF Next, CallStep

\* For every module and every order of calls, what RunInstrumented does is
\* what a budgeted call may do.
THEOREM Refinement == Spec => ImplementsBudgetedCall
<1>1. Init => Abstract!Init
  BY DEF Init, Constructed, Instantiated, Abstract!Init, Status
<1>2. IInv /\ [Next]_vars => [Abstract!Next]_(Abstract!bvars)
  BY StepRefines DEF AbstractNext
<1> QED
  BY <1>1, <1>2, Invariance, PTL
  DEF Spec, ImplementsBudgetedCall, Abstract!Spec

-----------------------------------------------------------------------------
(* A guest that fails to stop in time.                                     *)

\* An instrumented call exceeds the threshold it was given by no more than the
\* block it is stopped in, whether it returns or not.
OverrunIsOneBlock ==
  call = "RunInstrumented" =>
    \E k \in Costs \cup {0} : work <= m_threshold + k

\* The comparison is made behind every block, and only a healthy instance
\* counts its work.
LEMMA OverrunStep ==
  ASSUME IInv, OverrunIsOneBlock, [Next]_vars
  PROVE  OverrunIsOneBlock'
<1>0. /\ work \in Nat /\ m_threshold \in Nat /\ carried \in Nat
      /\ m_threshold' \in Nat
  <2>1. TypeOK /\ TypeOK'
    BY InvStep DEF IInv
  <2> QED
    BY <2>1, ModulusAssumption DEF TypeOK, InstanceTypeOK, UInt64
<1>1. CASE work' = 0
  BY <1>0, <1>1 DEF OverrunIsOneBlock
<1>2. CASE UNCHANGED <<call, work, m_threshold>> \/ call' # "RunInstrumented"
  BY <1>2 DEF OverrunIsOneBlock
<1>3. ASSUME NEW k \in Costs, Charge(k), UNCHANGED runnerVars
      PROVE  OverrunIsOneBlock'
  <2>1. k \in Nat
    BY CostsAssumption, ModulusAssumption DEF UInt64
  <2>2. CASE Healthy /\ call = "RunInstrumented"
    <3>1. counter = carried + work /\ (work > 0 => counter <= m_threshold)
      BY <1>3, <2>2 DEF IInv, ChargesAccounted, Running, Charge
    <3>2. work <= m_threshold
      BY <1>0, <3>1
    <3>3. work' = work + k /\ m_threshold' = m_threshold
      BY <1>3, <2>2 DEF Charge, runnerVars
    <3>4. work' <= m_threshold' + k
      BY <1>0, <2>1, <3>2, <3>3
    <3> QED
      BY <3>4 DEF OverrunIsOneBlock
  <2>3. CASE ~(Healthy /\ call = "RunInstrumented")
    BY <1>3, <2>3 DEF Charge, runnerVars, OverrunIsOneBlock
  <2> QED
    BY <2>2, <2>3
<1>4. \/ work' = 0
      \/ UNCHANGED <<call, work, m_threshold>>
      \/ call' # "RunInstrumented"
      \/ \E k \in Costs : Charge(k) /\ UNCHANGED runnerVars
  <2>1. CASE RunPlain \/ (\E t \in Thresholds : RunInstrumented(t))
              \/ ResetThresholdAndCounter
    BY <2>1 DEF RunPlain, RunInstrumented, ResetThresholdAndCounter, ExecFunc, EnterCall
  <2>2. CASE GuestStep
    BY <2>2 DEF GuestStep, Guest, runnerVars, PlainMain, InjectedMain,
                InjectedMainRefuses, Exit, Trap, MainReturns
  <2>3. CASE ExecFails \/ RunPlainReturns \/ RunInstrumentedReturns
    BY <2>3 DEF ExecFails, RunPlainReturns, RunInstrumentedReturns, LeaveCall
  <2>4. CASE UNCHANGED vars
    BY <2>4 DEF vars, instanceVars, runnerVars
  <2> QED
    BY <2>1, <2>2, <2>3, <2>4 DEF Next, CallStep
<1> QED
  BY <1>1, <1>2, <1>3, <1>4

\* No instrumented call does more work than its threshold and one block, also
\* when it traps, exits, or is stopped.
THEOREM OverrunBounded == Spec => []OverrunIsOneBlock
<1>1. Init => OverrunIsOneBlock
  BY DEF Init, Constructed, OverrunIsOneBlock
<1>2. IInv /\ OverrunIsOneBlock /\ [Next]_vars => OverrunIsOneBlock'
  BY OverrunStep
<1> QED
  BY <1>1, <1>2, Invariance, PTL DEF Spec

-----------------------------------------------------------------------------
(* Progress: the steps of a call are numbered downwards.                   *)

\* What may be charged to c before the comparison with t stops it; a counter
\* above the threshold gets below it by wrapping around.
AllowanceOf(c, t) == IF c <= t THEN t - c ELSE t - c + Modulus

Allowance == AllowanceOf(counter, threshold)

\* The steps a call may still take.
StepsLeft ==
  CASE frame = "none"     -> 0
    [] frame = "returned" -> 1
    [] frame = "body"     -> Allowance + 2
    [] frame = "entry"    -> Modulus + 2

\* There is less than Modulus to charge.
LEMMA AllowanceTyped ==
  ASSUME NEW c \in UInt64, NEW t \in UInt64
  PROVE  AllowanceOf(c, t) \in Nat /\ AllowanceOf(c, t) < Modulus
BY ModulusAssumption DEF AllowanceOf, UInt64

\* The steps left are a number, and a call under way has one left.
LEMMA StepsLeftTyped ==
  ASSUME TypeOK
  PROVE  StepsLeft \in Nat /\ (Running => StepsLeft > 0)
<1>1. frame \in {"none", "entry", "body", "returned"}
  BY DEF TypeOK, InstanceTypeOK
<1>2. Allowance \in Nat
  BY AllowanceTyped DEF TypeOK, InstanceTypeOK, Allowance
<1> QED
  BY <1>1, <1>2, ModulusAssumption DEF StepsLeft, Running

\* A charge that does not leave the guest uses up some of what it is allowed.
LEMMA ChargeUsesAllowance ==
  ASSUME IInv, NEW k \in Costs, Charge(k), Within(counter')
  PROVE  Allowance' < Allowance
<1>1. /\ counter \in 0 .. Modulus - 1 /\ threshold \in 0 .. Modulus - 1
      /\ k \in Nat /\ k > 0 /\ k < Modulus /\ Modulus \in Nat
  BY CostsAssumption, ModulusAssumption DEF IInv, TypeOK, InstanceTypeOK, UInt64
<1>2. threshold + k < Modulus
  <2>1. threshold \in Thresholds \cup {0}
    BY DEF IInv, CounterWithinSomeBudget
  <2> QED
    BY <1>1, <2>1, HeadroomAssumption
<1>3. counter' = Add(counter, k) /\ threshold' = threshold /\ counter' <= threshold
  BY DEF Charge, Within
<1>4. Allowance' = AllowanceOf(Add(counter, k), threshold)
  BY <1>3 DEF Allowance
<1>5. Add(counter, k) <= threshold
  BY <1>3
<1>6. AllowanceOf(Add(counter, k), threshold) < AllowanceOf(counter, threshold)
  BY <1>1, <1>2, <1>5 DEF AllowanceOf, Add
<1> QED
  BY <1>4, <1>6 DEF Allowance

\* Every step of a call leaves fewer.
LEMMA CallStepProgress ==
  ASSUME IInv, Next, Running
  PROVE  StepsLeft' < StepsLeft
<1>1. TypeOK /\ Modulus \in Nat
  BY ModulusAssumption DEF IInv
<1>2. StepsLeft \in Nat /\ StepsLeft > 0
  BY <1>1, StepsLeftTyped
<1>3. Allowance \in Nat /\ Allowance < Modulus /\ Allowance' \in Nat
      /\ Allowance' < Modulus
  <2>1. /\ counter \in UInt64 /\ threshold \in UInt64
        /\ counter' \in UInt64 /\ threshold' \in UInt64
    BY <1>1, TypeStep DEF TypeOK, InstanceTypeOK
  <2> QED
    BY <2>1, AllowanceTyped DEF Allowance
<1>4. CASE frame' = "none"
  BY <1>2, <1>4 DEF StepsLeft
<1>5. CASE frame' = "returned" /\ frame \in {"entry", "body"}
  BY <1>1, <1>3, <1>5 DEF StepsLeft
<1>6. CASE frame = "entry" /\ frame' = "body"
  BY <1>1, <1>3, <1>6 DEF StepsLeft
<1>7. ASSUME NEW k \in Costs, Charge(k), frame' = "body"
      PROVE  StepsLeft' < StepsLeft
  <2>1. Within(counter') /\ frame = "body"
    BY <1>7 DEF Charge, CounterExceed, Raise
  <2>2. Allowance' < Allowance
    BY <1>7, <2>1, ChargeUsesAllowance
  <2> QED
    BY <1>3, <1>7, <2>1, <2>2 DEF StepsLeft
<1>8. \/ frame' = "none"
      \/ frame' = "returned" /\ frame \in {"entry", "body"}
      \/ frame = "entry" /\ frame' = "body"
      \/ \E k \in Costs : Charge(k) /\ frame' = "body"
  BY DEF Next, CallStep, GuestStep, Guest, Running, Idle, RunPlain,
     RunInstrumented, ResetThresholdAndCounter, ExecFails, RunPlainReturns,
     RunInstrumentedReturns, LeaveCall, PlainMain, InjectedMain,
     InjectedMainRefuses, GuestReturn, Charge, CounterExceed, Raise, Exit,
     Trap, MainReturns
<1> QED
  BY <1>4, <1>5, <1>6, <1>7, <1>8

\* Every step of a call leaves fewer of them: what CallCompletes needs of the
\* steps, and fairness makes of it that the call comes back.
THEOREM CallsProgress == Spec => [][Running => StepsLeft' < StepsLeft]_vars
<1>1. IInv /\ [Next]_vars => [Running => StepsLeft' < StepsLeft]_vars
  BY CallStepProgress
<1> QED
  BY Invariance, <1>1, PTL DEF Spec
=============================================================================
