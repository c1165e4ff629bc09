--------------------------- MODULE BenchmarkClock ---------------------------
(***************************************************************************)
(* How a benchmark is timed: decent_wasm_start_benchmark and               *)
(* decent_wasm_stop_benchmark (src/DecentWasmNatives.cpp) on the start     *)
(* time that ExecEnvUserData keeps from call to call, and a clock outside  *)
(* the enclave that runs, wraps around, and may be set by its host.        *)
(* The guests of test/polybench start their clock, compute, and stop it;   *)
(* the natives serve any guest, also one that stops what it did not start. *)
(***************************************************************************)
EXTENDS Integers

CONSTANTS
  Modulus,  \* the number of values of uint64_t
  Steps     \* how far the clock may run between two events

ASSUME ModulusAssumption == Modulus \in Nat \ {0}
ASSUME StepsAssumption   == Steps \subseteq 1 .. Modulus - 1

VARIABLES
  inEnclave,   \* the clock is read by an OCALL, which may fail; fixed
  paired,      \* the guest starts, computes and stops in each call; fixed
  clock,       \* microseconds of std::chrono::system_clock
  m_startTime, \* ExecEnvUserData::m_startTime
  guest,       \* the guest is not called ("host"), or where it is
  report,      \* the last duration this call has printed, or NoReport
  fresh,       \* history: the start time was taken in this call
  elapsed,     \* history: time since m_startTime, Modulus for any longer
  wasSet       \* history: the host has set the clock since then

fixed == <<inEnclave, paired>>
vars == <<fixed, clock, m_startTime, guest, report, fresh, elapsed, wasSet>>

UInt64 == 0 .. Modulus - 1
Times  == 0 .. Modulus

\* A duration with the history it is judged by.
Reports ==
  [duration : UInt64, fresh : BOOLEAN, elapsed : Times, wasSet : BOOLEAN]

NoReport == [duration |-> 0, fresh |-> TRUE, elapsed |-> 0, wasSet |-> FALSE]

TypeOK ==
  /\ inEnclave   \in BOOLEAN
  /\ paired      \in BOOLEAN
  /\ clock       \in UInt64
  /\ m_startTime \in UInt64
  /\ guest       \in {"host", "begin", "kernel", "end"}
  /\ report      \in Reports
  /\ fresh       \in BOOLEAN
  /\ elapsed     \in Times
  /\ wasSet      \in BOOLEAN

\* A new ExecEnvUserData, at any time of the clock: until there is a start,
\* m_startTime is the zero of the clock.
Init ==
  /\ inEnclave \in BOOLEAN
  /\ paired \in BOOLEAN
  /\ clock \in UInt64
  /\ m_startTime = 0
  /\ guest = "host"
  /\ report = NoReport
  /\ fresh = FALSE
  /\ elapsed = clock
  /\ wasSet = FALSE

-----------------------------------------------------------------------------
(* The clock.                                                              *)

Later(x, d) == IF x + d < Modulus THEN x + d ELSE x + d - Modulus

\* Time passes.
Tick(d) ==
  /\ clock' = Later(clock, d)
  /\ elapsed' = IF elapsed + d < Modulus THEN elapsed + d ELSE Modulus
  /\ UNCHANGED <<fixed, m_startTime, guest, report, fresh, wasSet>>

\* The host sets the clock, which is not the enclave's.
SetClock(c) ==
  /\ clock' = c
  /\ wasSet' = TRUE
  /\ UNCHANGED <<fixed, m_startTime, guest, report, fresh, elapsed>>

-----------------------------------------------------------------------------
(* A call.                                                                 *)

\* RunPlain or RunInstrumented enters the guest.
Call ==
  /\ guest = "host"
  /\ guest' = "begin"
  /\ report' = NoReport
  /\ fresh' = FALSE
  /\ UNCHANGED <<fixed, clock, m_startTime, elapsed, wasSet>>

\* GetTimestampUs throws: the native sets an exception, which ends the guest.
TimestampFails ==
  /\ inEnclave
  /\ guest' = "host"
  /\ UNCHANGED <<fixed, clock, m_startTime, report, fresh, elapsed, wasSet>>

\* SetStartTime(GetTimestampUs()).
TakeStart ==
  /\ m_startTime' = clock
  /\ guest' = "kernel"
  /\ fresh' = TRUE
  /\ elapsed' = 0
  /\ wasSet' = FALSE
  /\ UNCHANGED <<fixed, clock, report>>

\* A variant of StartBenchmark that keeps the failure from the guest.
StartBenchmarkQuietly ==
  /\ guest # "host"
  /\ paired => guest = "begin"
  /\ \/ TakeStart
     \/ /\ inEnclave
        /\ guest' = "kernel"
        /\ UNCHANGED <<fixed, clock, m_startTime, report, fresh,
                       elapsed, wasSet>>

\* decent_wasm_start_benchmark.
StartBenchmark ==
  /\ guest # "host"
  /\ paired => guest = "begin"
  /\ \/ TakeStart
     \/ TimestampFails

\* A variant of Duration in signed integers.
DurationSigned(end, start) == end - start

\* A variant that takes a clock that has wrapped around for one set back.
DurationSaturated(end, start) == IF end >= start THEN end - start ELSE 0

\* endUs - startUs of two uint64_t.
Duration(end, start) ==
  IF end >= start THEN end - start ELSE end - start + Modulus

\* decent_wasm_stop_benchmark, which takes m_startTime as it is.
StopBenchmark ==
  /\ guest # "host"
  /\ paired => guest = "kernel"
  /\ \/ /\ report' = [duration |-> Duration(clock, m_startTime),
                      fresh |-> fresh, elapsed |-> elapsed, wasSet |-> wasSet]
        /\ guest' = "end"
        /\ UNCHANGED <<fixed, clock, m_startTime, fresh, elapsed,
                       wasSet>>
     \/ TimestampFails

\* The guest traps, exits, or exceeds its threshold.
Aborts ==
  /\ guest # "host"
  /\ guest' = "host"
  /\ UNCHANGED <<fixed, clock, m_startTime, report, fresh, elapsed, wasSet>>

\* The guest returns.
Returns ==
  /\ guest # "host"
  /\ paired => guest = "end"
  /\ guest' = "host"
  /\ UNCHANGED <<fixed, clock, m_startTime, report, fresh, elapsed,
                 wasSet>>

Next ==
  \/ \E d \in Steps : Tick(d)
  \/ \E c \in UInt64 : SetClock(c)
  \/ Call
  \/ StartBenchmark
  \/ StopBenchmark
  \/ Aborts
  \/ Returns

Spec == Init /\ [][Next]_vars

-----------------------------------------------------------------------------
(* Properties.                                                             *)

\* The start time outlives the call on the ExecEnv, and taking it may fail: a
\* guest that stops only what it has started still never has a duration
\* printed for an interval that began in an earlier call.
IntervalInOwnCall == paired => report.fresh

\* Whenever a guest stops, in whichever call the last start was, and without
\* any, the duration is the time that has passed since m_startTime, also when
\* the clock has wrapped around: unless the host has set the clock in between,
\* or the clock has gone around more than once.
DurationIsElapsed ==
  ~report.wasSet /\ report.elapsed < Modulus => report.duration = report.elapsed
=============================================================================
