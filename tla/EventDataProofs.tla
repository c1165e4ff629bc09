--------------------------- MODULE EventDataProofs ---------------------------
(***************************************************************************)
(* Proofs about BenchmarkClock, for every width of uint64_t and any speed  *)
(* of the clock, and about EventData, for events of any size and any width *)
(* of uint32_t.                                                            *)
(***************************************************************************)
EXTENDS EventData, TLAPS

-----------------------------------------------------------------------------
(* The clock and the start time.                                           *)

\* While a guest computes that stops only what it starts, the start time is
\* its own.
KernelIsTimed == paired /\ guest = "kernel" => fresh

\* The clock is elapsed later than m_startTime, unless it was set or has gone
\* around.
ClockIsAhead ==
  ~wasSet /\ elapsed < Modulus => clock = Later(m_startTime, elapsed)

CInv ==
  /\ TypeOK
  /\ KernelIsTimed
  /\ ClockIsAhead
  /\ IntervalInOwnCall
  /\ DurationIsElapsed

\* Later stays within the width.
LEMMA LaterTyped ==
  ASSUME NEW x \in UInt64, NEW d \in UInt64
  PROVE  Later(x, d) \in UInt64
BY ModulusAssumption DEF Later, UInt64

\* Two steps of the clock are one, if together they are less than a round.
LEMMA LaterTwice ==
  ASSUME NEW x \in UInt64, NEW d \in Times, NEW e \in Times, d + e < Modulus
  PROVE  Later(Later(x, d), e) = Later(x, d + e)
BY ModulusAssumption DEF Later, UInt64, Times

\* The difference of two readings is what lies between them.
LEMMA DurationOfLater ==
  ASSUME NEW x \in UInt64, NEW d \in UInt64
  PROVE  Duration(Later(x, d), x) = d
BY ModulusAssumption DEF Later, Duration, UInt64

\* A difference of two readings is a uint64_t.
LEMMA DurationTyped ==
  ASSUME NEW x \in UInt64, NEW y \in UInt64
  PROVE  Duration(x, y) \in UInt64
BY ModulusAssumption DEF Duration, UInt64

\* Initially nothing is timed and nothing reported.
LEMMA InitCInv == Init => CInv
<1>1. 0 \in UInt64 /\ 0 \in Times
  BY ModulusAssumption DEF UInt64, Times
<1>2. NoReport \in Reports /\ NoReport.fresh
      /\ NoReport.duration = NoReport.elapsed
  BY <1>1 DEF NoReport, Reports
<1> SUFFICES ASSUME Init PROVE CInv
  OBVIOUS
<1>3. TypeOK
  <2>1. UInt64 \subseteq Times
    BY ModulusAssumption DEF UInt64, Times
  <2> QED
    BY <1>1, <1>2, <2>1 DEF Init, TypeOK
<1>4. IntervalInOwnCall /\ DurationIsElapsed
  BY <1>2 DEF Init, IntervalInOwnCall, DurationIsElapsed
<1>5. KernelIsTimed /\ ClockIsAhead
  <2>1. clock = Later(0, clock)
    BY ModulusAssumption DEF Init, Later, UInt64
  <2> QED
    BY <2>1 DEF Init, KernelIsTimed, ClockIsAhead
<1> QED
  BY <1>3, <1>4, <1>5 DEF CInv

\* Every step keeps the invariant.
LEMMA NextCInv == CInv /\ [Next]_vars => CInv'
<1> SUFFICES ASSUME CInv, [Next]_vars PROVE CInv'
  OBVIOUS
<1> USE DEF CInv, fixed
<1>0. 0 \in UInt64 /\ 0 \in Times
  BY ModulusAssumption DEF UInt64, Times
<1>1. ASSUME NEW d \in Steps, Tick(d)
      PROVE  CInv'
  <2>1. d \in UInt64 /\ d \in Times /\ d \in Nat /\ elapsed \in Nat
    BY StepsAssumption, ModulusAssumption DEF UInt64, Times, TypeOK
  <2>2. clock' \in UInt64
    BY <1>1, <2>1, LaterTyped DEF Tick, TypeOK
  <2>3. elapsed' \in Times
    BY <1>1, <2>1, ModulusAssumption DEF Tick, Times
  <2>4. TypeOK'
    BY <1>1, <2>2, <2>3 DEF Tick, TypeOK
  <2>5. ClockIsAhead'
    <3> SUFFICES ASSUME ~wasSet, elapsed' < Modulus
                 PROVE  clock' = Later(m_startTime, elapsed')
      BY <1>1 DEF ClockIsAhead, Tick
    <3>1. elapsed + d < Modulus /\ elapsed' = elapsed + d
      BY <1>1, ModulusAssumption DEF Tick
    <3>2. clock = Later(m_startTime, elapsed)
      BY <2>1, <3>1, ModulusAssumption DEF ClockIsAhead
    <3> QED
      BY <1>1, <2>1, <3>1, <3>2, LaterTwice DEF Tick, TypeOK
  <2> QED
    BY <1>1, <2>4, <2>5 DEF Tick, KernelIsTimed, IntervalInOwnCall,
                            DurationIsElapsed
<1>2. ASSUME NEW c \in UInt64, SetClock(c)
      PROVE  CInv'
  BY <1>2 DEF SetClock, TypeOK, KernelIsTimed, ClockIsAhead,
              IntervalInOwnCall, DurationIsElapsed
<1>3. CASE Call
  BY <1>0, <1>3 DEF Call, NoReport, Reports, TypeOK, KernelIsTimed,
                    ClockIsAhead, IntervalInOwnCall, DurationIsElapsed
<1>4. CASE TimestampFails
  BY <1>4 DEF TimestampFails, TypeOK, KernelIsTimed, ClockIsAhead,
              IntervalInOwnCall, DurationIsElapsed
<1>5. CASE TakeStart
  <2>1. Later(clock, 0) = clock
    BY ModulusAssumption DEF Later, TypeOK, UInt64
  <2> QED
    BY <1>0, <1>5, <2>1 DEF TakeStart, TypeOK, KernelIsTimed, ClockIsAhead,
                            IntervalInOwnCall, DurationIsElapsed
<1>6. CASE StartBenchmark
  BY <1>4, <1>5, <1>6 DEF StartBenchmark
<1>7. CASE StopBenchmark
  <2>1. SUFFICES ASSUME
            paired => guest = "kernel",
            report' = [duration |-> Duration(clock, m_startTime),
                       fresh |-> fresh, elapsed |-> elapsed, wasSet |-> wasSet],
            guest' = "end",
            UNCHANGED <<fixed, clock, m_startTime, fresh, elapsed, wasSet>>
        PROVE  CInv'
    BY <1>4, <1>7 DEF StopBenchmark
  <2>2. Duration(clock, m_startTime) \in UInt64
    BY DurationTyped DEF TypeOK
  <2>3. TypeOK'
    BY <2>1, <2>2 DEF TypeOK, Reports
  <2>4. paired => fresh
    BY <2>1 DEF KernelIsTimed
  <2>5. ~wasSet /\ elapsed < Modulus => Duration(clock, m_startTime) = elapsed
    <3>1. elapsed < Modulus => elapsed \in UInt64
      BY ModulusAssumption DEF TypeOK, Times, UInt64
    <3> QED
      BY <3>1, DurationOfLater DEF ClockIsAhead, TypeOK
  <2>6. IntervalInOwnCall' /\ DurationIsElapsed'
    BY <2>1, <2>4, <2>5 DEF IntervalInOwnCall, DurationIsElapsed
  <2> QED
    BY <2>1, <2>3, <2>6 DEF KernelIsTimed, ClockIsAhead
<1>8. CASE Aborts
  BY <1>8 DEF Aborts, TypeOK, KernelIsTimed, ClockIsAhead,
              IntervalInOwnCall, DurationIsElapsed
<1>9. CASE Returns
  BY <1>9 DEF Returns, TypeOK, KernelIsTimed, ClockIsAhead,
              IntervalInOwnCall, DurationIsElapsed
<1>10. CASE UNCHANGED vars
  BY <1>10 DEF vars, TypeOK, KernelIsTimed, ClockIsAhead,
               IntervalInOwnCall, DurationIsElapsed
<1> QED
  BY <1>1, <1>2, <1>3, <1>6, <1>7, <1>8, <1>9, <1>10 DEF Next

\* The invariant on clock, start time and reports.
THEOREM ClockInvariance == Spec => []CInv
BY InitCInv, NextCInv, PTL DEF Spec

\* Every duration a guest of the benchmark has printed began in its own call.
THEOREM IntervalsAreOwn == Spec => []IntervalInOwnCall
<1>1. CInv => IntervalInOwnCall
  BY DEF CInv
<1> QED
  BY ClockInvariance, <1>1, PTL

\* Every printed duration is the time that passed since m_startTime, whatever
\* the guest, the width of the clock and wherever it stood.
THEOREM DurationsAreTrue == Spec => []DurationIsElapsed
<1>1. CInv => DurationIsElapsed
  BY DEF CInv
<1> QED
  BY ClockInvariance, <1>1, PTL

-----------------------------------------------------------------------------
(* The event.                                                              *)

\* An event in place is one whose size the guest can tell.
EventFits == event \in [Fields -> UInt32]

\* Between a call and its end the guest was told the sizes as they are.
ToldTrue == guest # "host" => told = event

\* Each buffer holds a copy of the event, unless none was asked for.
CopiesTrue ==
  guest # "host" =>
    \A f \in Fields :
      \/ buffer[f] = NoBuffer
      \/ /\ buffer[f].answer = event[f]
         /\ buffer[f].written = CopySize(buffer[f].len, event[f])

EInv ==
  /\ EventFits
  /\ told \in [Fields -> UInt32]
  /\ buffer \in [Fields -> Buffers]
  /\ ToldTrue
  /\ CopiesTrue

\* The size of an event that was accepted is told as it is.
LEMMA NarrowKeeps ==
  ASSUME NEW n \in UInt32
  PROVE  Narrow(n) = n
BY WasmModulusAssumption DEF Narrow, UInt32

LEMMA InitialEvent == EventInit => EInv
<1> SUFFICES ASSUME EventInit PROVE EInv
  OBVIOUS
<1>1. 0 \in UInt32
  BY WasmModulusAssumption DEF UInt32
<1>2. NoBuffer \in Buffers
  BY <1>1 DEF NoBuffer, Buffers
<1> QED
  BY <1>1, <1>2 DEF EventInit, Init, EInv, EventFits, ToldTrue, CopiesTrue

LEMMA EventNextKeepsInv == EInv /\ [EventNext]_userDataVars => EInv'
<1> SUFFICES ASSUME EInv, [EventNext]_userDataVars PROVE EInv'
  OBVIOUS
<1> USE DEF EInv
<1>1. \A f \in Fields : event[f] \in UInt32 /\ Narrow(event[f]) = event[f]
  BY NarrowKeeps DEF EventFits
<1>2. CASE TimingStep
  <2>1. guest' # "host" => guest # "host"
    BY <1>2 DEF TimingStep, Tick, SetClock, StartBenchmark, TakeStart,
                TimestampFails, StopBenchmark, Aborts, Returns
  <2> QED
    BY <1>2, <2>1 DEF TimingStep, eventVars, EventFits, ToldTrue, CopiesTrue
<1>3. CASE CallWithSizes
  <2>1. told' = event
    BY <1>1, <1>3 DEF CallWithSizes, EventFits
  <2>2. NoBuffer \in Buffers
    BY WasmModulusAssumption DEF NoBuffer, Buffers, UInt32
  <2> QED
    BY <1>3, <2>1, <2>2 DEF CallWithSizes, EventFits, ToldTrue, CopiesTrue
<1>4. ASSUME NEW f \in Fields, NEW n \in Sizes, SetEvent(f, n)
      PROVE  EInv'
  <2>1. n \in UInt32
    BY <1>4, EventSizesAssumption, WasmModulusAssumption DEF SetEvent, UInt32
  <2> QED
    BY <1>4, <2>1 DEF SetEvent, vars, EventFits, ToldTrue, CopiesTrue
<1>5. ASSUME NEW f \in Fields, GetEventLen(f)
      PROVE  EInv'
  <2>1. told' = event
    BY <1>1, <1>5 DEF GetEventLen, ToldTrue, EventFits
  <2> QED
    BY <1>5, <2>1 DEF GetEventLen, vars, EventFits, ToldTrue, CopiesTrue
<1>6. ASSUME NEW f \in Fields, NEW len \in Lens, GetEvent(f, len)
      PROVE  EInv'
  <2> DEFINE new == [len |-> len, written |-> CopySize(len, event[f]),
                     answer |-> Narrow(event[f])]
  <2>1. new \in Buffers
    BY <1>1, LensAssumption, WasmModulusAssumption DEF Buffers, CopySize, UInt32
  <2>2. buffer' = [buffer EXCEPT ![f] = new]
    BY <1>6 DEF GetEvent
  <2>3. UNCHANGED <<event, told, guest>>
    BY <1>6 DEF GetEvent, vars
  <2>4. buffer'[f] = new /\ \A g \in Fields \ {f} : buffer'[g] = buffer[g]
    BY <2>2
  <2>5. CopiesTrue'
    BY <1>1, <2>3, <2>4 DEF CopiesTrue
  <2> QED
    BY <2>1, <2>2, <2>3, <2>5 DEF EventFits, ToldTrue
<1>7. CASE UNCHANGED userDataVars
  BY <1>7 DEF userDataVars, vars, eventVars, EventFits, ToldTrue, CopiesTrue
<1> QED
  BY <1>2, <1>3, <1>4, <1>5, <1>6, <1>7 DEF EventNext

\* The invariant on the event, what the guest was told of it and its copies.
THEOREM EventInvariance == EventSpec => []EInv
BY InitialEvent, EventNextKeepsInv, PTL DEF EventSpec

\* A guest whose buffer has room for the size it was told has the event whole,
\* for any width of uint32_t and events of any size.
THEOREM EventsAreWhole == EventSpec => []RoomMeansWhole
<1>1. EInv => RoomMeansWhole
  <2> SUFFICES ASSUME EInv, NEW f \in Fields, guest # "host",
                      buffer[f] # NoBuffer
               PROVE  /\ buffer[f].written <= buffer[f].len
                      /\ \/ told[f] <= buffer[f].len
                         \/ buffer[f].answer <= buffer[f].len
                         => buffer[f].written = event[f]
    BY DEF RoomMeansWhole
  <2>1. buffer[f].len \in Nat /\ event[f] \in Nat
    BY DEF EInv, EventFits, Buffers, UInt32
  <2>2. /\ told[f] = event[f] /\ buffer[f].answer = event[f]
        /\ buffer[f].written = CopySize(buffer[f].len, event[f])
    BY DEF EInv, ToldTrue, CopiesTrue
  <2> QED
    BY <2>1, <2>2 DEF CopySize
<1> QED
  BY <1>1, EventInvariance, PTL

\* The clock and the start time behave as if there were no event, so that what
\* is proved of them holds here.
THEOREM EventKeepsTime == EventSpec => Spec
<1>1. EventInit => Init
  BY DEF EventInit
<1>2. [EventNext]_userDataVars => [Next]_vars
  BY DEF EventNext, TimingStep, CallWithSizes, SetEvent, GetEventLen, GetEvent,
         Next, userDataVars
<1> QED
  BY <1>1, <1>2, PTL DEF EventSpec, Spec

\* What a guest of the benchmark stops began in its own call, whatever it does with
\* its event.
THEOREM IntervalsStayOwn == EventSpec => []IntervalInOwnCall
BY EventKeepsTime, IntervalsAreOwn, PTL

\* Every printed duration is the time that passed, whatever the guest does with
\* its event.
THEOREM DurationsStayTrue == EventSpec => []DurationIsElapsed
BY EventKeepsTime, DurationsAreTrue, PTL

\* All state keeps its type: sizes and times never leave their widths.
THEOREM UserDataTyped == EventSpec => []EventTypeOK
<1>1. EInv /\ CInv => EventTypeOK
  BY DEF EInv, CInv, EventTypeOK, EventFits, UInt32
<1> QED
  BY <1>1, EventInvariance, EventKeepsTime, ClockInvariance, PTL
=============================================================================
