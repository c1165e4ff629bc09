-------------------------- MODULE DecentMainProofs --------------------------
(***************************************************************************)
(* Proofs about DecentMain, for any number of iterations, any two modules  *)
(* and every failure on the way.                                           *)
(***************************************************************************)
EXTENDS DecentMain, MainRunnerProofs

-----------------------------------------------------------------------------
(* The inductive invariant.                                                *)

Sites == {"Untrusted", "Enclave"}

\* The measurements of each type of run there is a list for.
Results ==
  { r \in [Envs -> UNION {[PTypesOf(e) -> Seq(Seq(Nat))] : e \in Envs}] :
      \A e \in Envs : r[e] \in [PTypesOf(e) -> Seq(Seq(Nat))] }

\* The states of the parser.
Parsers ==
  [ res          : Results,
    currEnv      : Envs \cup {""},
    currPType    : PTypes \cup {""},
    measurements : Seq(Nat),
    raised       : BOOLEAN ]

MainTyped ==
  /\ files \in [plain : PlainModules, instrumented : InstrumentedModules]
  /\ benchmark \in BOOLEAN
  /\ env       \in Sites
  /\ ptype     \in PTypes
  /\ at        \in Places
  /\ iteration \in 0 .. Repeat
  /\ timed     \in BOOLEAN
  /\ lost      \in BOOLEAN
  /\ result    \in [Sites -> {"none", "true", "false"}]
  /\ exitCode  \in {"none", "success", "failure"}
  /\ parser    \in Parsers

\* A call of the runner is under way, or refused, exactly at its place in the
\* loop, and a benchmark that is let go with success has stopped its clock.
CallInPlace ==
  /\ Running => at = "call"
  /\ at \in {"call", "reset"} => iteration < Repeat
  /\ at = "reset" => ptype = "instrumented"
  /\ at = "call" =>
       /\ call = IF ptype = "plain" THEN "RunPlain" ELSE "RunInstrumented"
       /\ outcome \in {"pending", "threw"}
       /\ benchmark /\ frame = "returned" /\ execRes => timed

\* An instrumented iteration begins with both globals reset, so its counter
\* starts from 0 and no guard keeps the guest from running.
IterationIsFresh ==
  ptype = "instrumented" =>
    /\ at = "loop" => counter = 0 /\ threshold = 0
    /\ at = "call" =>
         /\ carried = 0
         /\ frame = "entry" => threshold = 0
         /\ frame = "body" \/ (frame = "returned" /\ execRes) => ran

IterationVerdicts == InstrumentedCallRan /\ ReportIsOwnWork

InProgram == at \in {"construct", "loop", "call", "reset"}

AtRest(s) == s.currEnv = "" /\ s.currPType = "" /\ s.measurements = <<>>
Resting == AtRest(parser)

\* The iterations of a run that the output has complete.
Finished(e, p) ==
  IF e # env THEN IF e = "Untrusted" THEN Repeat ELSE 0
  ELSE IF p # ptype THEN IF p = "plain" THEN Repeat ELSE 0
  ELSE IF at = "construct" THEN 0 ELSE iteration

\* A parser has the first n iterations of a run, in order.
Counted(s, e, p, n) ==
  /\ Len(s.res[e][p]) = n
  /\ \A i \in 1 .. n :
       /\ Len(s.res[e][p][i]) = IF p = "plain" THEN 1 ELSE 2
       /\ s.res[e][p][i][1] = i

\* The parser has every line so far and has refused none.
Intact == ~lost /\ ~parser.raised

\* While the program runs, the parser has understood the output it got; it
\* refuses none of a benchmark's before a line is lost.
OutputUnderstood ==
  InProgram =>
    /\ exitCode = "none"
    /\ benchmark => lost \/ Intact
    /\ Intact =>
         /\ \A e \in Sites, p \in PTypes : Counted(parser, e, p, Finished(e, p))
         /\ at \in {"construct", "loop"} => Resting
         /\ at \in {"call", "reset"} =>
              parser.currEnv = env /\ parser.currPType = ptype
         /\ at = "call" =>
              parser.measurements = IF timed THEN <<iteration + 1>> ELSE <<>>
         /\ at = "reset" =>
              /\ Len(parser.measurements) = 2
              /\ parser.measurements[1] = iteration + 1

Whole(e, p) == parser.res[e][p] = <<>> \/ Measured(e, p)

\* Only the enclave loses lines, and DecentWasmMain gets there after all of its
\* iterations outside, whose measurements stay what they are.
UntrustedSecured ==
  /\ lost => env = "Enclave"
  /\ exitCode = "success" => env = "Enclave" /\ result["Enclave"] # "none"
  /\ env = "Enclave" => result["Untrusted"] = "true"
  /\ env = "Enclave" /\ (benchmark \/ ~parser.raised) =>
       \A p \in PTypes : Measured("Untrusted", p)

\* Behind exit code 0 the output of the enclave, as far as none is lost, is
\* either whole or ends within a run.
ExitJudged ==
  at = "exit" =>
    /\ exitCode # "none"
    /\ exitCode = "success" =>
         /\ Intact /\ Resting => \A p \in PTypes : Whole("Enclave", p)
         /\ benchmark => lost \/ Intact
         /\ Intact /\ result["Enclave"] = "true" =>
              Resting /\ \A p \in PTypes : Measured("Enclave", p)

\* The verdict of the script.
ScriptJudged ==
  /\ at = "failed" => exitCode = "failure"
  /\ at = "parsed" => exitCode = "success"
  /\ AcceptedRunnersAreWhole
  /\ CompleteRunsAreAccepted

DInv ==
  /\ IInv
  /\ MainTyped
  /\ CallInPlace
  /\ IterationIsFresh
  /\ IterationVerdicts
  /\ OutputUnderstood
  /\ UntrustedSecured
  /\ ExitJudged
  /\ ScriptJudged

\* What a step leaves alone is read through these two names everywhere.
USE DEF fixed, output

-----------------------------------------------------------------------------
(* The parser, line by line.                                               *)

\* The parsers of two states differ in these fields only.
Keeps(s, t) == t.res = s.res /\ t \in Parsers

\* A start line opens a run if the last one was finished, and is refused if not.
LEMMA StartLineParsed ==
  ASSUME NEW s \in Parsers, NEW e \in Envs, NEW p \in PTypes
  PROVE  LET t == Parse(s, StartLine(e, p)) IN
           /\ Keeps(s, t)
           /\ s.raised => t.raised
           /\ ~t.raised <=> ~s.raised /\ AtRest(s)
           /\ ~t.raised =>
                t.currEnv = e /\ t.currPType = p /\ t.measurements = <<>>
BY DEF Parse, StartLine, TryParseStartLine, Raised, Keeps, Parsers, AtRest

\* A time line is the first measurement of the run in its environment.
LEMMA TimeLineParsed ==
  ASSUME NEW s \in Parsers, NEW e \in Envs, NEW n \in Nat
  PROVE  LET t == Parse(s, TimeLine(e, n)) IN
           /\ Keeps(s, t)
           /\ s.raised => t.raised
           /\ ~s.raised /\ s.measurements = <<>> /\ s.currEnv = e =>
                /\ ~t.raised
                /\ t.currEnv = s.currEnv /\ t.currPType = s.currPType
                /\ t.measurements = <<n>>
           /\ s.measurements # <<>> => t.raised
           /\ t = s \/ (~s.raised /\ t.raised)
                \/ (s.measurements = <<>> /\ t.measurements # <<>>)
           /\ s.measurements # <<>> => t.measurements # <<>>
<1> DEFINE t == Parse(s, TimeLine(e, n))
           new == [s EXCEPT !.measurements = <<n>>]
<1>1. <<n>> \in Seq(Nat)
  OBVIOUS
<1>2. new \in Parsers /\ new.measurements = <<n>> /\ new.res = s.res
      /\ new.currEnv = s.currEnv /\ new.currPType = s.currPType
      /\ new.raised = s.raised
  BY <1>1 DEF Parsers
<1>3. Raised(s) \in Parsers /\ Raised(s).raised /\ Raised(s).res = s.res
  BY DEF Parsers, Raised
<1>6. Raised(s).measurements = s.measurements /\ new.measurements # <<>>
  BY <1>2 DEF Parsers, Raised
<1>4. t = IF s.raised THEN s
          ELSE IF s.measurements = <<>> /\ s.currEnv = e THEN new ELSE Raised(s)
  BY DEF Parse, TimeLine, TryParseTimeLine
<1> HIDE DEF t, new
<1>5. /\ Keeps(s, t)
      /\ s.raised => t.raised
      /\ ~s.raised /\ s.measurements = <<>> /\ s.currEnv = e => t = new
      /\ s.measurements # <<>> => t.raised /\ t.measurements # <<>>
      /\ t = s \/ (~s.raised /\ t.raised)
           \/ (s.measurements = <<>> /\ t.measurements # <<>>)
  BY <1>2, <1>3, <1>4, <1>6 DEF Keeps
<1> QED
  BY <1>2, <1>5 DEF t

\* A counter line is the second, of an instrumented run.
LEMMA CounterLineParsed ==
  ASSUME NEW s \in Parsers, NEW e \in Envs, NEW n \in Nat, NEW k \in Nat
  PROVE  LET t == Parse(s, CounterLine(e, n)) IN
           /\ Keeps(s, t)
           /\ s.raised => t.raised
           /\ /\ ~s.raised /\ s.measurements = <<k>> /\ s.currEnv = e
              /\ s.currPType = "instrumented"
              => /\ ~t.raised
                 /\ t.currEnv = s.currEnv /\ t.currPType = s.currPType
                 /\ Len(t.measurements) = 2 /\ t.measurements[1] = k
           /\ s.measurements = <<>> => t.raised
<1>1. s.measurements \in Seq(Nat)
  BY DEF Parsers
<1>2. Append(s.measurements, n) \in Seq(Nat)
  BY <1>1
<1>3. s.measurements = <<k>> =>
        /\ Len(s.measurements) = 1
        /\ Len(Append(s.measurements, n)) = 2
        /\ Append(s.measurements, n)[1] = k
  BY <1>1
<1>4. s.measurements = <<>> => Len(s.measurements) # 1
  OBVIOUS
<1> QED
  BY <1>2, <1>3, <1>4
  DEF Parse, CounterLine, TryParseCounterLine, Raised, Keeps, Parsers

\* The run a parser is in, if it is one of type p in e and measured.
Closable(s, e, p) ==
  /\ p \in PTypesOf(e)
  /\ ~s.raised /\ s.currEnv = e /\ s.currPType = p
  /\ s.measurements # <<>>
  /\ p = "instrumented" => Len(s.measurements) = 2

\* An end line moves the measurements of the run to the results of its type.
LEMMA EndLineParsed ==
  ASSUME NEW s \in Parsers, NEW e \in Envs, NEW p \in PTypes
  PROVE  LET t == Parse(s, EndLine(e, p)) IN
           /\ t \in Parsers
           /\ \A f \in Envs : \A q \in PTypesOf(f) :
                f # e \/ q # p => t.res[f][q] = s.res[f][q]
           /\ s.raised => t.raised
           /\ s.measurements = <<>> => t.raised
           /\ Closable(s, e, p) =>
                /\ ~t.raised
                /\ AtRest(t)
                /\ t.res[e][p] = Append(s.res[e][p], s.measurements)
<1> DEFINE t == Parse(s, EndLine(e, p))
           u == Append(s.res[e][p], s.measurements)
           r == [s.res EXCEPT ![e][p] = u]
<1>1. s.res \in Results /\ s.measurements \in Seq(Nat)
  BY DEF Parsers
<1>4. CASE s.raised
  BY <1>4 DEF Parse, Closable
<1>5. CASE Closable(s, e, p)
  <2>0. p \in PTypesOf(e)
    BY <1>5 DEF Closable
  <2>1. u \in Seq(Seq(Nat))
    BY <1>1, <2>0 DEF Results
  <2>2. /\ r \in Results
        /\ r[e][p] = u
        /\ \A f \in Envs : \A q \in PTypesOf(f) :
             f # e \/ q # p => r[f][q] = s.res[f][q]
    <3> HIDE DEF u
    <3> DEFINE v == [s.res[e] EXCEPT ![p] = u]
    <3>1. /\ s.res[e] \in [PTypesOf(e) -> Seq(Seq(Nat))]
          /\ v \in [PTypesOf(e) -> Seq(Seq(Nat))]
          /\ v[p] = u
          /\ \A q \in PTypesOf(e) : q # p => v[q] = s.res[e][q]
      BY <1>1, <2>0, <2>1 DEF Results
    <3>2. r = [s.res EXCEPT ![e] = v]
      BY <1>1 DEF Results
    <3> HIDE DEF v, r
    <3>3. r[e] = v /\ \A f \in Envs : f # e => r[f] = s.res[f]
      BY <1>1, <3>2 DEF Results
    <3>4. r \in Results
      BY <1>1, <3>1, <3>2, <3>3 DEF Results
    <3> QED
      BY <3>1, <3>3, <3>4
  <2>3. t = [s EXCEPT !.res = r, !.currEnv = "", !.currPType = "", !.measurements = <<>>]
    BY <1>5 DEF Parse, EndLine, TryParseEndLine, Parsers, Closable
  <2> HIDE DEF r, t
  <2>4. t.res = r /\ AtRest(t) /\ t.raised = s.raised
    BY <2>3 DEF Parsers, AtRest
  <2>5. t \in [res : Results, currEnv : {""},
               currPType : {""}, measurements : {<<>>}, raised : BOOLEAN]
    BY <2>2, <2>3 DEF Parsers
  <2>6. <<>> \in Seq(Nat)
    OBVIOUS
  <2>7. t \in Parsers
    BY <2>5, <2>6 DEF Parsers
  <2>8. ~s.raised /\ s.measurements # <<>>
    BY <1>5 DEF Closable
  <2> QED
    BY <2>2, <2>4, <2>7, <2>8 DEF t
<1>6. CASE ~s.raised /\ ~Closable(s, e, p)
  <2>1. t = Raised(s)
    BY <1>6 DEF Parse, EndLine, TryParseEndLine, Closable
  <2> HIDE DEF t
  <2>2. t \in Parsers /\ t.res = s.res /\ t.raised
    BY <2>1 DEF Raised, Parsers
  <2> QED
    BY <1>6, <2>2 DEF t
<1> QED
  BY <1>4, <1>5, <1>6

-----------------------------------------------------------------------------
(* Types.                                                                  *)

\* A conclusion moves to a place of the program.
LEMMA ConclusionTyped ==
  ASSUME MainTyped, NEW success \in BOOLEAN, Conclude(success)
  PROVE  /\ env' \in Sites /\ ptype' \in PTypes /\ at' \in Places
         /\ result' \in [Sites -> {"none", "true", "false"}]
         /\ exitCode' \in {"none", "success", "failure"}
BY DEF MainTyped, Conclude, Sites, PTypes, Places

\* A line, printed or lost, leaves a parser.
LEMMA PrintTyped ==
  ASSUME MainTyped, NEW line, PrintStr(line), Parse(parser, line) \in Parsers
  PROVE  parser' \in Parsers /\ lost' \in BOOLEAN
BY DEF PrintStr, MainTyped

\* Every step keeps the types of what DecentMain adds to the runner.
LEMMA MainTypesKept ==
  ASSUME DInv, MainNext
  PROVE  MainTyped'
<1> USE DEF MainTyped, DInv
<1>0. /\ env \in Envs /\ ptype \in PTypes
      /\ Repeat \in Nat /\ iteration \in Nat /\ iteration + 1 \in Nat
  BY RepeatAssumption DEF Sites, Envs
<1>1. CASE EnclaveInitThrows
  BY <1>1 DEF EnclaveInitThrows, Places
<1>2. CASE ConstructRunner
  BY <1>2, <1>0 DEF ConstructRunner, Places
<1>3. CASE ConstructionThrows
  BY <1>3, ConclusionTyped DEF ConstructionThrows
<1>4. CASE BeginIteration
  <2>1. parser' \in Parsers /\ lost' \in BOOLEAN
    <3>1. Parse(parser, StartLine(env, ptype)) \in Parsers
      BY <1>0, StartLineParsed DEF Keeps
    <3> QED
      BY <1>4, <3>1, PrintTyped DEF BeginIteration
  <2> QED
    BY <1>4, <2>1 DEF BeginIteration, Places
<1>5. CASE GuestRuns
  BY <1>5 DEF GuestRuns, mainVars
<1>6. CASE StopBenchmark
  <2>1. parser' \in Parsers /\ lost' \in BOOLEAN
    <3>1. Parse(parser, TimeLine(env, iteration + 1)) \in Parsers
      BY <1>0, TimeLineParsed DEF Keeps
    <3> QED
      BY <1>6, <3>1, PrintTyped DEF StopBenchmark
  <2> QED
    BY <1>6, <2>1 DEF StopBenchmark
<1>7. CASE PlainIterationEnds
  <2>1. parser' \in Parsers /\ lost' \in BOOLEAN
    <3>1. Parse(parser, EndLine(env, ptype)) \in Parsers
      BY <1>0, EndLineParsed
    <3> QED
      BY <1>7, <3>1, PrintTyped DEF PlainIterationEnds
  <2>2. iteration' \in 0 .. Repeat
    BY <1>0, <1>7 DEF PlainIterationEnds, CallInPlace
  <2> QED
    BY <1>7, <2>1, <2>2 DEF PlainIterationEnds, Places
<1>8. CASE InstrumentedCallReturns
  <2>1. m_counter' \in Nat
    <3>1. [Next]_vars
      BY <1>8 DEF InstrumentedCallReturns, Next, CallStep
    <3>2. IInv'
      BY <3>1, InvStep
    <3> QED
      BY <3>2, ModulusAssumption DEF IInv, TypeOK, UInt64
  <2>2. parser' \in Parsers /\ lost' \in BOOLEAN
    <3>1. PICK n \in Nat : n = m_counter'
      BY <2>1
    <3>2. Parse(parser, CounterLine(env, n)) \in Parsers
      BY <1>0, CounterLineParsed DEF Keeps
    <3>3. PrintStr(CounterLine(env, n))
      BY <1>8, <3>1 DEF InstrumentedCallReturns
    <3> QED
      BY <3>2, <3>3, PrintTyped
  <2> QED
    BY <1>8, <2>2 DEF InstrumentedCallReturns, Places
<1>9. CASE CallThrows
  BY <1>9, ConclusionTyped DEF CallThrows
<1>10. CASE CallRefused
  BY <1>10, ConclusionTyped DEF CallRefused
<1>11. CASE InstrumentedIterationEnds
  <2>1. parser' \in Parsers /\ lost' \in BOOLEAN
    <3>1. Parse(parser, EndLine(env, ptype)) \in Parsers
      BY <1>0, EndLineParsed
    <3> QED
      BY <1>11, <3>1, PrintTyped DEF InstrumentedIterationEnds
  <2>2. iteration' \in 0 .. Repeat
    BY <1>0, <1>11 DEF InstrumentedIterationEnds, CallInPlace
  <2> QED
    BY <1>11, <2>1, <2>2 DEF InstrumentedIterationEnds, Places
<1>12. CASE ResetThrows
  BY <1>12, ConclusionTyped DEF ResetThrows
<1>13. CASE NextRunner
  BY <1>13 DEF NextRunner, Places, PTypes
<1>14. CASE Completes
  BY <1>14, ConclusionTyped DEF Completes
<1>15. CASE ScriptGivesUp
  BY <1>15 DEF ScriptGivesUp, Places
<1>16. CASE ScriptParses
  <2>1. "Native" \in Envs /\ "plain" \in PTypes
    BY DEF Envs, PTypes
  <2> DEFINE t == Parse(parser, StartLine("Native", "plain"))
             u == Parse(t, TimeLine("Native", 1))
  <2>2. t \in Parsers
    BY <2>1, StartLineParsed DEF Keeps
  <2>3. u \in Parsers
    <3> HIDE DEF t
    <3> QED
      BY <2>1, <2>2, TimeLineParsed DEF Keeps
  <2>4. Parse(u, EndLine("Native", "plain")) \in Parsers
    <3> HIDE DEF u
    <3> QED
      BY <2>1, <2>3, EndLineParsed
  <2> QED
    BY <1>16, <2>4 DEF ScriptParses, Places
<1> QED
  BY <1>1, <1>2, <1>3, <1>4, <1>5, <1>6, <1>7, <1>8, <1>9, <1>10, <1>11,
     <1>12, <1>13, <1>14, <1>15, <1>16 DEF MainNext

-----------------------------------------------------------------------------
(* The runner.                                                             *)

\* A new runner is in the initial state of MainRunner.
LEMMA ConstructedInv ==
  ASSUME NEW m \in Modules, ConstructAnother(m)
  PROVE  IInv'
<1>1. Init'
  BY DEF ConstructAnother, InstantiateAnother, Init, Constructed, Instantiated
<1> QED
  BY <1>1, InvInit, PTL

\* A new runner takes the place of the last one.
NewRunner == \E m \in Modules : ConstructAnother(m)

\* Whatever DecentMain does to its runner, MainRunner may do.
LEMMA StepOfRunner ==
  ASSUME DInv, MainNext
  PROVE  NewRunner \/ [Next]_vars
<1>1. CASE ConstructRunner
  <2>1. files[ptype] \in Modules
    BY FilesAssumption DEF DInv, MainTyped, PTypes
  <2> QED
    BY <1>1, <2>1 DEF ConstructRunner, NewRunner
<1>2. CASE ~ConstructRunner
  BY <1>2
  DEF MainNext, EnclaveInitThrows, ConstructionThrows, BeginIteration,
      GuestRuns, StopBenchmark, PlainIterationEnds, InstrumentedCallReturns,
      CallThrows, CallRefused, InstrumentedIterationEnds, ResetThrows,
      NextRunner, Completes, ScriptGivesUp, ScriptParses, Next, CallStep
<1> QED
  BY <1>1, <1>2

\* So what MainRunner keeps, DecentMain keeps.
LEMMA RunnerKeepsInv ==
  ASSUME DInv, MainNext
  PROVE  IInv'
BY StepOfRunner, ConstructedInv, InvStep DEF NewRunner, DInv

History == CallInPlace /\ IterationIsFresh /\ IterationVerdicts

\* DecentWasmMain that fails ends the program, one that succeeds may go on to
\* the enclave; neither is a place in the loop.
LEMMA ConclusionLeaves ==
  ASSUME NEW success \in BOOLEAN, Conclude(success)
  PROVE  at' \in {"construct", "exit"} /\ (~success => at' = "exit")
BY DEF Conclude

\* A step that leaves the runner alone and the loop keeps what is known of it.
LEMMA QuietKeepsHistory ==
  ASSUME DInv, UNCHANGED vars, ~Running, at' \notin {"loop", "call", "reset"}
  PROVE  History'
BY DEF DInv, History, CallInPlace, IterationIsFresh, IterationVerdicts, vars,
       instanceVars, runnerVars, InstrumentedCallRan, ReportIsOwnWork, Running

\* An iteration begins on globals that were reset.
LEMMA BeginKeepsHistory ==
  ASSUME DInv, BeginIteration
  PROVE  History'
<1>1. /\ at = "loop" /\ at' = "call" /\ iteration' < Repeat /\ ptype' = ptype
      /\ frame = "none" /\ threshold' = threshold /\ carried' = counter
      /\ outcome' \in {"pending", "threw"}
      /\ call' = IF ptype = "plain" THEN "RunPlain" ELSE "RunInstrumented"
      /\ frame' \in {"none", "entry", "returned"}
      /\ frame' = "returned" => ~execRes'
  BY DEF BeginIteration, MoreIterations, RunPlain, RunInstrumented, Idle,
         ExecFunc, EnterCall
<1>2. CallInPlace' /\ IterationIsFresh'
  BY <1>1 DEF DInv, CallInPlace, IterationIsFresh
<1>3. IterationVerdicts'
  BY <1>1 DEF IterationVerdicts, InstrumentedCallRan, ReportIsOwnWork
<1> QED
  BY <1>2, <1>3 DEF History

\* A guest of an instrumented iteration enters decent_wasm_main, since no
\* threshold stands in its way, and a benchmark that ends has stopped its clock.
LEMMA GuestKeepsHistory ==
  ASSUME DInv, GuestRuns
  PROVE  History'
<1>1. /\ at = "call" /\ UNCHANGED <<at, ptype, iteration, timed, benchmark>>
      /\ UNCHANGED <<call, outcome, carried>>
      /\ outcome = "pending" /\ Running
  <2>1. Running
    BY DEF GuestRuns, GuestStep, Guest, PlainMain, InjectedMain,
           InjectedMainRefuses, Charge, Exit, Trap, MainReturns, Running
  <2> QED
    BY <2>1
    DEF GuestRuns, GuestStep, mainVars, runnerVars, DInv, IInv, CallMatchesFrame
<1>2. /\ frame' # "entry"
      /\ frame' = "body" => ran' \/ (frame = "body" /\ ran' = ran)
      /\ frame' = "returned" /\ execRes' =>
           \/ frame = "body" /\ ran' = ran /\ (benchmark => timed)
           \/ /\ frame = "entry" /\ function = "decent_wasm_injected_main"
              /\ threshold # 0
  <2> USE DEF GuestRuns, GuestStep
  <2>1. CASE PlainMain
    BY <2>1 DEF PlainMain
  <2>2. CASE InjectedMain
    BY <2>2 DEF InjectedMain
  <2>3. CASE InjectedMainRefuses
    BY <2>3 DEF InjectedMainRefuses, AlreadyArmed, GuestReturn
  <2>4. ASSUME NEW k \in Costs, Charge(k)
        PROVE  frame = "body" /\ ran' = ran
               /\ (frame' = "body" \/ (frame' = "returned" /\ ~execRes'))
    BY <2>4 DEF Charge, CounterExceed, Raise
  <2>5. CASE Exit \/ Trap
    BY <2>5 DEF Exit, Trap, Raise
  <2>6. CASE MainReturns
    BY <2>6 DEF MainReturns, GuestReturn
  <2> QED
    BY <2>1, <2>2, <2>3, <2>4, <2>5, <2>6 DEF Guest
<1>3. ptype = "plain" => function = "decent_wasm_main"
  BY <1>1 DEF DInv, CallInPlace, IInv, CallMatchesFrame
<1>4. CallInPlace'
  <2>1. benchmark /\ frame' = "returned" /\ execRes' => timed
    <3>1. ptype = "plain" \/ ptype = "instrumented"
      BY DEF DInv, MainTyped, PTypes
    <3> QED
      BY <1>1, <1>2, <1>3, <3>1 DEF DInv, IterationIsFresh
  <2> QED
    BY <1>1, <2>1 DEF DInv, CallInPlace
<1>5. IterationIsFresh'
  BY <1>1, <1>2 DEF DInv, IterationIsFresh
<1>6. IterationVerdicts'
  BY <1>1 DEF IterationVerdicts, InstrumentedCallRan, ReportIsOwnWork
<1> QED
  BY <1>4, <1>5, <1>6 DEF History

\* An instrumented call that returns has run, and reports its own charges.
LEMMA ReturnKeepsHistory ==
  ASSUME DInv, InstrumentedCallReturns
  PROVE  History'
<1>1. /\ at = "call" /\ at' = "reset" /\ UNCHANGED <<ptype, iteration>>
      /\ call = "RunInstrumented" /\ call' = call /\ outcome' = "ok"
      /\ frame = "returned" /\ execRes /\ frame' = "none"
      /\ UNCHANGED <<work, ran, carried>>
  BY DEF InstrumentedCallReturns, RunInstrumentedReturns, LeaveCall
<1>2. ptype = "instrumented"
  BY <1>1 DEF DInv, CallInPlace, MainTyped, PTypes
<1>3. ran' /\ carried' = 0
  BY <1>1, <1>2 DEF DInv, IterationIsFresh
<1>4. m_counter' = carried + work
  <2>1. [Next]_vars
    BY DEF InstrumentedCallReturns, Next, CallStep
  <2>2. IInv'
    BY <2>1, InvStep DEF DInv
  <2> QED
    BY <1>1, <2>2 DEF IInv, ReportIsExact
<1>5. IterationVerdicts'
  <2>1. work \in Nat /\ carried = 0
    BY <1>1, <1>3 DEF DInv, IInv, TypeOK, InstanceTypeOK
  <2>2. m_counter' = work
    BY <1>4, <2>1
  <2> QED
    BY <1>1, <1>3, <2>2
    DEF IterationVerdicts, InstrumentedCallRan, ReportIsOwnWork
<1>6. CallInPlace' /\ IterationIsFresh'
  BY <1>1, <1>2 DEF DInv, CallInPlace, IterationIsFresh, Running
<1> QED
  BY <1>5, <1>6 DEF History

\* A reset that succeeds has reset both globals.
LEMMA ResetKeepsHistory ==
  ASSUME DInv, InstrumentedIterationEnds
  PROVE  History'
<1>1. /\ at = "reset" /\ at' = "loop" /\ frame' = "none"
      /\ call' = "ResetThresholdAndCounter"
      /\ counter' = 0 /\ threshold' = 0
  BY DEF InstrumentedIterationEnds, ResetThresholdAndCounter, Idle, Exports
<1> QED
  BY <1>1
  DEF History, CallInPlace, IterationIsFresh, IterationVerdicts,
      InstrumentedCallRan, ReportIsOwnWork, Running

\* Every step keeps what is known of the calls of the runner.
LEMMA HistoryKept ==
  ASSUME DInv, MainNext
  PROVE  History'
<1>0. Running => at = "call"
  BY DEF DInv, CallInPlace
<1>1. CASE EnclaveInitThrows
  BY <1>0, <1>1, QuietKeepsHistory DEF EnclaveInitThrows
<1>2. CASE ConstructRunner
  BY <1>2
  DEF ConstructRunner, ConstructAnother, InstantiateAnother, History,
      CallInPlace, IterationIsFresh, IterationVerdicts, InstrumentedCallRan,
      ReportIsOwnWork, Running
<1>3. CASE ConstructionThrows
  BY <1>0, <1>3, QuietKeepsHistory, ConclusionLeaves DEF ConstructionThrows
<1>4. CASE BeginIteration
  BY <1>4, BeginKeepsHistory
<1>5. CASE GuestRuns
  BY <1>5, GuestKeepsHistory
<1>6. CASE StopBenchmark
  BY <1>6
  DEF StopBenchmark, DInv, History, CallInPlace, IterationIsFresh,
      IterationVerdicts, InstrumentedCallRan, ReportIsOwnWork, vars,
      instanceVars, runnerVars, Running
<1>7. CASE PlainIterationEnds
  <2>1. /\ at = "call" /\ at' = "loop" /\ call = "RunPlain" /\ call' = call
        /\ frame' = "none" /\ ptype' = ptype
    BY <1>7 DEF PlainIterationEnds, RunPlainReturns, LeaveCall
  <2>2. ptype # "instrumented"
    BY <2>1 DEF DInv, CallInPlace
  <2> QED
    BY <2>1, <2>2
    DEF History, CallInPlace, IterationIsFresh, IterationVerdicts,
        InstrumentedCallRan, ReportIsOwnWork, Running
<1>8. CASE InstrumentedCallReturns
  BY <1>8, ReturnKeepsHistory
<1>9. CASE CallThrows
  <2>1. frame' = "none" /\ outcome' # "ok" /\ at' = "exit"
    BY <1>9, ConclusionLeaves
    DEF CallThrows, RunPlainReturns, RunInstrumentedReturns, ExecFails, LeaveCall
  <2> QED
    BY <2>1
    DEF History, CallInPlace, IterationIsFresh, IterationVerdicts,
        InstrumentedCallRan, ReportIsOwnWork, Running
<1>10. CASE CallRefused
  <2>1. ~Running
    BY <1>10 DEF CallRefused, DInv, IInv, CallMatchesFrame
  <2> QED
    BY <1>10, <2>1, QuietKeepsHistory, ConclusionLeaves DEF CallRefused
<1>11. CASE InstrumentedIterationEnds
  BY <1>11, ResetKeepsHistory
<1>12. CASE ResetThrows
  <2>1. /\ frame' = "none" /\ at' = "exit"
        /\ call' = "ResetThresholdAndCounter"
    BY <1>12, ConclusionLeaves
    DEF ResetThrows, ResetThresholdAndCounter, Idle
  <2> QED
    BY <2>1
    DEF History, CallInPlace, IterationIsFresh, IterationVerdicts,
        InstrumentedCallRan, ReportIsOwnWork, Running
<1>13. CASE NextRunner
  BY <1>0, <1>13, QuietKeepsHistory DEF NextRunner
<1>14. CASE Completes
  BY <1>0, <1>14, QuietKeepsHistory, ConclusionLeaves DEF Completes
<1>15. CASE ScriptGivesUp
  BY <1>0, <1>15, QuietKeepsHistory DEF ScriptGivesUp
<1>16. CASE ScriptParses
  BY <1>0, <1>16, QuietKeepsHistory DEF ScriptParses
<1> QED
  BY <1>1, <1>2, <1>3, <1>4, <1>5, <1>6, <1>7, <1>8, <1>9, <1>10, <1>11,
     <1>12, <1>13, <1>14, <1>15, <1>16 DEF MainNext

-----------------------------------------------------------------------------
(* The output.                                                             *)

\* All iterations are a complete measurement, none is an empty one.
LEMMA CountedMeasured ==
  ASSUME parser \in Parsers, NEW e \in Sites, NEW p \in PTypes
  PROVE  /\ Counted(parser, e, p, Repeat) <=> Measured(e, p)
         /\ Counted(parser, e, p, 0) => parser.res[e][p] = <<>>
<1>1. parser.res[e][p] \in Seq(Seq(Nat))
  BY DEF Parsers, Results, Sites, Envs, PTypesOf
<1>2. Counted(parser, e, p, Repeat) <=> Measured(e, p)
  BY DEF Counted, Measured, InOrder
<1>3. Counted(parser, e, p, 0) => parser.res[e][p] = <<>>
  BY <1>1 DEF Counted
<1> QED
  BY <1>2, <1>3

\* A run that has been measured for the iteration behind the first n.
MeasuredFor(s, p, n) ==
  /\ Len(s.measurements) = IF p = "plain" THEN 1 ELSE 2
  /\ s.measurements[1] = n + 1

\* Such a run is not without measurements.
LEMMA MeasuredNotEmpty ==
  ASSUME NEW s \in Parsers, NEW p \in PTypes, NEW n \in Nat, MeasuredFor(s, p, n)
  PROVE  s.measurements # <<>> /\ (p = "instrumented" => Len(s.measurements) = 2)
<1>1. Len(s.measurements) # 0
  BY DEF MeasuredFor, PTypes
<1>2. p = "instrumented" => Len(s.measurements) = 2
  BY DEF MeasuredFor
<1> QED
  BY <1>1, <1>2

\* The end line of a run adds one iteration to those of its type.
LEMMA EndLineCounts ==
  ASSUME NEW s \in Parsers, NEW e \in Sites, NEW p \in PTypes, NEW n \in Nat,
         Closable(s, e, p), MeasuredFor(s, p, n), Counted(s, e, p, n)
  PROVE  LET t == Parse(s, EndLine(e, p)) IN
           /\ ~t.raised
           /\ AtRest(t)
           /\ Counted(t, e, p, n + 1)
           /\ \A f \in Sites, q \in PTypes, k \in Nat :
                (f # e \/ q # p) /\ Counted(s, f, q, k) => Counted(t, f, q, k)
<1> DEFINE t == Parse(s, EndLine(e, p))
           r == s.res[e][p]
           m == s.measurements
<1>0. \A f \in Sites : f \in Envs /\ PTypesOf(f) = PTypes
  BY DEF Sites, Envs, PTypesOf
<1>1. r \in Seq(Seq(Nat)) /\ m \in Seq(Nat)
  <2>1. s.res \in Results /\ m \in Seq(Nat)
    BY DEF Parsers
  <2>2. s.res[e] \in [PTypes -> Seq(Seq(Nat))]
    BY <1>0, <2>1 DEF Results
  <2> QED
    BY <2>1, <2>2
<1>2. /\ ~t.raised
      /\ AtRest(t)
      /\ t.res[e][p] = Append(r, m)
      /\ \A f \in Sites, q \in PTypes :
           f # e \/ q # p => t.res[f][q] = s.res[f][q]
  BY <1>0, EndLineParsed
<1>3. Counted(t, e, p, n + 1)
  <2> HIDE DEF t
  <2>1. /\ Len(r) = n
        /\ \A i \in 1 .. n : /\ Len(r[i]) = IF p = "plain" THEN 1 ELSE 2
                             /\ r[i][1] = i
    BY DEF Counted
  <2>2. Len(m) = (IF p = "plain" THEN 1 ELSE 2) /\ m[1] = n + 1
    BY DEF MeasuredFor
  <2> HIDE DEF r, m
  <2>3. /\ Len(Append(r, m)) = n + 1
        /\ \A i \in 1 .. n : Append(r, m)[i] = r[i]
        /\ Append(r, m)[n + 1] = m
    BY <1>1, <2>1
  <2>4. \A i \in 1 .. n + 1 : i \in 1 .. n \/ i = n + 1
    OBVIOUS
  <2>5. ASSUME NEW i \in 1 .. n + 1
        PROVE  /\ Len(t.res[e][p][i]) = IF p = "plain" THEN 1 ELSE 2
               /\ t.res[e][p][i][1] = i
    <3>1. CASE i \in 1 .. n
      <4>1. t.res[e][p][i] = r[i]
        BY <1>2, <2>3, <3>1
      <4> QED
        BY <2>1, <3>1, <4>1
    <3>2. CASE i = n + 1
      BY <1>2, <2>2, <2>3, <3>2
    <3> QED
      BY <2>4, <3>1, <3>2
  <2> QED
    BY <1>2, <2>3, <2>5 DEF Counted
<1>4. ASSUME NEW f \in Sites, NEW q \in PTypes, NEW k \in Nat,
             f # e \/ q # p, Counted(s, f, q, k)
      PROVE  Counted(t, f, q, k)
  <2> HIDE DEF t
  <2>1. t.res[f][q] = s.res[f][q]
    BY <1>2, <1>4
  <2> QED
    BY <1>4, <2>1 DEF Counted
<1> QED
  BY <1>2, <1>3, <1>4

-----------------------------------------------------------------------------
(* The output, step by step.                                               *)

\* What is known of the output as far as it may be read.
Judged == OutputUnderstood /\ ExitJudged /\ ScriptJudged

\* Once a line is lost, or the output of a guest that is no benchmark refused,
\* nothing is claimed of the output of this environment.
Spoilt == lost \/ (~benchmark /\ ~Intact)

\* While the program goes on nothing is judged.
LEMMA NothingJudgedYet ==
  ASSUME InProgram', exitCode' = "none"
  PROVE  ExitJudged' /\ ScriptJudged'
BY DEF InProgram, ExitJudged, ScriptJudged, AcceptedRunnersAreWhole,
       CompleteRunsAreAccepted

\* A line that is not printed measures nothing.
LEMMA MeasuredStays ==
  ASSUME UNCHANGED parser, NEW e \in Envs, NEW p \in PTypes
  PROVE  /\ Measured(e, p) => Measured(e, p)'
         /\ Whole(e, p) => Whole(e, p)'
BY DEF Measured, InOrder, Whole

\* What a readable output has of the enclave when its parser is at rest there
\* before an iteration.
LEMMA EnclaveOutput ==
  ASSUME DInv, InProgram, Intact, env = "Enclave", at # "loop", Resting
  PROVE  \A p \in PTypes : Whole("Enclave", p)
<1>1. /\ parser \in Parsers /\ "Enclave" \in Sites
      /\ \A e \in Sites, p \in PTypes : Counted(parser, e, p, Finished(e, p))
  BY DEF DInv, MainTyped, OutputUnderstood, Sites
<1>2. at = "construct"
  BY DEF DInv, OutputUnderstood, InProgram, Resting, AtRest, Sites
<1>3. TAKE p \in PTypes
<1>4. Finished("Enclave", p) \in {0, Repeat}
  BY <1>2 DEF Finished
<1>5. Counted(parser, "Enclave", p, 0) \/ Counted(parser, "Enclave", p, Repeat)
  BY <1>1, <1>4
<1> QED
  BY <1>1, <1>5, CountedMeasured DEF Whole

\* DecentWasmMain returns false with an output that the parser understands.
LEMMA FailureJudged ==
  ASSUME DInv, at \in {"construct", "call", "reset"}, Conclude(FALSE),
         UNCHANGED output, UNCHANGED fixed
  PROVE  Judged'
<1>1. at' = "exit" /\ InProgram /\ ~InProgram' /\ (Intact' <=> Intact)
  BY ConclusionLeaves DEF InProgram, Intact
<1>2. /\ exitCode' \in {"failure", "success"}
      /\ exitCode' = "success" => env = "Enclave" /\ result'["Enclave"] = "false"
  BY DEF Conclude, DInv, MainTyped, Sites
<1>3. OutputUnderstood'
  BY <1>1 DEF OutputUnderstood
<1>4. ASSUME exitCode' = "success", Intact', Resting'
      PROVE  \A p \in PTypes : Whole("Enclave", p)'
  <2>1. Resting
    BY <1>4 DEF Resting, AtRest
  <2> QED
    BY <1>1, <1>2, <1>4, <2>1, EnclaveOutput, MeasuredStays DEF Envs
<1>5. benchmark' => lost' \/ Intact'
  BY <1>1 DEF DInv, OutputUnderstood
<1>6. ExitJudged'
  BY <1>1, <1>2, <1>4, <1>5 DEF ExitJudged
<1>7. ScriptJudged'
  BY <1>1
  DEF ScriptJudged, AcceptedRunnersAreWhole, CompleteRunsAreAccepted
<1> QED
  BY <1>3, <1>6, <1>7 DEF Judged

\* Between the runs of the program nothing is printed.
LEMMA SilentStepJudged ==
  ASSUME DInv, UNCHANGED <<output, fixed, exitCode>>,
         at \in {"construct", "loop"}, at' \in {"construct", "loop"},
         \A e \in Sites, p \in PTypes : Finished(e, p)' = Finished(e, p)
  PROVE  Judged'
<1>1. InProgram /\ InProgram' /\ (Intact' <=> Intact)
  BY DEF InProgram, Intact
<1>2. /\ exitCode = "none" /\ (benchmark => lost \/ Intact)
      /\ Intact =>
           /\ Resting
           /\ \A e \in Sites, p \in PTypes : Counted(parser, e, p, Finished(e, p))
  BY <1>1 DEF DInv, OutputUnderstood
<1>3. ExitJudged' /\ ScriptJudged'
  BY <1>1, <1>2, NothingJudgedYet
<1>4. Intact =>
        \A e \in Sites, p \in PTypes : Counted(parser', e, p, Finished(e, p)')
  BY <1>2
<1>5. OutputUnderstood'
  BY <1>1, <1>2, <1>4 DEF OutputUnderstood, Resting
<1> QED
  BY <1>3, <1>5 DEF Judged

\* A runner is constructed.
LEMMA ConstructJudged ==
  ASSUME DInv, ConstructRunner
  PROVE  Judged'
<1>1. \A e \in Sites, p \in PTypes : Finished(e, p)' = Finished(e, p)
  BY DEF ConstructRunner, Finished
<1> QED
  BY <1>1, SilentStepJudged DEF ConstructRunner

\* The plain runner has done its iterations.
LEMMA NextRunnerJudged ==
  ASSUME DInv, NextRunner
  PROVE  Judged'
<1>1. \A e \in Sites, p \in PTypes : Finished(e, p)' = Finished(e, p)
  BY DEF NextRunner, Finished, PTypes
<1> QED
  BY <1>1, SilentStepJudged DEF NextRunner

\* The guest prints nothing before it stops its clock.
LEMMA GuestJudged ==
  ASSUME DInv, GuestRuns
  PROVE  Judged'
<1>1. UNCHANGED mainVars
  BY DEF GuestRuns
<1>2. InProgram' /\ InProgram /\ exitCode' = "none" /\ (Intact' <=> Intact)
  BY <1>1 DEF GuestRuns, mainVars, InProgram, Intact, DInv, OutputUnderstood
<1>3. \A e \in Sites, p \in PTypes : Finished(e, p)' = Finished(e, p)
  BY <1>1 DEF mainVars, Finished
<1>4. OutputUnderstood'
  BY <1>1, <1>2, <1>3 DEF mainVars, DInv, OutputUnderstood, Resting
<1> QED
  BY <1>2, <1>4, NothingJudgedYet DEF Judged

\* DecentWasmMain returns true with all of its iterations in the output.
LEMMA CompletionJudged ==
  ASSUME DInv, Completes
  PROVE  Judged'
<1>1. /\ at = "loop" /\ iteration = Repeat /\ ptype = "instrumented"
      /\ UNCHANGED output /\ UNCHANGED fixed /\ Conclude(TRUE) /\ InProgram
      /\ parser \in Parsers /\ env \in Sites /\ exitCode = "none"
      /\ benchmark => lost \/ Intact
      /\ Intact =>
           /\ Resting
           /\ \A e \in Sites, p \in PTypes : Counted(parser, e, p, Finished(e, p))
  BY DEF Completes, DInv, MainTyped, InProgram, OutputUnderstood
<1>2. CASE env = "Untrusted"
  <2>1. at' = "construct" /\ env' = "Enclave" /\ ptype' = "plain"
        /\ UNCHANGED exitCode
    BY <1>1, <1>2 DEF Conclude
  <2>2. \A e \in Sites, p \in PTypes : Finished(e, p)' = Finished(e, p)
    BY <1>1, <1>2, <2>1 DEF Finished, Sites, PTypes
  <2> QED
    BY <1>1, <2>1, <2>2, SilentStepJudged
<1>3. CASE env = "Enclave"
  <2>1. at' = "exit" /\ exitCode' = "success" /\ ~InProgram'
        /\ (Intact' <=> Intact)
    BY <1>1, <1>3 DEF Conclude, InProgram, Intact
  <2>2. ASSUME Intact, NEW p \in PTypes PROVE Measured("Enclave", p)'
    <3>1. Finished("Enclave", p) = Repeat
      BY <1>1, <1>3 DEF Finished, PTypes
    <3>2. Measured("Enclave", p)
      BY <1>1, <2>2, <3>1, CountedMeasured DEF Sites
    <3> QED
      BY <1>1, <3>2, MeasuredStays DEF Envs
  <2>3. Intact => Resting'
    BY <1>1 DEF Resting, AtRest
  <2>4. Intact => \A p \in PTypes : Whole("Enclave", p)'
    BY <2>2 DEF Whole
  <2>5. benchmark' => lost' \/ Intact'
    BY <1>1, <2>1
  <2>6. OutputUnderstood' /\ ExitJudged'
    BY <2>1, <2>2, <2>3, <2>4, <2>5 DEF OutputUnderstood, ExitJudged
  <2>7. ScriptJudged'
    BY <2>1 DEF ScriptJudged, AcceptedRunnersAreWhole, CompleteRunsAreAccepted
  <2> QED
    BY <2>6, <2>7 DEF Judged
<1> QED
  BY <1>1, <1>2, <1>3 DEF Sites

-----------------------------------------------------------------------------
(* The lines.                                                              *)

\* A printed line is lost, or the last straw for a guest that is no benchmark,
\* or read by a parser that has read all lines before.
LEMMA LinePrinted ==
  ASSUME DInv, InProgram, NEW line, PrintStr(line), UNCHANGED benchmark,
         parser.raised => Parse(parser, line).raised
  PROVE  Spoilt' \/ (Intact /\ parser' = Parse(parser, line) /\ ~lost')
BY DEF PrintStr, Spoilt, Intact, DInv, MainTyped, OutputUnderstood

\* A parser that has refused the line of no benchmark has spoilt the output.
LEMMA RefusedSpoils ==
  ASSUME UNCHANGED benchmark, ~benchmark, parser'.raised
  PROVE  Spoilt'
BY DEF Spoilt, Intact

\* Of a spoilt output nothing is claimed.
LEMMA SpoiltJudged ==
  ASSUME DInv, InProgram, InProgram', UNCHANGED <<exitCode, benchmark>>, Spoilt'
  PROVE  Judged'
<1>1. exitCode' = "none"
  BY DEF DInv, OutputUnderstood
<1>2. ~Intact' /\ (benchmark' => lost')
  BY DEF Spoilt, Intact
<1>3. OutputUnderstood'
  BY <1>1, <1>2 DEF OutputUnderstood
<1> QED
  BY <1>1, <1>3, NothingJudgedYet DEF Judged

\* A step that prints a line which ends no run.
LEMMA LineJudged ==
  ASSUME DInv, InProgram, InProgram', UNCHANGED exitCode, Intact,
         Keeps(parser, parser'), ~parser'.raised, ~lost',
         \A e \in Sites, p \in PTypes : Finished(e, p)' = Finished(e, p),
         at' = "call" \/ at' = "reset",
         parser'.currEnv = env' /\ parser'.currPType = ptype',
         at' = "call" => parser'.measurements
                          = IF timed' THEN <<iteration' + 1>> ELSE <<>>,
         at' = "reset" => /\ Len(parser'.measurements) = 2
                          /\ parser'.measurements[1] = iteration' + 1
  PROVE  Judged'
<1>1. /\ exitCode = "none"
      /\ \A e \in Sites, p \in PTypes : Counted(parser, e, p, Finished(e, p))
  BY DEF DInv, OutputUnderstood
<1>2. ASSUME NEW e \in Sites, NEW p \in PTypes
      PROVE  Counted(parser', e, p, Finished(e, p)')
  <2>1. Counted(parser, e, p, Finished(e, p)')
    BY <1>1
  <2> QED
    BY <2>1 DEF Keeps, Counted
<1>3. OutputUnderstood'
  BY <1>1, <1>2 DEF OutputUnderstood, Intact
<1> QED
  BY <1>1, <1>3, NothingJudgedYet DEF Judged

\* The line that announces a run.
LEMMA BeginJudged ==
  ASSUME DInv, BeginIteration
  PROVE  Judged'
<1>1. /\ at = "loop" /\ at' = "call" /\ ~timed' /\ InProgram /\ InProgram'
      /\ UNCHANGED <<benchmark, env, ptype, iteration, exitCode>>
      /\ PrintStr(StartLine(env, ptype))
  BY DEF BeginIteration, InProgram
<1>2. parser \in Parsers /\ env \in Envs /\ ptype \in PTypes
  BY DEF DInv, MainTyped, Sites, Envs
<1>3. Spoilt'
      \/ (Intact /\ parser' = Parse(parser, StartLine(env, ptype)) /\ ~lost')
  BY <1>1, <1>2, LinePrinted, StartLineParsed
<1>4. CASE Spoilt'
  BY <1>1, <1>4, SpoiltJudged
<1>5. CASE Intact /\ parser' = Parse(parser, StartLine(env, ptype)) /\ ~lost'
  <2>1. ~parser.raised /\ AtRest(parser)
    BY <1>1, <1>5 DEF DInv, OutputUnderstood, Resting, Intact
  <2>2. /\ Keeps(parser, parser') /\ ~parser'.raised
        /\ parser'.currEnv = env /\ parser'.currPType = ptype
        /\ parser'.measurements = <<>>
    BY <1>2, <1>5, <2>1, StartLineParsed
  <2>3. \A e \in Sites, p \in PTypes : Finished(e, p)' = Finished(e, p)
    BY <1>1 DEF Finished
  <2>4. parser'.measurements = IF timed' THEN <<iteration' + 1>> ELSE <<>>
    BY <1>1, <2>2
  <2>5. at' # "reset" /\ parser'.currEnv = env' /\ parser'.currPType = ptype'
    BY <1>1, <2>2
  <2> QED
    BY <1>1, <1>5, <2>2, <2>3, <2>4, <2>5, LineJudged
<1> QED
  BY <1>3, <1>4, <1>5

\* The line of the clock.  One too many is refused, and no benchmark's.
LEMMA StopJudged ==
  ASSUME DInv, StopBenchmark
  PROVE  Judged'
<1>1. /\ at = "call" /\ at' = "call" /\ (benchmark => ~timed) /\ timed'
      /\ UNCHANGED <<benchmark, env, ptype, iteration, exitCode>>
      /\ PrintStr(TimeLine(env, iteration + 1)) /\ InProgram /\ InProgram'
  BY DEF StopBenchmark, InProgram
<1>2. parser \in Parsers /\ env \in Envs /\ iteration + 1 \in Nat
  BY DEF DInv, MainTyped, Sites, Envs
<1>3. Spoilt'
      \/ (Intact /\ parser' = Parse(parser, TimeLine(env, iteration + 1)) /\ ~lost')
  BY <1>1, <1>2, LinePrinted, TimeLineParsed
<1>4. CASE Spoilt'
  BY <1>1, <1>4, SpoiltJudged
<1>5. CASE Intact /\ parser' = Parse(parser, TimeLine(env, iteration + 1)) /\ ~lost'
  <2>1. /\ ~parser.raised
        /\ parser.measurements = IF timed THEN <<iteration + 1>> ELSE <<>>
        /\ parser.currEnv = env /\ parser.currPType = ptype
    BY <1>1, <1>5 DEF DInv, OutputUnderstood, Intact
  <2>2. CASE timed
    <3>1. parser.measurements # <<>>
      BY <2>1, <2>2
    <3>2. parser'.raised
      BY <1>2, <1>5, <3>1, TimeLineParsed
    <3> QED
      BY <1>1, <2>2, <3>2, RefusedSpoils, SpoiltJudged
  <2>3. CASE ~timed
    <3>1. /\ Keeps(parser, parser') /\ ~parser'.raised
          /\ parser'.currEnv = env /\ parser'.currPType = ptype
          /\ parser'.measurements = <<iteration + 1>>
      BY <1>2, <1>5, <2>1, <2>3, TimeLineParsed
    <3>2. \A e \in Sites, p \in PTypes : Finished(e, p)' = Finished(e, p)
      BY <1>1 DEF Finished
    <3>3. parser'.measurements = <<iteration' + 1>> /\ at' # "reset"
      BY <1>1, <3>1
    <3> QED
      BY <1>1, <1>5, <3>1, <3>2, <3>3, LineJudged
  <2> QED
    BY <2>2, <2>3 DEF DInv, MainTyped
<1> QED
  BY <1>3, <1>4, <1>5

\* The line of the counter, refused if no line of the clock came before.
LEMMA CounterJudged ==
  ASSUME DInv, InstrumentedCallReturns
  PROVE  Judged'
<1>1. /\ at = "call" /\ at' = "reset" /\ ptype = "instrumented"
      /\ (benchmark => timed)
      /\ UNCHANGED <<benchmark, env, ptype, iteration, exitCode>>
      /\ PrintStr(CounterLine(env, m_counter'))
  <2>1. /\ at = "call" /\ frame = "returned" /\ execRes
        /\ call = "RunInstrumented"
    BY DEF InstrumentedCallReturns, RunInstrumentedReturns, LeaveCall
  <2>2. (benchmark => timed) /\ ptype = "instrumented"
    BY <2>1 DEF DInv, CallInPlace, MainTyped, PTypes
  <2> QED
    BY <2>1, <2>2 DEF InstrumentedCallReturns
<1>2. m_counter' \in Nat
  <2>1. IInv'
    BY RunnerKeepsInv DEF MainNext
  <2> QED
    BY <2>1, ModulusAssumption DEF IInv, TypeOK, UInt64
<1>3. PICK n \in Nat : n = m_counter'
  BY <1>2
<1>4. /\ parser \in Parsers /\ env \in Envs /\ iteration + 1 \in Nat
      /\ InProgram /\ InProgram' /\ PrintStr(CounterLine(env, n))
  BY <1>1, <1>3 DEF DInv, MainTyped, InProgram, Sites, Envs
<1>5. Spoilt' \/ (Intact /\ parser' = Parse(parser, CounterLine(env, n)) /\ ~lost')
  BY <1>1, <1>4, LinePrinted, CounterLineParsed
<1>6. CASE Spoilt'
  BY <1>1, <1>4, <1>6, SpoiltJudged
<1>7. CASE Intact /\ parser' = Parse(parser, CounterLine(env, n)) /\ ~lost'
  <2>1. /\ ~parser.raised
        /\ parser.measurements = IF timed THEN <<iteration + 1>> ELSE <<>>
        /\ parser.currEnv = env /\ parser.currPType = ptype
    BY <1>1, <1>4, <1>7 DEF DInv, OutputUnderstood, Intact
  <2>2. CASE ~timed
    <3>1. parser'.raised
      BY <1>4, <1>7, <2>1, <2>2, CounterLineParsed
    <3> QED
      BY <1>1, <1>4, <2>2, <3>1, RefusedSpoils, SpoiltJudged
  <2>3. CASE timed
    <3>1. /\ Keeps(parser, parser') /\ ~parser'.raised
          /\ parser'.currEnv = env /\ parser'.currPType = ptype
          /\ Len(parser'.measurements) = 2
          /\ parser'.measurements[1] = iteration + 1
      BY <1>1, <1>4, <1>7, <2>1, <2>3, CounterLineParsed
    <3>2. \A e \in Sites, p \in PTypes : Finished(e, p)' = Finished(e, p)
      BY <1>1 DEF Finished
    <3>3. parser'.measurements[1] = iteration' + 1
      BY <1>1, <3>1
    <3> QED
      BY <1>1, <1>4, <1>7, <3>1, <3>2, <3>3, LineJudged
  <2> QED
    BY <2>2, <2>3 DEF DInv, MainTyped
<1> QED
  BY <1>5, <1>6, <1>7

\* The line that ends a run: the output has one more iteration.
LEMMA EndJudged ==
  ASSUME DInv, InProgram, at # "construct", at' = "loop",
         UNCHANGED <<env, ptype, exitCode>>, iteration' = iteration + 1,
         Intact, ~lost', parser' = Parse(parser, EndLine(env, ptype)),
         Closable(parser, env, ptype), MeasuredFor(parser, ptype, iteration)
  PROVE  Judged'
<1>1. /\ parser \in Parsers /\ env \in Sites /\ ptype \in PTypes
      /\ iteration \in Nat /\ Repeat \in Nat
  BY RepeatAssumption DEF DInv, MainTyped
<1>2. /\ exitCode = "none"
      /\ \A e \in Sites, p \in PTypes : Counted(parser, e, p, Finished(e, p))
  BY DEF DInv, OutputUnderstood
<1>3. Finished(env, ptype) = iteration
  BY DEF Finished
<1>4. Counted(parser, env, ptype, iteration)
  BY <1>1, <1>2, <1>3
<1>5. /\ ~parser'.raised
      /\ AtRest(parser')
      /\ Counted(parser', env, ptype, iteration + 1)
      /\ \A f \in Sites, q \in PTypes, k \in Nat :
           (f # env \/ q # ptype) /\ Counted(parser, f, q, k)
             => Counted(parser', f, q, k)
  BY <1>1, <1>4, EndLineCounts
<1>6. ASSUME NEW e \in Sites, NEW p \in PTypes
      PROVE  Counted(parser', e, p, Finished(e, p)')
  <2>1. CASE e = env /\ p = ptype
    <3>1. Finished(e, p)' = iteration'
      BY <2>1 DEF Finished
    <3> QED
      BY <1>5, <2>1, <3>1
  <2>2. CASE e # env \/ p # ptype
    <3>1. Finished(e, p)' = Finished(e, p) /\ Finished(e, p) \in {0, Repeat}
      BY <2>2 DEF Finished
    <3>2. Finished(e, p) \in Nat
      BY <1>1, <3>1
    <3> QED
      BY <1>1, <1>2, <1>5, <2>2, <3>1, <3>2
  <2> QED
    BY <2>1, <2>2
<1>7. OutputUnderstood'
  BY <1>2, <1>5, <1>6 DEF OutputUnderstood, Resting, Intact
<1> QED
  BY <1>2, <1>7, NothingJudgedYet DEF Judged, InProgram

\* The line that ends a plain run, refused if no line of the clock came before.
LEMMA PlainEndJudged ==
  ASSUME DInv, PlainIterationEnds
  PROVE  Judged'
<1>1. /\ at = "call" /\ at' = "loop" /\ ptype = "plain" /\ (benchmark => timed)
      /\ UNCHANGED <<benchmark, env, ptype, exitCode>>
      /\ iteration' = iteration + 1 /\ InProgram /\ InProgram'
      /\ PrintStr(EndLine(env, ptype))
  <2>1. at = "call" /\ frame = "returned" /\ execRes /\ call = "RunPlain"
    BY DEF PlainIterationEnds, RunPlainReturns, LeaveCall
  <2>2. (benchmark => timed) /\ ptype = "plain"
    BY <2>1 DEF DInv, CallInPlace, MainTyped, PTypes
  <2> QED
    BY <2>1, <2>2 DEF PlainIterationEnds, InProgram
<1>2. /\ parser \in Parsers /\ env \in Sites /\ env \in Envs /\ ptype \in PTypes
      /\ iteration + 1 \in Nat /\ ptype \in PTypesOf(env)
  BY DEF DInv, MainTyped, Sites, Envs, PTypesOf
<1>3. Spoilt' \/ (Intact /\ parser' = Parse(parser, EndLine(env, ptype)) /\ ~lost')
  BY <1>1, <1>2, LinePrinted, EndLineParsed
<1>4. CASE Spoilt'
  BY <1>1, <1>4, SpoiltJudged
<1>5. CASE Intact /\ parser' = Parse(parser, EndLine(env, ptype)) /\ ~lost'
  <2>1. /\ ~parser.raised
        /\ parser.measurements = IF timed THEN <<iteration + 1>> ELSE <<>>
        /\ parser.currEnv = env /\ parser.currPType = ptype
    BY <1>1, <1>5 DEF DInv, OutputUnderstood, Intact
  <2>2. CASE ~timed
    <3>1. parser'.raised
      BY <1>2, <1>5, <2>1, <2>2, EndLineParsed
    <3> QED
      BY <1>1, <2>2, <3>1, RefusedSpoils, SpoiltJudged
  <2>3. CASE timed
    <3>1. MeasuredFor(parser, ptype, iteration) /\ parser.measurements # <<>>
      BY <1>1, <1>2, <2>1, <2>3 DEF MeasuredFor
    <3>2. Closable(parser, env, ptype)
      BY <1>1, <1>2, <2>1, <3>1 DEF Closable
    <3> QED
      BY <1>1, <1>5, <3>1, <3>2, EndJudged
  <2> QED
    BY <2>2, <2>3 DEF DInv, MainTyped
<1> QED
  BY <1>3, <1>4, <1>5

\* The line that ends an instrumented run.
LEMMA InstrumentedEndJudged ==
  ASSUME DInv, InstrumentedIterationEnds
  PROVE  Judged'
<1>1. /\ at = "reset" /\ at' = "loop" /\ ptype = "instrumented"
      /\ UNCHANGED <<benchmark, env, ptype, exitCode>>
      /\ iteration' = iteration + 1 /\ InProgram /\ InProgram'
      /\ PrintStr(EndLine(env, ptype))
  BY DEF InstrumentedIterationEnds, DInv, CallInPlace, InProgram
<1>2. /\ parser \in Parsers /\ env \in Envs /\ ptype \in PTypes
      /\ ptype \in PTypesOf(env)
  BY DEF DInv, MainTyped, Sites, Envs, PTypesOf
<1>3. Spoilt' \/ (Intact /\ parser' = Parse(parser, EndLine(env, ptype)) /\ ~lost')
  BY <1>1, <1>2, LinePrinted, EndLineParsed
<1>4. CASE Spoilt'
  BY <1>1, <1>4, SpoiltJudged
<1>5. CASE Intact /\ parser' = Parse(parser, EndLine(env, ptype)) /\ ~lost'
  <2>1. /\ ~parser.raised
        /\ parser.currEnv = env /\ parser.currPType = ptype
        /\ Len(parser.measurements) = 2
        /\ parser.measurements[1] = iteration + 1
    BY <1>1, <1>5 DEF DInv, OutputUnderstood, Intact
  <2>2. MeasuredFor(parser, ptype, iteration) /\ parser.measurements # <<>>
    BY <1>1, <2>1 DEF MeasuredFor
  <2>3. Closable(parser, env, ptype)
    BY <1>1, <1>2, <2>1, <2>2 DEF Closable
  <2> QED
    BY <1>1, <1>5, <2>2, <2>3, EndJudged
<1> QED
  BY <1>3, <1>4, <1>5

-----------------------------------------------------------------------------
(* The verdict.                                                            *)

\* A program that fails is not read by the script.
LEMMA GivesUpJudged ==
  ASSUME DInv, EnclaveInitThrows \/ ScriptGivesUp
  PROVE  Judged'
BY DEF EnclaveInitThrows, ScriptGivesUp, Judged, OutputUnderstood, InProgram,
       ExitJudged, ScriptJudged, AcceptedRunnersAreWhole, CompleteRunsAreAccepted

\* The output of the native program leaves the measurements of the other one
\* alone, and its first line meets a parser at rest or is refused.
LEMMA NativeOutputParsed ==
  ASSUME parser \in Parsers, ScriptParses
  PROVE  /\ \A e \in Sites, p \in PTypes : parser'.res[e][p] = parser.res[e][p]
         /\ ~parser'.raised => ~parser.raised /\ AtRest(parser)
         /\ ~parser.raised /\ AtRest(parser) => ~parser'.raised
<1> DEFINE t == Parse(parser, StartLine("Native", "plain"))
           u == Parse(t, TimeLine("Native", 1))
<1>1. "Native" \in Envs /\ "plain" \in PTypes /\ "plain" \in PTypesOf("Native")
  BY DEF Envs, PTypes, PTypesOf
<1>2. /\ Keeps(parser, t)
      /\ ~t.raised <=> ~parser.raised /\ AtRest(parser)
      /\ ~t.raised => t.currEnv = "Native" /\ t.currPType = "plain"
                      /\ t.measurements = <<>>
  BY <1>1, StartLineParsed
<1>3. /\ Keeps(t, u)
      /\ t.raised => u.raised
      /\ ~t.raised => /\ ~u.raised
                      /\ u.currEnv = "Native" /\ u.currPType = "plain"
                      /\ u.measurements = <<1>>
  <2> HIDE DEF t
  <2>1. t \in Parsers
    BY <1>2 DEF Keeps
  <2> QED
    BY <1>1, <1>2, <2>1, TimeLineParsed
<1>4. parser' = Parse(u, EndLine("Native", "plain"))
  BY DEF ScriptParses
<1> HIDE DEF t, u
<1>5. ~t.raised => Closable(u, "Native", "plain")
  <2>1. <<1>> # <<>>
    OBVIOUS
  <2> QED
    BY <1>1, <1>3, <2>1 DEF Closable
<1>6. /\ \A f \in Envs : \A q \in PTypesOf(f) :
           f # "Native" \/ q # "plain" => parser'.res[f][q] = u.res[f][q]
      /\ u.raised => parser'.raised
      /\ Closable(u, "Native", "plain") => ~parser'.raised
  <2>1. u \in Parsers
    BY <1>3 DEF Keeps
  <2> QED
    BY <1>1, <1>4, <2>1, EndLineParsed
<1>7. u.res = parser.res
  BY <1>2, <1>3 DEF Keeps
<1>8. \A e \in Sites, p \in PTypes : parser'.res[e][p] = parser.res[e][p]
  BY <1>6, <1>7 DEF Sites, Envs, PTypesOf
<1> QED
  BY <1>2, <1>3, <1>5, <1>6, <1>8

\* The script accepts what is whole, and all that is complete.
LEMMA ParsedJudged ==
  ASSUME DInv, ScriptParses
  PROVE  Judged'
<1>1. /\ at = "exit" /\ at' = "parsed" /\ exitCode = "success"
      /\ UNCHANGED <<benchmark, lost, exitCode, result>> /\ parser \in Parsers
      /\ env = "Enclave"
  BY DEF ScriptParses, DInv, MainTyped, UntrustedSecured
<1>2. /\ Intact /\ Resting => \A p \in PTypes : Whole("Enclave", p)
      /\ benchmark => lost \/ Intact
      /\ Intact /\ result["Enclave"] = "true" =>
           Resting /\ \A p \in PTypes : Measured("Enclave", p)
      /\ benchmark \/ ~parser.raised => \A p \in PTypes : Measured("Untrusted", p)
  BY <1>1 DEF DInv, ExitJudged, UntrustedSecured
<1>3. /\ \A e \in Sites, p \in PTypes : parser'.res[e][p] = parser.res[e][p]
      /\ ~parser'.raised => ~parser.raised /\ Resting
      /\ ~parser.raised /\ Resting => ~parser'.raised
  BY <1>1, NativeOutputParsed DEF Resting
<1>4. \A e \in Sites, p \in PTypes : Measured(e, p) => Measured(e, p)'
  BY <1>3 DEF Measured, InOrder
<1>5. ~parser'.raised =>
        /\ \A p \in PTypes : Measured("Untrusted", p)'
        /\ ~lost => \A p \in PTypes :
             parser'.res["Enclave"][p] = <<>> \/ Measured("Enclave", p)'
  BY <1>2, <1>3, <1>4 DEF Sites, Whole, Intact
<1>6. AcceptedRunnersAreWhole'
  BY <1>1, <1>5 DEF AcceptedRunnersAreWhole
<1>7. CompleteRunsAreAccepted'
  <2>1. ASSUME benchmark, ~lost, result["Enclave"] = "true"
        PROVE  /\ ~parser'.raised
               /\ \A e \in Sites, p \in PTypes : Measured(e, p)'
    <3>1. ~parser.raised /\ Resting
      BY <1>2, <2>1 DEF Intact
    <3> QED
      BY <1>2, <1>3, <1>4, <2>1, <3>1 DEF Sites
  <2> QED
    BY <1>1, <2>1 DEF CompleteRunsAreAccepted, Sites
<1>8. ScriptJudged'
  BY <1>1, <1>6, <1>7 DEF ScriptJudged
<1> QED
  BY <1>1, <1>8 DEF Judged, OutputUnderstood, InProgram, ExitJudged

\* Every step keeps what is known of the output.
LEMMA JudgedKept ==
  ASSUME DInv, MainNext
  PROVE  Judged'
<1>1. CASE EnclaveInitThrows \/ ScriptGivesUp
  BY <1>1, GivesUpJudged
<1>2. CASE ConstructRunner
  BY <1>2, ConstructJudged
<1>3. CASE ConstructionThrows \/ CallThrows \/ CallRefused \/ ResetThrows
  BY <1>3, FailureJudged
  DEF ConstructionThrows, CallThrows, CallRefused, ResetThrows
<1>4. CASE BeginIteration
  BY <1>4, BeginJudged
<1>5. CASE GuestRuns
  BY <1>5, GuestJudged
<1>6. CASE StopBenchmark
  BY <1>6, StopJudged
<1>7. CASE PlainIterationEnds
  BY <1>7, PlainEndJudged
<1>8. CASE InstrumentedCallReturns
  BY <1>8, CounterJudged
<1>9. CASE InstrumentedIterationEnds
  BY <1>9, InstrumentedEndJudged
<1>10. CASE NextRunner
  BY <1>10, NextRunnerJudged
<1>11. CASE Completes
  BY <1>11, CompletionJudged
<1>12. CASE ScriptParses
  BY <1>12, ParsedJudged
<1> QED
  BY <1>1, <1>2, <1>3, <1>4, <1>5, <1>6, <1>7, <1>8, <1>9, <1>10, <1>11,
     <1>12 DEF MainNext

-----------------------------------------------------------------------------
(* The measurements of the untrusted environment.                          *)

\* What the enclave prints leaves the measurements of the others alone.
UntrustedStays ==
  /\ parser.raised => parser'.raised
  /\ \A p \in PTypes : parser'.res["Untrusted"][p] = parser.res["Untrusted"][p]

\* One line of the enclave does.
LEMMA EnclaveLineStays ==
  ASSUME NEW line, PrintStr(line),
         parser.raised => Parse(parser, line).raised,
         \A p \in PTypes : Parse(parser, line).res["Untrusted"][p]
                            = parser.res["Untrusted"][p]
  PROVE  UntrustedStays
BY DEF PrintStr, UntrustedStays

\* And so does every step of the enclave.
LEMMA EnclaveStepStays ==
  ASSUME DInv, MainNext, env = "Enclave"
  PROVE  UntrustedStays
<1>1. /\ parser \in Parsers /\ env \in Envs /\ ptype \in PTypes
      /\ iteration + 1 \in Nat /\ "Untrusted" \in Envs
      /\ PTypesOf("Untrusted") = PTypes
  BY DEF DInv, MainTyped, Sites, Envs, PTypesOf
<1>2. CASE BeginIteration
  <2>1. Parse(parser, StartLine(env, ptype)).res = parser.res
        /\ (parser.raised => Parse(parser, StartLine(env, ptype)).raised)
    BY <1>1, StartLineParsed DEF Keeps
  <2> QED
    BY <1>2, <2>1, EnclaveLineStays DEF BeginIteration
<1>3. CASE StopBenchmark
  <2>1. Parse(parser, TimeLine(env, iteration + 1)).res = parser.res
        /\ (parser.raised => Parse(parser, TimeLine(env, iteration + 1)).raised)
    BY <1>1, TimeLineParsed DEF Keeps
  <2> QED
    BY <1>3, <2>1, EnclaveLineStays DEF StopBenchmark
<1>4. CASE InstrumentedCallReturns
  <2>1. IInv'
    BY RunnerKeepsInv
  <2>2. m_counter' \in Nat
    BY <2>1, ModulusAssumption DEF IInv, TypeOK, UInt64
  <2>3. PICK n \in Nat : n = m_counter'
    BY <2>2
  <2>4. Parse(parser, CounterLine(env, n)).res = parser.res
        /\ (parser.raised => Parse(parser, CounterLine(env, n)).raised)
    BY <1>1, CounterLineParsed DEF Keeps
  <2>5. PrintStr(CounterLine(env, n))
    BY <1>4, <2>3 DEF InstrumentedCallReturns
  <2> QED
    BY <2>4, <2>5, EnclaveLineStays
<1>5. CASE PlainIterationEnds \/ InstrumentedIterationEnds
  <2>1. /\ \A p \in PTypes : Parse(parser, EndLine(env, ptype)).res["Untrusted"][p]
                              = parser.res["Untrusted"][p]
        /\ parser.raised => Parse(parser, EndLine(env, ptype)).raised
    BY <1>1, EndLineParsed
  <2>2. PrintStr(EndLine(env, ptype))
    BY <1>5 DEF PlainIterationEnds, InstrumentedIterationEnds
  <2> QED
    BY <2>1, <2>2, EnclaveLineStays
<1>6. CASE ScriptParses
  BY <1>1, <1>6, NativeOutputParsed DEF UntrustedStays, Sites
<1>7. CASE UNCHANGED parser
  BY <1>7 DEF UntrustedStays
<1> QED
  BY <1>2, <1>3, <1>4, <1>5, <1>6, <1>7
  DEF MainNext, EnclaveInitThrows, ConstructRunner, ConstructionThrows,
      GuestRuns, mainVars, CallThrows, CallRefused, ResetThrows, NextRunner,
      Completes, ScriptGivesUp

\* The step into the enclave, with every iteration outside in the output.
LEMMA SecuredOnEntry ==
  ASSUME DInv, Completes, env = "Untrusted"
  PROVE  UntrustedSecured'
<1>1. /\ at = "loop" /\ iteration = Repeat /\ ptype = "instrumented"
      /\ UNCHANGED output /\ UNCHANGED fixed /\ Conclude(TRUE) /\ InProgram
      /\ parser \in Parsers /\ exitCode = "none" /\ ~lost
  BY DEF Completes, DInv, MainTyped, InProgram, OutputUnderstood, UntrustedSecured
<1>2. /\ env' = "Enclave" /\ exitCode' = "none" /\ ~lost'
      /\ result'["Untrusted"] = "true"
  BY <1>1 DEF Conclude, DInv, MainTyped, Sites
<1>3. ASSUME benchmark \/ ~parser.raised, NEW p \in PTypes
      PROVE  Measured("Untrusted", p)'
  <2>1. Intact
    BY <1>1, <1>3 DEF DInv, OutputUnderstood, Intact
  <2>2. Counted(parser, "Untrusted", p, Finished("Untrusted", p))
    BY <1>1, <2>1 DEF DInv, OutputUnderstood, Sites
  <2>3. Finished("Untrusted", p) = Repeat
    BY <1>1 DEF Finished, PTypes
  <2>4. Measured("Untrusted", p)
    BY <1>1, <2>2, <2>3, CountedMeasured DEF Sites
  <2> QED
    BY <1>1, <2>4, MeasuredStays DEF Envs
<1> QED
  BY <1>1, <1>2, <1>3 DEF UntrustedSecured

\* Every step keeps the measurements from outside the enclave secure.
LEMMA SecuredKept ==
  ASSUME DInv, MainNext
  PROVE  UntrustedSecured'
<1>1. CASE Completes /\ env = "Untrusted"
  BY <1>1, SecuredOnEntry
<1>2. CASE env = "Untrusted" /\ ~Completes
  <2>1. /\ ~lost /\ exitCode # "success"
    BY <1>2 DEF DInv, UntrustedSecured
  <2>2. env' = "Untrusted" /\ exitCode' # "success" /\ ~lost'
    BY <1>2, <2>1
    DEF MainNext, EnclaveInitThrows, ConstructRunner, ConstructionThrows,
        BeginIteration, GuestRuns, mainVars, StopBenchmark, PlainIterationEnds,
        InstrumentedCallReturns, CallThrows, CallRefused,
        InstrumentedIterationEnds, ResetThrows, NextRunner, ScriptGivesUp,
        ScriptParses, Conclude, PrintStr
  <2> QED
    BY <2>2 DEF UntrustedSecured
<1>3. CASE env = "Enclave"
  <2>1. UntrustedStays
    BY <1>3, EnclaveStepStays
  <2>2. \A p \in PTypes : Measured("Untrusted", p) => Measured("Untrusted", p)'
    BY <2>1 DEF UntrustedStays, Measured, InOrder
  <2>3. /\ env' = "Enclave" /\ benchmark' = benchmark
        /\ result'["Untrusted"] = result["Untrusted"]
        /\ exitCode' = "success" => result'["Enclave"] # "none"
    BY <1>3
    DEF DInv, MainTyped, UntrustedSecured, Sites,
        MainNext, EnclaveInitThrows, ConstructRunner, ConstructionThrows,
        BeginIteration, GuestRuns, mainVars, StopBenchmark, PlainIterationEnds,
        InstrumentedCallReturns, CallThrows, CallRefused,
        InstrumentedIterationEnds, ResetThrows, NextRunner, Completes,
        ScriptGivesUp, ScriptParses, Conclude
  <2>4. /\ result["Untrusted"] = "true"
        /\ benchmark \/ ~parser.raised => \A p \in PTypes : Measured("Untrusted", p)
    BY <1>3 DEF DInv, UntrustedSecured
  <2>5. parser.raised => parser'.raised
    BY <2>1 DEF UntrustedStays
  <2> QED
    BY <2>2, <2>3, <2>4, <2>5 DEF UntrustedSecured
<1> QED
  BY <1>1, <1>2, <1>3 DEF DInv, MainTyped, Sites

-----------------------------------------------------------------------------
(* The theorems.                                                           *)

\* A program that starts has a fresh runner and an empty output.
LEMMA DInvInit == MainInit => DInv
<1> SUFFICES ASSUME MainInit PROVE DInv
  OBVIOUS
<1>1. IInv
  <2>1. files.plain \in Modules
    BY FilesAssumption DEF MainInit
  <2>2. Init
    BY <2>1 DEF MainInit, Init, Constructed, Instantiated
  <2> QED
    BY <2>2, InvInit
<1>2. parser = Clean /\ Clean \in Parsers
  <2> DEFINE none == [e \in Envs |-> [p \in PTypesOf(e) |-> <<>>]]
  <2>1. <<>> \in Seq(Nat) /\ <<>> \in Seq(Seq(Nat))
    OBVIOUS
  <2>2. \A e \in Envs : none[e] \in [PTypesOf(e) -> Seq(Seq(Nat))]
    BY <2>1
  <2>3. none \in [Envs -> UNION {[PTypesOf(e) -> Seq(Seq(Nat))] : e \in Envs}]
    BY <2>2
  <2>4. none \in Results
    BY <2>2, <2>3 DEF Results
  <2>5. parser = Clean /\ Clean.res = none
    BY DEF MainInit, Clean
  <2> HIDE DEF none
  <2>6. Clean = [res |-> none, currEnv |-> "", currPType |-> "",
                 measurements |-> <<>>, raised |-> FALSE]
    BY DEF Clean, none
  <2>7. Clean \in Parsers
    BY <2>1, <2>4, <2>6 DEF Parsers
  <2> QED
    BY <2>5, <2>7
<1>3. MainTyped
  <2>1. parser \in Parsers
    BY <1>2
  <2>2. files \in [plain : PlainModules, instrumented : InstrumentedModules]
    BY DEF MainInit
  <2>3. iteration \in 0 .. Repeat
    BY RepeatAssumption DEF MainInit
  <2>4. result \in [Sites -> {"none", "true", "false"}]
    BY DEF MainInit, Sites
  <2>5. /\ benchmark \in BOOLEAN /\ lost \in BOOLEAN
        /\ env \in Sites /\ ptype \in PTypes /\ at \in Places
        /\ timed \in BOOLEAN /\ exitCode \in {"none", "success", "failure"}
    BY DEF MainInit, Sites, PTypes, Places
  <2> QED
    BY <2>1, <2>2, <2>3, <2>4, <2>5 DEF MainTyped
<1>4. CallInPlace /\ IterationIsFresh /\ IterationVerdicts
  BY DEF MainInit, Constructed, Instantiated, CallInPlace, IterationIsFresh,
         IterationVerdicts, InstrumentedCallRan, ReportIsOwnWork, Running
<1>5. ASSUME NEW e \in Sites, NEW p \in PTypes
      PROVE  Counted(parser, e, p, Finished(e, p))
  <2>1. Finished(e, p) = 0
    BY DEF MainInit, Finished, Sites, PTypes
  <2>2. parser.res[e][p] = <<>>
    <3>1. e \in Envs /\ p \in PTypesOf(e)
      BY DEF Sites, Envs, PTypesOf
    <3> QED
      BY <1>2, <3>1 DEF Clean
  <2> QED
    BY <2>1, <2>2 DEF Counted
<1>6. OutputUnderstood
  <2>1. Resting /\ ~parser.raised
    BY <1>2 DEF Resting, AtRest, Clean
  <2>2. exitCode = "none" /\ at = "construct" /\ ~lost
    BY DEF MainInit
  <2> QED
    BY <1>5, <2>1, <2>2 DEF OutputUnderstood, Intact
<1>7. UntrustedSecured /\ ExitJudged /\ ScriptJudged
  BY DEF MainInit, UntrustedSecured, ExitJudged, ScriptJudged,
         AcceptedRunnersAreWhole, CompleteRunsAreAccepted
<1> QED
  BY <1>1, <1>3, <1>4, <1>6, <1>7 DEF DInv

\* A step that changes nothing keeps everything.
LEMMA DInvStutter ==
  ASSUME DInv, UNCHANGED allVars
  PROVE  DInv'
<1>1. UNCHANGED vars /\ UNCHANGED mainVars
  BY DEF allVars
<1>2. IInv'
  BY <1>1, InvStep DEF DInv
<1>3. MainTyped'
  BY <1>1 DEF mainVars, DInv, MainTyped
<1>5. OutputUnderstood'
  <2>1. UNCHANGED <<benchmark, env, ptype, at, iteration, timed, lost, exitCode,
                    parser>>
    BY <1>1 DEF mainVars
  <2>2. \A e \in Sites, p \in PTypes : Finished(e, p)' = Finished(e, p)
    BY <2>1 DEF Finished
  <2>3. OutputUnderstood /\ (InProgram' => InProgram) /\ (Resting => Resting')
        /\ (Intact' <=> Intact)
    BY <2>1 DEF DInv, InProgram, Resting, AtRest, Intact
  <2> QED
    BY <2>1, <2>2, <2>3 DEF OutputUnderstood
<1>6. UntrustedSecured' /\ ExitJudged' /\ ScriptJudged'
  <2>1. UNCHANGED <<benchmark, env, at, lost, exitCode, result, parser>>
    BY <1>1 DEF mainVars
  <2>2. \A e \in Sites, p \in PTypes : Measured(e, p) => Measured(e, p)'
    BY <2>1, MeasuredStays DEF Sites, Envs
  <2>3. \A p \in PTypes : Whole("Enclave", p) => Whole("Enclave", p)'
    BY <2>1, MeasuredStays DEF Envs
  <2>4. /\ UntrustedSecured /\ ExitJudged /\ ScriptJudged
        /\ (Resting' <=> Resting) /\ (Intact' <=> Intact)
    BY <2>1 DEF DInv, Resting, AtRest, Intact
  <2>5. ExitJudged'
    BY <2>1, <2>2, <2>3, <2>4 DEF ExitJudged, Sites
  <2>6. UntrustedSecured'
    BY <2>1, <2>2, <2>4 DEF UntrustedSecured, Sites
  <2>7. ScriptJudged'
    BY <2>1, <2>2, <2>4
    DEF ScriptJudged, AcceptedRunnersAreWhole, CompleteRunsAreAccepted, Sites
  <2> QED
    BY <2>5, <2>6, <2>7
<1>4. CallInPlace' /\ IterationIsFresh' /\ IterationVerdicts'
  BY <1>1
  DEF vars, instanceVars, runnerVars, mainVars, DInv, CallInPlace, Running,
      IterationIsFresh, IterationVerdicts, InstrumentedCallRan, ReportIsOwnWork
<1> QED
  BY <1>2, <1>3, <1>4, <1>5, <1>6 DEF DInv

\* The invariant holds throughout.
THEOREM MainInvariance == MainSpec => []DInv
<1>1. DInv /\ [MainNext]_allVars => DInv'
  <2> SUFFICES ASSUME DInv, [MainNext]_allVars PROVE DInv'
    OBVIOUS
  <2>1. CASE MainNext
    BY <2>1, RunnerKeepsInv, MainTypesKept, HistoryKept, JudgedKept, SecuredKept
    DEF DInv, History, Judged
  <2>2. CASE UNCHANGED allVars
    BY <2>2, DInvStutter
  <2> QED
    BY <2>1, <2>2
<1> QED
  BY <1>1, DInvInit, PTL DEF MainSpec

\* DecentMain's state is well typed.
THEOREM MainTypes == MainSpec => []MainTypeOK
<1>1. DInv => MainTypeOK
  BY DEF DInv, IInv, MainTyped, MainTypeOK, Sites, Parsers
<1> QED
  BY <1>1, MainInvariance, PTL

\* DecentWasmMain drops what RunInstrumented returns, and loses nothing by it:
\* a call that returns has entered decent_wasm_main.
THEOREM CallsRan == MainSpec => []InstrumentedCallRan
<1>1. DInv => InstrumentedCallRan
  BY DEF DInv, IterationVerdicts
<1> QED
  BY <1>1, MainInvariance, PTL

\* The counter printed for an iteration is that iteration's work.
THEOREM ReportsOwnWork == MainSpec => []ReportIsOwnWork
<1>1. DInv => ReportIsOwnWork
  BY DEF DInv, IterationVerdicts
<1> QED
  BY <1>1, MainInvariance, PTL

\* Exit code 0 comes with an enclave that was entered and, of a benchmark, with
\* a measurement of every iteration outside it.
THEOREM SuccessMeasured == MainSpec => []SuccessMeansUntrustedMeasured
<1>1. DInv => SuccessMeansUntrustedMeasured
  BY DEF DInv, UntrustedSecured, SuccessMeansUntrustedMeasured
<1> QED
  BY <1>1, MainInvariance, PTL

\* The script accepts no half-measured runner, nor with lost lines one of the
\* untrusted environment.
THEOREM AcceptedWhole == MainSpec => []AcceptedRunnersAreWhole
<1>1. DInv => AcceptedRunnersAreWhole
  BY DEF DInv, ScriptJudged
<1> QED
  BY <1>1, MainInvariance, PTL

\* The script accepts every complete run of a benchmark whose lines all reach
\* it, and all of its measurements.
THEOREM CompleteAccepted == MainSpec => []CompleteRunsAreAccepted
<1>1. DInv => CompleteRunsAreAccepted
  BY DEF DInv, ScriptJudged
<1> QED
  BY <1>1, MainInvariance, PTL

\* DecentWasmMain uses a runner only through the steps MainRunner has, or puts
\* a new one in its place; so MainRunner, checked on its own, is the runner of
\* the program.
THEOREM RunnerUsedAsSpecified ==
  MainSpec => [][NewRunner \/ Next]_vars
<1>1. DInv /\ [MainNext]_allVars => [NewRunner \/ Next]_vars
  <2> SUFFICES ASSUME DInv, [MainNext]_allVars
               PROVE  [NewRunner \/ Next]_vars
    OBVIOUS
  <2>1. CASE MainNext
    BY <2>1, StepOfRunner
  <2>2. CASE UNCHANGED allVars
    BY <2>2 DEF allVars
  <2> QED
    BY <2>1, <2>2
<1> QED
  BY <1>1, MainInvariance, PTL DEF MainSpec

\* In the program too no call spends more than its budget, every report is
\* the counter's, and no result comes from an instance that has failed.
THEOREM RunnerPromisesKept ==
  MainSpec => [](BudgetRespected /\ ReportIsExact /\ NoResultFromFailedInstance)
<1>1. DInv => BudgetRespected /\ ReportIsExact /\ NoResultFromFailedInstance
  BY DEF DInv, IInv
<1> QED
  BY <1>1, MainInvariance, PTL

\* Nor does any call of the program do more work than its threshold and one
\* block.
THEOREM OverrunInProgram == MainSpec => []OverrunIsOneBlock
<1>1. MainInit => OverrunIsOneBlock
  BY DEF MainInit, Constructed, OverrunIsOneBlock
<1>2. DInv /\ OverrunIsOneBlock /\ [MainNext]_allVars => OverrunIsOneBlock'
  <2> SUFFICES ASSUME DInv, OverrunIsOneBlock, [MainNext]_allVars
               PROVE  OverrunIsOneBlock'
    OBVIOUS
  <2>1. NewRunner \/ [Next]_vars
    BY StepOfRunner DEF allVars
  <2>2. CASE NewRunner
    BY <2>2 DEF NewRunner, ConstructAnother, OverrunIsOneBlock
  <2>3. CASE [Next]_vars
    BY <2>3, OverrunStep DEF DInv
  <2> QED
    BY <2>1, <2>2, <2>3
<1> QED
  BY <1>1, <1>2, MainInvariance, PTL DEF MainSpec

\* The program makes budgeted calls, one after another, and starts over with
\* each runner.
THEOREM ProgramMakesBudgetedCalls ==
  MainSpec => /\ Abstract!Init
              /\ [][Abstract!Next \/ Abstract!Init']_(Abstract!bvars)
<1>1. MainInit => Abstract!Init
  BY DEF MainInit, Constructed, Instantiated, Abstract!Init, Status
<1>2. DInv /\ [MainNext]_allVars =>
        [Abstract!Next \/ Abstract!Init']_(Abstract!bvars)
  <2> SUFFICES ASSUME DInv, [MainNext]_allVars
               PROVE  AbstractNext \/ Abstract!Init'
    BY DEF AbstractNext
  <2>1. NewRunner \/ [Next]_vars
    BY StepOfRunner DEF allVars
  <2>2. CASE NewRunner
    BY <2>2 DEF NewRunner, ConstructAnother, InstantiateAnother, Abstract!Init, Status
  <2>3. CASE [Next]_vars
    BY <2>3, StepRefines DEF DInv
  <2> QED
    BY <2>1, <2>2, <2>3
<1> QED
  BY <1>1, <1>2, MainInvariance, PTL DEF MainSpec

-----------------------------------------------------------------------------
(* Progress: what is left of the benchmark gets smaller with every step.   *)

\* The runners that are still to be used, this one included.
RunnersLeft ==
  IF ~InProgram THEN 0
  ELSE (IF env = "Untrusted" THEN 2 ELSE 0) + (IF ptype = "plain" THEN 2 ELSE 1)

\* The iterations this runner has still to finish, and its construction.
IterationsLeft ==
  IF ~InProgram THEN 0
  ELSE IF at = "construct" THEN Repeat + 1 ELSE Repeat - iteration

\* What stopping the clock, once or again, can still change.
StopsLeftOf(t, l, s) ==
  (IF t THEN 0 ELSE 1) + (IF l THEN 0 ELSE 1)
  + (IF s.raised THEN 0 ELSE 1) + (IF s.measurements = <<>> THEN 1 ELSE 0)

StopsLeft == StopsLeftOf(timed, lost, parser)

\* The steps of this iteration, and behind the exit those of the script.
IterationStepsLeft ==
  CASE at = "loop"  -> Modulus + 9
    [] at = "call"  -> StepsLeft + StopsLeft + 2
    [] at = "reset" -> 1
    [] at = "exit"  -> 1
    [] OTHER        -> 0

\* The lexicographic order of the three, which has no infinite descent.
Shrinks ==
  \/ RunnersLeft' < RunnersLeft
  \/ /\ RunnersLeft' = RunnersLeft
     /\ \/ IterationsLeft' < IterationsLeft
        \/ /\ IterationsLeft' = IterationsLeft
           /\ IterationStepsLeft' < IterationStepsLeft

\* All three are natural numbers.
LEMMA LeftTyped ==
  ASSUME DInv
  PROVE  RunnersLeft \in Nat /\ IterationsLeft \in Nat /\ IterationStepsLeft \in Nat
<1>1. iteration \in Nat /\ iteration <= Repeat /\ Repeat \in Nat /\ Modulus \in Nat
      /\ StepsLeft \in Nat
  BY RepeatAssumption, ModulusAssumption, StepsLeftTyped DEF DInv, MainTyped, IInv
<1>2. StopsLeft \in 0 .. 4
  BY DEF StopsLeft, StopsLeftOf
<1> QED
  BY <1>1, <1>2 DEF RunnersLeft, IterationsLeft, IterationStepsLeft

\* The program ends or goes on to the enclave with fewer runners to use.
LEMMA ConclusionShrinks ==
  ASSUME DInv, InProgram, NEW success \in BOOLEAN, Conclude(success),
         success => ptype = "instrumented"
  PROVE  Shrinks
<1>1. env \in {"Untrusted", "Enclave"} /\ ptype \in {"plain", "instrumented"}
  BY DEF DInv, MainTyped, Sites, PTypes
<1>2. CASE at' = "exit"
  BY <1>1, <1>2 DEF Shrinks, RunnersLeft, InProgram
<1>3. CASE at' # "exit"
  BY <1>1, <1>3 DEF Conclude, Shrinks, RunnersLeft, InProgram
<1> QED
  BY <1>2, <1>3

\* A call takes no more steps than an iteration reckons with.
StepsBounded == StepsLeft \in Nat /\ StepsLeft <= Modulus + 2

\* It is bounded by the width of the counter.
LEMMA StepsLeftBounded == DInv => StepsBounded
<1> SUFFICES ASSUME DInv PROVE StepsBounded
  OBVIOUS
<1>1. Allowance \in Nat /\ Allowance < Modulus /\ Modulus \in Nat
  BY AllowanceTyped, ModulusAssumption DEF DInv, IInv, TypeOK, InstanceTypeOK, Allowance
<1>2. frame \in {"none", "entry", "body", "returned"}
  BY DEF DInv, IInv, TypeOK, InstanceTypeOK
<1> QED
  BY <1>1, <1>2 DEF StepsLeft, StepsBounded

\* A stop that changes anything leaves fewer that do.
LEMMA StopCounts ==
  ASSUME NEW t \in BOOLEAN, NEW l \in BOOLEAN, NEW s \in Parsers,
         NEW l2 \in BOOLEAN, NEW s2 \in Parsers,
         \/ /\ s2 = s
            /\ l2 \/ l2 = l
         \/ /\ l2 = l
            /\ s.raised => s2.raised
            /\ s.measurements # <<>> => s2.measurements # <<>>
            /\ \/ ~s.raised /\ s2.raised
               \/ s.measurements = <<>> /\ s2.measurements # <<>>
  PROVE  \/ t /\ s2 = s /\ l2 = l
         \/ StopsLeftOf(TRUE, l2, s2) < StopsLeftOf(t, l, s)
BY DEF StopsLeftOf

\* A clock that is stopped, once or again, changes less every time and at last
\* nothing.
LEMMA StopShrinks ==
  ASSUME DInv, StopBenchmark
  PROVE  Shrinks \/ UNCHANGED allVars
<1>1. /\ at = "call" /\ timed' = TRUE /\ UNCHANGED vars
      /\ UNCHANGED <<files, benchmark, env, ptype, at, iteration, result, exitCode>>
      /\ PrintStr(TimeLine(env, iteration + 1))
  BY DEF StopBenchmark
<1>2. /\ parser \in Parsers /\ env \in Envs /\ iteration + 1 \in Nat
      /\ timed \in BOOLEAN /\ lost \in BOOLEAN
  BY DEF DInv, MainTyped, Sites, Envs
<1>3. StepsLeft' = StepsLeft /\ StepsLeft \in Nat
  <2>1. StepsLeft \in Nat
    BY StepsLeftBounded DEF StepsBounded
  <2> QED
    BY <1>1, <2>1 DEF vars, instanceVars, StepsLeft, Allowance
<1>4. \/ parser' = parser /\ (lost' = TRUE \/ lost' = lost)
      \/ /\ lost' = lost /\ parser' \in Parsers
         /\ parser.raised => parser'.raised
         /\ parser.measurements # <<>> => parser'.measurements # <<>>
         /\ \/ ~parser.raised /\ parser'.raised
            \/ parser.measurements = <<>> /\ parser'.measurements # <<>>
  <2>1. CASE parser' = Parse(parser, TimeLine(env, iteration + 1)) /\ lost' = lost
    BY <1>2, <2>1, TimeLineParsed DEF Keeps
  <2>2. CASE UNCHANGED parser /\ lost'
    BY <2>2
  <2> QED
    BY <1>1, <2>1, <2>2 DEF PrintStr
<1>5. \/ timed = timed' /\ parser' = parser /\ lost' = lost
      \/ StopsLeft' < StopsLeft
  <2>1. PICK l \in BOOLEAN, s \in Parsers : l = lost' /\ s = parser'
    BY <1>2, <1>4
  <2>2. \/ /\ s = parser
           /\ l \/ l = lost
        \/ /\ l = lost
           /\ parser.raised => s.raised
           /\ parser.measurements # <<>> => s.measurements # <<>>
           /\ \/ ~parser.raised /\ s.raised
              \/ parser.measurements = <<>> /\ s.measurements # <<>>
    BY <1>4, <2>1
  <2>3. \/ timed /\ s = parser /\ l = lost
        \/ StopsLeftOf(TRUE, l, s) < StopsLeftOf(timed, lost, parser)
    BY <1>2, <2>2, StopCounts
  <2> QED
    BY <1>1, <1>2, <2>1, <2>3 DEF StopsLeft
<1>6. CASE timed = timed' /\ parser' = parser /\ lost' = lost
  BY <1>1, <1>6 DEF allVars, mainVars
<1>7. CASE StopsLeft' < StopsLeft
  <2>1. PICK m, n \in Int : m = StopsLeft' /\ n = StopsLeft
    BY DEF StopsLeft, StopsLeftOf
  <2>2. /\ IterationStepsLeft = StepsLeft + n + 2
        /\ IterationStepsLeft' = StepsLeft + m + 2
    BY <1>1, <1>3, <2>1 DEF IterationStepsLeft
  <2>3. IterationStepsLeft' < IterationStepsLeft
    <3>1. m < n
      BY <1>7, <2>1
    <3>2. StepsLeft + m + 2 < StepsLeft + n + 2
      BY <1>3, <3>1
    <3> QED
      BY <2>2, <3>2
  <2> QED
    BY <1>1, <2>3 DEF Shrinks, RunnersLeft, IterationsLeft, InProgram
<1> QED
  BY <1>5, <1>6, <1>7

\* Every step of the program and the script leaves less to do: what
\* BenchmarkEnds needs of the steps, and fairness makes of it that the script
\* gives its verdict.
THEOREM BenchmarkProgress == MainSpec => [][Shrinks]_allVars
<1>1. DInv /\ DInv' /\ [MainNext]_allVars => [Shrinks]_allVars
  <2> SUFFICES ASSUME DInv, DInv', MainNext
               PROVE  Shrinks \/ UNCHANGED allVars
    OBVIOUS
  <2>0. StepsLeft' \in Nat /\ StepsLeft' <= Modulus + 2
    <3>1. DInv'
      OBVIOUS
    <3>2. StepsBounded'
      BY <3>1, StepsLeftBounded, PTL
    <3> QED
      BY <3>2 DEF StepsBounded
  <2> USE DEF InProgram
  <2>1. /\ iteration \in Nat /\ iteration <= Repeat /\ Repeat \in Nat
        /\ Modulus \in Nat /\ StepsLeft \in Nat
        /\ env \in {"Untrusted", "Enclave"} /\ ptype \in {"plain", "instrumented"}
    BY RepeatAssumption, ModulusAssumption, StepsLeftTyped
    DEF DInv, MainTyped, IInv, Sites, PTypes
  <2>2. CASE EnclaveInitThrows
    BY <2>1, <2>2 DEF EnclaveInitThrows, Shrinks, RunnersLeft
  <2>3. CASE ConstructRunner
    BY <2>1, <2>3 DEF ConstructRunner, Shrinks, RunnersLeft, IterationsLeft
  <2>4. CASE ConstructionThrows \/ CallThrows \/ CallRefused \/ ResetThrows
    BY <2>4, ConclusionShrinks
    DEF ConstructionThrows, CallThrows, CallRefused, ResetThrows
  <2>5. CASE Completes
    BY <2>5, ConclusionShrinks DEF Completes
  <2>6. CASE NextRunner
    BY <2>1, <2>6 DEF NextRunner, Shrinks, RunnersLeft
  <2>7. CASE BeginIteration
    <3>1. at = "loop" /\ at' = "call" /\ UNCHANGED <<env, ptype, iteration>>
      BY <2>7 DEF BeginIteration
    <3>2. StepsLeft' \in Nat /\ StepsLeft' <= Modulus + 2
      BY <2>0
    <3>3. StopsLeft' \in 0 .. 4
      BY DEF StopsLeft, StopsLeftOf
    <3>4. IterationStepsLeft' < IterationStepsLeft
      <4>1. IterationStepsLeft = Modulus + 9
        BY <3>1 DEF IterationStepsLeft
      <4>2. IterationStepsLeft' = StepsLeft' + StopsLeft' + 2
        BY <3>1 DEF IterationStepsLeft
      <4>3. PICK m \in Nat, k \in 0 .. 4 : m = StepsLeft' /\ k = StopsLeft'
        BY <3>2, <3>3
      <4>4. m <= Modulus + 2
        BY <3>2, <4>3
      <4>5. m + k + 2 < Modulus + 9
        BY <2>1, <4>4
      <4> QED
        BY <4>1, <4>2, <4>3, <4>5
    <3> QED
      BY <3>1, <3>4 DEF Shrinks, RunnersLeft, IterationsLeft
  <2>8. CASE GuestRuns
    <3>1. /\ at = "call" /\ UNCHANGED <<env, ptype, at, iteration>>
          /\ StopsLeft' = StopsLeft /\ StopsLeft \in 0 .. 4
      <4>1. UNCHANGED <<env, ptype, at, iteration, timed, lost, parser>> /\ at = "call"
        BY <2>8 DEF GuestRuns, mainVars
      <4>2. StopsLeft' = StopsLeft
        BY <4>1 DEF StopsLeft
      <4>3. StopsLeft \in 0 .. 4
        BY DEF StopsLeft, StopsLeftOf
      <4> QED
        BY <4>1, <4>2, <4>3
    <3>2. StepsLeft' < StepsLeft
      <4>1. Next /\ Running
        BY <2>8 DEF GuestRuns, Next, CallStep, GuestStep, Guest, PlainMain,
           InjectedMain, InjectedMainRefuses, Charge, Exit, Trap, MainReturns, Running
      <4> QED
        BY <4>1, CallStepProgress DEF DInv
    <3>3. IterationStepsLeft' < IterationStepsLeft
      BY <2>0, <2>1, <3>1, <3>2 DEF IterationStepsLeft
    <3> QED
      BY <3>1, <3>3 DEF Shrinks, RunnersLeft, IterationsLeft
  <2>9. CASE StopBenchmark
    BY <2>9, StopShrinks
  <2>10. CASE InstrumentedCallReturns
    <3>1. at = "call" /\ at' = "reset" /\ UNCHANGED <<env, ptype, iteration>>
      BY <2>10 DEF InstrumentedCallReturns
    <3>2. IterationStepsLeft' < IterationStepsLeft
      <4>1. StopsLeft \in 0 .. 4
        BY DEF StopsLeft, StopsLeftOf
      <4> QED
        BY <2>1, <3>1, <4>1 DEF IterationStepsLeft
    <3> QED
      BY <3>1, <3>2 DEF Shrinks, RunnersLeft, IterationsLeft
  <2>11. CASE PlainIterationEnds \/ InstrumentedIterationEnds
    <3>1. at \in {"call", "reset"} /\ at' = "loop" /\ iteration' = iteration + 1
          /\ UNCHANGED <<env, ptype>>
      BY <2>11 DEF PlainIterationEnds, InstrumentedIterationEnds
    <3>2. IterationsLeft' < IterationsLeft /\ RunnersLeft' = RunnersLeft
      BY <2>1, <3>1 DEF IterationsLeft, RunnersLeft
    <3> QED
      BY <3>2 DEF Shrinks
  <2>12. CASE ScriptGivesUp \/ ScriptParses
    BY <2>12 DEF ScriptGivesUp, ScriptParses, Shrinks, RunnersLeft,
                 IterationsLeft, IterationStepsLeft
  <2> QED
    BY <2>2, <2>3, <2>4, <2>5, <2>6, <2>7, <2>8, <2>9, <2>10, <2>11, <2>12
    DEF MainNext
<1> QED
  BY <1>1, MainInvariance, PTL DEF MainSpec
=============================================================================
