-------------------------- MODULE BenchmarkSession --------------------------
(***************************************************************************)
(* The script test/polybench/run-benchmark.py over time: sessions that run *)
(* every test case and record its output, sessions that parse what was     *)
(* recorded once more ("reproc"), failures of what they run and parse, and *)
(* sessions that are killed anywhere, with the file that survives them,    *)
(* benchmark.json.                                                         *)
(*                                                                         *)
(* An output is a value of Outputs.  The parser may change between two     *)
(* sessions, which is what reproc is for; a measurement names the parser   *)
(* and the output it was made from.                                        *)
(***************************************************************************)
EXTENDS Naturals, Sequences, SequencesExt

CONSTANTS
  NumCases, \* the number of TEST_CASES
  Outputs,  \* what the two programs of a test case may print
  Parsers,  \* versions of the parser
  Rejected  \* the parsers and outputs that make ParseAllEnvTimePrintout raise

ASSUME CasesAssumption == NumCases \in Nat \ {0}
ASSUME RejectedAssumption == Rejected \subseteq Parsers \X Outputs

VARIABLES
  file,     \* benchmark.json
  script,   \* the version of the parser
  mode,     \* the command of the current or last session
  pc,       \* the next thing the session does, or "idle"
  output,   \* the dictionary the session is going to dump
  finished, \* the test cases it has dumped
  outcome,  \* how the last session ended
  atStart   \* history: benchmark.json when the session started

vars == <<file, script, mode, pc, output, finished, outcome, atStart>>
session == <<mode, output, finished, atStart>>

Measurements == [parser : Parsers, of : Outputs]
Records == [raw : BoundedSeq(Outputs, NumCases),
            measurement : BoundedSeq(Measurements, NumCases)]
Empty  == [raw |-> <<>>, measurement |-> <<>>]
Absent == [status |-> "absent", content |-> Empty]
Torn   == [status |-> "torn", content |-> Empty]
Whole(record) == [status |-> "whole", content |-> record]

TypeOK ==
  /\ file     \in {Absent, Torn} \cup {Whole(r) : r \in Records}
  /\ script   \in Parsers
  /\ mode     \in {"collect", "reproc"}
  /\ pc       \in {"idle", "decent", "native", "parse", "open", "dump"}
  /\ output   \in Records
  /\ finished \in 0 .. NumCases
  /\ outcome  \in {"none", "done", "failed", "killed"}
  /\ atStart  \in {Absent, Torn} \cup {Whole(r) : r \in Records}

Init ==
  /\ file = Absent
  /\ script \in Parsers
  /\ mode = "collect"
  /\ pc = "idle"
  /\ output = Empty
  /\ finished = 0
  /\ outcome = "none"
  /\ atStart = Absent

-----------------------------------------------------------------------------
(* The operator.                                                           *)

EditScript(p) ==
  /\ pc = "idle"
  /\ script' = p
  /\ UNCHANGED <<file, pc, outcome, session>>

\* RunTestsAndCollectData.
StartCollect ==
  /\ pc = "idle"
  /\ mode' = "collect"
  /\ output' = Empty
  /\ finished' = 0
  /\ atStart' = file
  /\ pc' = "decent"
  /\ outcome' = "none"
  /\ UNCHANGED <<file, script>>

\* ReProcRawData: the file is loaded; one that is absent or torn raises.
StartReproc ==
  /\ pc = "idle"
  /\ mode' = "reproc"
  /\ output' = file.content
  /\ finished' = 0
  /\ atStart' = file
  /\ IF file.status = "whole"
     THEN pc' = "parse" /\ outcome' = "none"
     ELSE pc' = "idle" /\ outcome' = "failed"
  /\ UNCHANGED <<file, script>>

\* The session is killed, or cannot write.  What it was writing is torn.
Kill ==
  /\ pc # "idle"
  /\ pc' = "idle"
  /\ outcome' = "killed"
  /\ UNCHANGED <<file, script, session>>

-----------------------------------------------------------------------------
(* The programs of a test case.                                            *)

Raise ==
  /\ pc' = "idle"
  /\ outcome' = "failed"
  /\ UNCHANGED <<file, script, session>>

\* decent_wasm_test exits with 0.
DecentRuns ==
  /\ pc = "decent"
  /\ pc' = "native"
  /\ UNCHANGED <<file, script, outcome, session>>

\* It does not: a file cannot be read, the benchmark fails outside the
\* enclave, the enclave cannot be created, or its launch token not written.
DecentFails ==
  /\ pc = "decent"
  /\ Raise

\* The native program; then both outputs are recorded.
NativeRuns(o) ==
  /\ pc = "native"
  /\ pc' = "parse"
  /\ output' = [output EXCEPT !.raw = Append(@, o)]
  /\ UNCHANGED <<file, script, mode, finished, outcome, atStart>>

\* A variant of NativeFails that runs it again.
NativeFailsRetries ==
  /\ pc = "native"
  /\ pc' = "decent"
  /\ UNCHANGED <<file, script, outcome, session>>

NativeFails ==
  /\ pc = "native"
  /\ Raise

-----------------------------------------------------------------------------
(* Parsing and writing.                                                    *)

Measure(o) == [parser |-> script, of |-> o]

\* A variant of Unparsed that keeps the measurements there are.
UnparsedOnly ==
  SubSeq(output.raw, Len(output.measurement) + 1, Len(output.raw))

\* What is parsed: the new output, or all there is, in place of what was.
Unparsed == IF mode = "collect" THEN UnparsedOnly ELSE output.raw

\* A variant of Parsed that keeps what reproc is to replace.
ParsedBefore == output.measurement

Parsed == IF mode = "collect" THEN output.measurement ELSE <<>>

Parse ==
  /\ pc = "parse"
  /\ \A i \in DOMAIN Unparsed : <<script, Unparsed[i]>> \notin Rejected
  /\ output' = [output EXCEPT !.measurement =
       Parsed \o [i \in DOMAIN Unparsed |-> Measure(Unparsed[i])]]
  /\ pc' = "open"
  /\ UNCHANGED <<file, script, mode, finished, outcome, atStart>>

ParseRaises ==
  /\ pc = "parse"
  /\ \E i \in DOMAIN Unparsed : <<script, Unparsed[i]>> \in Rejected
  /\ Raise

\* open(..., 'w') empties the file.
Open ==
  /\ pc = "open"
  /\ file' = Torn
  /\ pc' = "dump"
  /\ UNCHANGED <<script, outcome, session>>

\* A variant of Dump that is made once, behind the loop.
DumpAtEnd ==
  /\ pc = "dump"
  /\ file' = IF Len(output.raw) = NumCases \/ mode = "reproc"
             THEN Whole(output) ELSE file
  /\ finished' = Len(output.raw)
  /\ IF mode = "collect" /\ finished' < NumCases
     THEN pc' = "decent" /\ UNCHANGED outcome
     ELSE pc' = "idle" /\ outcome' = "done"
  /\ UNCHANGED <<script, mode, output, atStart>>

\* A variant of Dump for a script that keeps the outputs of its own session.
DumpOwn ==
  /\ pc = "dump"
  /\ file' = Whole(IF mode = "collect" THEN output ELSE [output EXCEPT !.raw = <<>>])
  /\ finished' = Len(output.raw)
  /\ IF mode = "collect" /\ finished' < NumCases
     THEN pc' = "decent" /\ UNCHANGED outcome
     ELSE pc' = "idle" /\ outcome' = "done"
  /\ UNCHANGED <<script, mode, output, atStart>>

\* json.dump and the end of the with block; then the next test case.
Dump ==
  /\ pc = "dump"
  /\ file' = Whole(output)
  /\ finished' = Len(output.raw)
  /\ IF mode = "collect" /\ finished' < NumCases
     THEN pc' = "decent" /\ UNCHANGED outcome
     ELSE pc' = "idle" /\ outcome' = "done"
  /\ UNCHANGED <<script, mode, output, atStart>>

\* What the session does on its own.
Proceed ==
  \/ DecentRuns
  \/ DecentFails
  \/ \E o \in Outputs : NativeRuns(o)
  \/ NativeFails
  \/ Parse
  \/ ParseRaises
  \/ Open
  \/ Dump

Next ==
  \/ \E p \in Parsers : EditScript(p)
  \/ StartCollect
  \/ StartReproc
  \/ Kill
  \/ Proceed

\* The operating system runs the script, and its programs end.
Spec == Init /\ [][Next]_vars /\ WF_vars(Proceed)

-----------------------------------------------------------------------------
(* Properties.                                                             *)

\* A file that can be loaded has a measurement for each output, of that
\* output, all by one parser: reproc replaces every measurement or none, and
\* a session never adds to the measurements of another.
MeasuredFromRaw ==
  file.status = "whole" =>
    \E p \in Parsers :
      file.content.measurement =
        [i \in DOMAIN file.content.raw |-> [parser |-> p, of |-> file.content.raw[i]]]

\* Whatever fails, and wherever the session is killed, the finished test cases
\* of the session are on disk, and before the first one is finished, what an
\* earlier session has left.  Only a session killed between emptying the file
\* and writing it loses that, and all of it; the outputs at hand that are not
\* in the file are those of one test case at most.
FinishedIsOnDisk ==
  /\ \/ IF finished = 0
        THEN file = atStart
        ELSE file.status = "whole" /\ Len(file.content.raw) = finished
     \/ file = Torn /\ (pc = "dump" \/ outcome = "killed")
  /\ mode = "collect" => Len(output.raw) <= finished + 1

\* Reproc never changes an output: also the file it has emptied gets back
\* what was in it, unless the session is killed.
ReprocKeepsRaw ==
  [][ mode = "reproc" /\ file'.status = "whole"
        => file'.content.raw = atStart.content.raw ]_vars

\* A session ends: killed, failed, or with every test case it had to do in
\* the file.
SessionEnds ==
  pc # "idle" ~>
    /\ pc = "idle"
    /\ \/ outcome \in {"killed", "failed"}
       \/ Len(file.content.raw) = IF mode = "collect" THEN NumCases
                                  ELSE Len(atStart.content.raw)
=============================================================================
