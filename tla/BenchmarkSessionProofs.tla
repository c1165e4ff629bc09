----------------------- MODULE BenchmarkSessionProofs -----------------------
(***************************************************************************)
(* Proofs about BenchmarkSession, for any number of test cases, any        *)
(* outputs and any parsers.                                                *)
(***************************************************************************)
EXTENDS BenchmarkSession, SequenceTheorems, TLAPS

\* What a parser makes of the first n outputs.
MeasuredBy(p, raw, n) == [i \in 1 .. n |-> [parser |-> p, of |-> raw[i]]]

\* A session under way has not ended yet.
UnderWay == pc # "idle" => outcome = "none"

\* A session that collects has one output per finished test case, and the one
\* it is working on.
CollectsInOrder ==
  pc # "idle" /\ mode = "collect" =>
    /\ finished < NumCases
    /\ Len(output.raw) = IF pc \in {"decent", "native"} THEN finished
                         ELSE finished + 1

\* A session that reprocesses has the outputs it found, and finishes nothing
\* before it has written them again.
ReprocsAll ==
  pc # "idle" /\ mode = "reproc" =>
    /\ pc \notin {"decent", "native"}
    /\ finished = 0
    /\ atStart.status = "whole"
    /\ output.raw = atStart.content.raw

\* What is measured of the output is measured by the parser of this session.
MeasuredSoFar ==
  /\ mode = "collect" /\ pc \in {"decent", "native", "parse"} =>
       output.measurement = MeasuredBy(script, output.raw, finished)
  /\ pc \in {"open", "dump"} =>
       output.measurement = MeasuredBy(script, output.raw, Len(output.raw))

\* A file is never without an output.
NeverEmpty ==
  /\ file.status = "whole" => Len(file.content.raw) > 0
  /\ atStart.status = "whole" => Len(atStart.content.raw) > 0

\* After reproc, and during it, a file has the outputs it had.
ReprocedFile ==
  mode = "reproc" /\ file.status = "whole" =>
    file.content.raw = atStart.content.raw

\* A session that is done has done everything.
DoneIsComplete ==
  pc = "idle" /\ outcome = "done" =>
    /\ file.status = "whole"
    /\ Len(file.content.raw) = IF mode = "collect" THEN NumCases
                               ELSE Len(atStart.content.raw)

BInv ==
  /\ TypeOK
  /\ UnderWay
  /\ CollectsInOrder
  /\ ReprocsAll
  /\ MeasuredSoFar
  /\ MeasuredFromRaw
  /\ NeverEmpty
  /\ ReprocedFile
  /\ FinishedIsOnDisk
  /\ DoneIsComplete

-----------------------------------------------------------------------------
(* Sequences.                                                              *)

\* The bounded sequences are the sequences that are no longer.
LEMMA BoundedIsShort ==
  ASSUME NEW S, NEW s
  PROVE  s \in BoundedSeq(S, NumCases) <=> s \in Seq(S) /\ Len(s) <= NumCases
<1>1. ASSUME s \in BoundedSeq(S, NumCases)
      PROVE  s \in Seq(S) /\ Len(s) <= NumCases
  <2>1. PICK n \in 0 .. NumCases : s \in [1 .. n -> S]
    BY <1>1 DEF BoundedSeq, SeqOf
  <2>2. n \in Nat /\ n <= NumCases
    BY CasesAssumption
  <2>3. s \in Seq(S)
    BY <2>1, <2>2
  <2> QED
    BY <2>1, <2>2, <2>3
<1>2. ASSUME s \in Seq(S), Len(s) <= NumCases
      PROVE  s \in BoundedSeq(S, NumCases)
  <2>1. s \in [1 .. Len(s) -> S] /\ Len(s) \in 0 .. NumCases
    BY <1>2, CasesAssumption
  <2> QED
    BY <2>1 DEF BoundedSeq, SeqOf
<1> QED
  BY <1>1, <1>2

\* A record is two sequences that are not too long.
LEMMA RecordFields ==
  ASSUME NEW r \in Records
  PROVE  /\ r.raw \in Seq(Outputs) /\ Len(r.raw) <= NumCases
         /\ r.measurement \in Seq(Measurements)
         /\ Len(r.measurement) <= NumCases
BY BoundedIsShort DEF Records

\* What a parser makes of outputs is a sequence of measurements.
LEMMA MeasuredTyped ==
  ASSUME NEW p \in Parsers, NEW raw \in Seq(Outputs), NEW n \in 0 .. Len(raw)
  PROVE  /\ MeasuredBy(p, raw, n) \in Seq(Measurements)
         /\ Len(MeasuredBy(p, raw, n)) = n
<1>1. n \in Nat /\ \A i \in 1 .. n : raw[i] \in Outputs
  OBVIOUS
<1>2. MeasuredBy(p, raw, n) \in [1 .. n -> Measurements]
  BY <1>1 DEF MeasuredBy, Measurements
<1> QED
  BY <1>1, <1>2

\* Measurements of the first outputs do not depend on the others.
LEMMA MeasuredOfPrefix ==
  ASSUME NEW p, NEW raw \in Seq(Outputs), NEW o \in Outputs
  PROVE  MeasuredBy(p, Append(raw, o), Len(raw)) = MeasuredBy(p, raw, Len(raw))
BY AppendProperties DEF MeasuredBy

\* The measurements of the first n outputs and those of the others are the
\* measurements of all.
LEMMA MeasuredConcat ==
  ASSUME NEW p \in Parsers, NEW raw \in Seq(Outputs), NEW n \in 0 .. Len(raw),
         NEW others, others = SubSeq(raw, n + 1, Len(raw))
  PROVE  MeasuredBy(p, raw, n) \o MeasuredBy(p, others, Len(others))
           = MeasuredBy(p, raw, Len(raw))
<1> DEFINE a == MeasuredBy(p, raw, n)
           b == MeasuredBy(p, others, Len(others))
           c == MeasuredBy(p, raw, Len(raw))
<1>1. /\ others \in Seq(Outputs)
      /\ Len(others) = Len(raw) - n
      /\ \A i \in 1 .. Len(others) : others[i] = raw[n + i]
  <2>1. \A i \in n + 1 .. Len(raw) : raw[i] \in Outputs
    OBVIOUS
  <2>2. /\ SubSeq(raw, n + 1, Len(raw)) \in Seq(Outputs)
        /\ Len(SubSeq(raw, n + 1, Len(raw)))
             = IF n + 1 <= Len(raw) THEN Len(raw) - (n + 1) + 1 ELSE 0
        /\ \A i \in 1 .. Len(raw) - (n + 1) + 1 :
             SubSeq(raw, n + 1, Len(raw))[i] = raw[n + 1 + i - 1]
    BY <2>1, SubSeqProperties
  <2> QED
    BY <2>2
<1>2. /\ a \in Seq(Measurements) /\ Len(a) = n
      /\ b \in Seq(Measurements) /\ Len(b) = Len(raw) - n
      /\ c \in Seq(Measurements) /\ Len(c) = Len(raw)
  <2>1. \A k \in Nat : k \in 0 .. k
    OBVIOUS
  <2>2. Len(raw) \in Nat /\ Len(others) \in Nat
    BY <1>1, LenProperties, Zenon
  <2> QED
    BY <1>1, <2>1, <2>2, MeasuredTyped
<1>3. /\ \A i \in 1 .. n : a[i] = c[i]
      /\ \A i \in 1 .. Len(raw) - n : b[i] = c[n + i]
  BY <1>1 DEF MeasuredBy
<1> HIDE DEF a, b, c
<1>4. /\ a \o b \in Seq(Measurements)
      /\ Len(a \o b) = Len(raw)
      /\ \A i \in 1 .. Len(raw) : (a \o b)[i] = IF i <= n THEN a[i] ELSE b[i - n]
  <2>1. n + (Len(raw) - n) = Len(raw)
    OBVIOUS
  <2> QED
    BY <1>2, <2>1, ConcatProperties
<1>5. \A i \in 1 .. Len(raw) : (a \o b)[i] = c[i]
  <2> SUFFICES ASSUME NEW i \in 1 .. Len(raw) PROVE (a \o b)[i] = c[i]
    OBVIOUS
  <2>1. CASE i <= n
    BY <1>3, <1>4, <2>1
  <2>2. CASE ~(i <= n)
    <3>1. i - n \in 1 .. Len(raw) - n /\ n + (i - n) = i
      BY <2>2
    <3> QED
      BY <1>3, <1>4, <2>2, <3>1
  <2> QED
    BY <2>1, <2>2
<1>6. a \o b = c
  BY <1>2, <1>4, <1>5, SeqEqual
<1> QED
  BY <1>6 DEF a, b, c

-----------------------------------------------------------------------------
(* The invariant.                                                          *)

\* The three things a file may be.
Files == {Absent, Torn} \cup {Whole(r) : r \in Records}

\* A file that is not absent or torn is the record in it.
LEMMA FileFields ==
  ASSUME NEW f \in Files
  PROVE  /\ f.status = "whole" => f = Whole(f.content)
         /\ f.content \in Records
<1>1. <<>> \in Seq(Outputs) /\ <<>> \in Seq(Measurements) /\ Len(<<>>) <= NumCases
  BY CasesAssumption
<1>2. Empty \in Records
  BY <1>1, BoundedIsShort DEF Empty, Records
<1>3. CASE f \in {Absent, Torn}
  BY <1>2, <1>3 DEF Absent, Torn
<1>4. ASSUME NEW r \in Records, f = Whole(r)
      PROVE  f = Whole(f.content) /\ f.content \in Records
  BY <1>4 DEF Whole
<1> QED
  BY <1>3, <1>4 DEF Files

\* Initially there is no file and no session.
LEMMA InitBInv == Init => BInv
<1> SUFFICES ASSUME Init PROVE BInv
  OBVIOUS
<1>1. <<>> \in Seq(Outputs) /\ <<>> \in Seq(Measurements) /\ Len(<<>>) <= NumCases
  BY CasesAssumption
<1>2. Empty \in Records
  BY <1>1, BoundedIsShort DEF Empty, Records
<1>3. 0 \in 0 .. NumCases
  BY CasesAssumption
<1>4. TypeOK
  BY <1>2, <1>3 DEF Init, TypeOK
<1>5. file.status # "whole" /\ atStart.status # "whole"
  BY DEF Init, Absent
<1>6. FinishedIsOnDisk
  <2>1. Len(output.raw) = 0
    BY DEF Init, Empty
  <2> QED
    BY <2>1 DEF Init, FinishedIsOnDisk
<1> QED
  BY <1>4, <1>5, <1>6 DEF Init, BInv, UnderWay, CollectsInOrder, ReprocsAll,
     MeasuredSoFar, MeasuredFromRaw, NeverEmpty, ReprocedFile, DoneIsComplete

\* A session that raises leaves the file as it is.
LEMMA RaiseKeepsBInv ==
  ASSUME BInv, pc \notin {"idle", "dump"}, Raise
  PROVE  BInv'
<1>1. TypeOK'
  BY DEF BInv, TypeOK, Raise, session
<1>2. UnderWay' /\ CollectsInOrder' /\ ReprocsAll' /\ MeasuredSoFar' /\ DoneIsComplete'
  BY DEF Raise, session, UnderWay, CollectsInOrder, ReprocsAll, MeasuredSoFar,
         DoneIsComplete
<1>3. MeasuredFromRaw' /\ NeverEmpty' /\ ReprocedFile'
  BY DEF BInv, Raise, session, MeasuredFromRaw, NeverEmpty, ReprocedFile
<1>4. FinishedIsOnDisk'
  BY DEF BInv, Raise, session, UnderWay, FinishedIsOnDisk
<1> QED
  BY <1>1, <1>2, <1>3, <1>4 DEF BInv

\* Every step of the operator, and a kill, keeps the invariant.
LEMMA OperatorKeepsBInv ==
  ASSUME BInv,
         (\E p \in Parsers : EditScript(p)) \/ StartCollect \/ StartReproc \/ Kill
  PROVE  BInv'
<1>1. ASSUME NEW p \in Parsers, EditScript(p)
      PROVE  BInv'
  <2>1. TypeOK' /\ UnderWay' /\ CollectsInOrder' /\ ReprocsAll'
    BY <1>1 DEF EditScript, session, BInv, TypeOK, UnderWay, CollectsInOrder, ReprocsAll
  <2>2. MeasuredSoFar' /\ MeasuredFromRaw' /\ NeverEmpty'
    BY <1>1 DEF EditScript, session, BInv, MeasuredSoFar, MeasuredFromRaw, NeverEmpty
  <2>3. ReprocedFile' /\ FinishedIsOnDisk' /\ DoneIsComplete'
    BY <1>1 DEF EditScript, session, BInv, UnderWay, ReprocedFile, FinishedIsOnDisk,
       DoneIsComplete
  <2> QED
    BY <2>1, <2>2, <2>3 DEF BInv
<1>2. CASE StartCollect
  <2>1. Empty \in Records /\ Empty.raw = <<>> /\ Empty.measurement = <<>>
    <3>1. <<>> \in Seq(Outputs) /\ <<>> \in Seq(Measurements)
          /\ Len(<<>>) <= NumCases
      BY CasesAssumption
    <3> QED
      BY <3>1, BoundedIsShort DEF Empty, Records
  <2>2. 0 \in 0 .. NumCases /\ 0 < NumCases
    BY CasesAssumption
  <2>3. TypeOK'
    BY <1>2, <2>1, <2>2 DEF StartCollect, BInv, TypeOK
  <2>4. MeasuredBy(script', <<>>, 0) = <<>>
    BY DEF MeasuredBy
  <2>5. MeasuredSoFar'
    BY <1>2, <2>1, <2>4 DEF StartCollect, MeasuredSoFar
  <2>6. CollectsInOrder' /\ ReprocsAll' /\ UnderWay' /\ DoneIsComplete'
    BY <1>2, <2>1, <2>2 DEF StartCollect, CollectsInOrder, ReprocsAll,
       UnderWay, DoneIsComplete
  <2>7. MeasuredFromRaw' /\ NeverEmpty' /\ ReprocedFile'
    BY <1>2 DEF StartCollect, BInv, MeasuredFromRaw, NeverEmpty, ReprocedFile
  <2>8. FinishedIsOnDisk'
    <3>1. Len(output'.raw) = 0 /\ finished' = 0 /\ file' = atStart'
      BY <1>2, <2>1 DEF StartCollect
    <3> QED
      BY <3>1 DEF FinishedIsOnDisk
  <2> QED
    BY <2>3, <2>5, <2>6, <2>7, <2>8 DEF BInv
<1>3. CASE StartReproc
  <2>1. file \in Files
    BY DEF BInv, TypeOK, Files
  <2>2. file.content \in Records
    BY <2>1, FileFields
  <2>3. 0 \in 0 .. NumCases
    BY CasesAssumption
  <2>4. TypeOK'
    BY <1>3, <2>2, <2>3 DEF StartReproc, BInv, TypeOK
  <2>5. CollectsInOrder' /\ MeasuredSoFar' /\ DoneIsComplete' /\ UnderWay'
    BY <1>3 DEF StartReproc, CollectsInOrder, MeasuredSoFar, DoneIsComplete, UnderWay
  <2>6. ReprocsAll' /\ MeasuredFromRaw' /\ NeverEmpty' /\ ReprocedFile'
        /\ FinishedIsOnDisk'
    BY <1>3 DEF StartReproc, BInv, ReprocsAll, MeasuredFromRaw, NeverEmpty,
       ReprocedFile, FinishedIsOnDisk
  <2> QED
    BY <2>4, <2>5, <2>6 DEF BInv
<1>4. CASE Kill
  <2>1. TypeOK' /\ UnderWay' /\ CollectsInOrder' /\ ReprocsAll'
    BY <1>4 DEF Kill, session, BInv, TypeOK, UnderWay, CollectsInOrder, ReprocsAll
  <2>2. MeasuredSoFar' /\ MeasuredFromRaw' /\ NeverEmpty'
    BY <1>4 DEF Kill, session, BInv, MeasuredSoFar, MeasuredFromRaw, NeverEmpty
  <2>3. ReprocedFile' /\ FinishedIsOnDisk' /\ DoneIsComplete'
    BY <1>4 DEF Kill, session, BInv, UnderWay, ReprocedFile, FinishedIsOnDisk,
       DoneIsComplete
  <2> QED
    BY <2>1, <2>2, <2>3 DEF BInv
<1> QED
  BY <1>1, <1>2, <1>3, <1>4

\* A native program that runs adds the output of its test case.
LEMMA NativeRunsKeepsBInv ==
  ASSUME BInv, NEW o \in Outputs, NativeRuns(o)
  PROVE  BInv'
<1> DEFINE raw == output.raw
           n == Len(raw)
<1>1. output \in Records /\ mode = "collect" /\ outcome = "none"
      /\ n = finished /\ finished < NumCases /\ finished \in Nat
  BY CasesAssumption DEF BInv, TypeOK, NativeRuns, CollectsInOrder, ReprocsAll, UnderWay
<1>2. raw \in Seq(Outputs) /\ n \in Nat
  BY <1>1, RecordFields
<1>3. Append(raw, o) \in Seq(Outputs) /\ Len(Append(raw, o)) = n + 1
  BY <1>2, AppendProperties
<1>4. output' = [output EXCEPT !.raw = Append(raw, o)] /\ pc' = "parse"
      /\ UNCHANGED <<file, script, mode, finished, outcome, atStart>>
  BY DEF NativeRuns
<1>5. output'.raw = Append(raw, o) /\ output'.measurement = output.measurement
      /\ output' = [raw |-> Append(raw, o), measurement |-> output.measurement]
  BY <1>1, <1>4 DEF Records
<1>6. output' \in Records
  <2>1. Len(Append(raw, o)) <= NumCases
    BY <1>1, <1>3, CasesAssumption
  <2>2. Append(raw, o) \in BoundedSeq(Outputs, NumCases)
    BY <1>3, <2>1, BoundedIsShort
  <2> QED
    BY <1>1, <1>5, <2>2 DEF Records
<1>7. TypeOK'
  BY <1>4, <1>6 DEF BInv, TypeOK
<1>8. MeasuredSoFar'
  <2>1. output.measurement = MeasuredBy(script, raw, n)
    BY <1>1 DEF BInv, MeasuredSoFar, NativeRuns
  <2>2. MeasuredBy(script, Append(raw, o), n) = MeasuredBy(script, raw, n)
    BY <1>2, MeasuredOfPrefix
  <2> QED
    BY <1>1, <1>4, <1>5, <2>1, <2>2 DEF MeasuredSoFar
<1>9. CollectsInOrder' /\ ReprocsAll' /\ UnderWay' /\ DoneIsComplete'
  BY <1>1, <1>3, <1>4, <1>5 DEF CollectsInOrder, ReprocsAll, UnderWay, DoneIsComplete
<1>10. MeasuredFromRaw' /\ NeverEmpty' /\ ReprocedFile'
  BY <1>4 DEF BInv, NativeRuns, MeasuredFromRaw, NeverEmpty, ReprocedFile
<1>11. FinishedIsOnDisk'
  <2>1. Len(output'.raw) = finished' + 1
    BY <1>1, <1>3, <1>4, <1>5
  <2>2. IF finished = 0
        THEN file = atStart
        ELSE file.status = "whole" /\ Len(file.content.raw) = finished
    BY <1>1 DEF BInv, FinishedIsOnDisk, NativeRuns
  <2>3. finished' \in Nat
    BY <1>1, <1>4
  <2> QED
    BY <1>4, <2>1, <2>2, <2>3 DEF FinishedIsOnDisk
<1> QED
  BY <1>7, <1>8, <1>9, <1>10, <1>11 DEF BInv

\* Parsing gives all outputs a measurement by the parser of the session.
LEMMA ParseMeasuresAll ==
  ASSUME BInv, Parse
  PROVE  /\ output' = [raw |-> output.raw,
                       measurement |-> MeasuredBy(script, output.raw, Len(output.raw))]
         /\ output' \in Records
<1> DEFINE raw == output.raw
<1>1. output \in Records /\ pc = "parse" /\ script \in Parsers
      /\ mode \in {"collect", "reproc"} /\ finished \in Nat
  BY CasesAssumption DEF BInv, TypeOK, Parse
<1>2. raw \in Seq(Outputs) /\ Len(raw) \in Nat /\ Len(raw) <= NumCases
  BY <1>1, RecordFields
<1>3. Len(raw) \in 0 .. Len(raw)
  BY <1>2
<1>4. Unparsed \in Seq(Outputs)
      /\ Parsed \o MeasuredBy(script, Unparsed, Len(Unparsed))
          = MeasuredBy(script, raw, Len(raw))
  <2>1. CASE mode = "collect"
    <3>1. output.measurement = MeasuredBy(script, raw, finished)
          /\ Len(raw) = finished + 1
      BY <1>1, <2>1 DEF BInv, MeasuredSoFar, CollectsInOrder
    <3>2. finished \in 0 .. Len(raw)
      BY <1>1, <3>1
    <3>3. Len(output.measurement) = finished
      BY <1>1, <1>2, <3>1, <3>2, MeasuredTyped
    <3>4. Unparsed = SubSeq(raw, finished + 1, Len(raw))
          /\ Parsed = MeasuredBy(script, raw, finished)
      BY <2>1, <3>1, <3>3 DEF Unparsed, UnparsedOnly, Parsed
    <3>5. \A i \in finished + 1 .. Len(raw) : raw[i] \in Outputs
      BY <1>1, <1>2
    <3>6. Unparsed \in Seq(Outputs)
      BY <1>1, <1>2, <3>4, <3>5, SubSeqProperties
    <3> QED
      BY <1>1, <1>2, <3>2, <3>4, <3>6, MeasuredConcat
  <2>2. CASE mode = "reproc"
    <3>1. Unparsed = raw /\ Parsed = <<>>
      BY <2>2 DEF Unparsed, Parsed
    <3>2. MeasuredBy(script, raw, Len(raw)) \in Seq(Measurements)
      BY <1>1, <1>2, <1>3, MeasuredTyped
    <3> QED
      BY <1>2, <3>1, <3>2, ConcatEmptySeq
  <2> QED
    BY <1>1, <2>1, <2>2
<1>5. [i \in DOMAIN Unparsed |-> Measure(Unparsed[i])]
        = MeasuredBy(script, Unparsed, Len(Unparsed))
  <2>1. DOMAIN Unparsed = 1 .. Len(Unparsed)
    BY <1>4
  <2> QED
    BY <2>1 DEF MeasuredBy, Measure
<1>6. output' = [output EXCEPT !.measurement = MeasuredBy(script, raw, Len(raw))]
  BY <1>4, <1>5 DEF Parse
<1>7. output' = [raw |-> raw, measurement |-> MeasuredBy(script, raw, Len(raw))]
  BY <1>1, <1>6 DEF Records
<1>8. MeasuredBy(script, raw, Len(raw)) \in BoundedSeq(Measurements, NumCases)
  BY <1>1, <1>2, <1>3, MeasuredTyped, BoundedIsShort
<1> QED
  BY <1>1, <1>7, <1>8 DEF Records

\* Parsing keeps the invariant.
LEMMA ParseKeepsBInv ==
  ASSUME BInv, Parse
  PROVE  BInv'
<1>1. /\ output'.raw = output.raw
      /\ output'.measurement = MeasuredBy(script, output.raw, Len(output.raw))
      /\ output' \in Records
  BY ParseMeasuresAll
<1>2. pc = "parse" /\ pc' = "open"
      /\ UNCHANGED <<file, script, mode, finished, outcome, atStart>>
  BY DEF Parse
<1>3. TypeOK'
  BY <1>1, <1>2 DEF BInv, TypeOK
<1>4. MeasuredSoFar'
  BY <1>1, <1>2 DEF MeasuredSoFar
<1>5. CollectsInOrder' /\ ReprocsAll' /\ UnderWay' /\ DoneIsComplete'
  BY <1>1, <1>2 DEF BInv, CollectsInOrder, ReprocsAll, UnderWay, DoneIsComplete
<1>6. MeasuredFromRaw' /\ NeverEmpty' /\ ReprocedFile' /\ FinishedIsOnDisk'
  BY <1>1, <1>2 DEF BInv, MeasuredFromRaw, NeverEmpty, ReprocedFile, FinishedIsOnDisk
<1> QED
  BY <1>3, <1>4, <1>5, <1>6 DEF BInv

\* The file that is written holds the output, measured by one parser.
LEMMA DumpKeepsBInv ==
  ASSUME BInv, Dump
  PROVE  BInv'
<1>1. output \in Records /\ script \in Parsers /\ mode \in {"collect", "reproc"}
      /\ finished \in Nat /\ pc = "dump" /\ outcome = "none"
  BY CasesAssumption DEF BInv, TypeOK, Dump, UnderWay
<1>2. output.raw \in Seq(Outputs) /\ Len(output.raw) \in Nat
      /\ Len(output.raw) <= NumCases
  BY <1>1, RecordFields
<1>3. file' = Whole(output) /\ file'.status = "whole" /\ file'.content = output
      /\ finished' = Len(output.raw)
      /\ UNCHANGED <<script, mode, output, atStart>>
  BY DEF Dump, Whole
<1>4. output.measurement = MeasuredBy(script, output.raw, Len(output.raw))
  BY <1>1 DEF BInv, MeasuredSoFar
<1>5. mode = "reproc" => output.raw = atStart.content.raw /\ atStart.status = "whole"
  BY <1>1 DEF BInv, ReprocsAll
<1>6. Len(output.raw) > 0
  <2>1. CASE mode = "collect"
    BY <1>1, <2>1 DEF BInv, CollectsInOrder
  <2>2. CASE mode = "reproc"
    BY <1>5, <2>2 DEF BInv, NeverEmpty
  <2> QED
    BY <1>1, <2>1, <2>2
<1>7. TypeOK'
  <2>1. finished' \in 0 .. NumCases
    BY <1>2, <1>3, CasesAssumption
  <2>2. pc' \in {"decent", "idle"} /\ outcome' \in {"none", "done"}
    BY <1>1 DEF Dump
  <2> QED
    BY <1>1, <1>3, <2>1, <2>2 DEF BInv, TypeOK
<1>8. MeasuredFromRaw'
  <2>1. DOMAIN output.raw = 1 .. Len(output.raw)
    BY <1>2
  <2> QED
    BY <1>1, <1>3, <1>4, <2>1 DEF MeasuredFromRaw, MeasuredBy
<1>9. NeverEmpty' /\ ReprocedFile'
  BY <1>3, <1>5, <1>6 DEF BInv, NeverEmpty, ReprocedFile
<1>10. FinishedIsOnDisk'
  BY <1>2, <1>3, <1>6 DEF FinishedIsOnDisk
<1>11. CASE mode = "collect" /\ finished' < NumCases
  <2>1. pc' = "decent" /\ outcome' = "none"
    BY <1>1, <1>11 DEF Dump
  <2>2. CollectsInOrder' /\ ReprocsAll' /\ UnderWay' /\ DoneIsComplete'
    BY <1>3, <1>11, <2>1 DEF CollectsInOrder, ReprocsAll, UnderWay, DoneIsComplete
  <2>3. MeasuredSoFar'
    BY <1>3, <1>4, <1>11, <2>1 DEF MeasuredSoFar
  <2> QED
    BY <1>7, <1>8, <1>9, <1>10, <2>2, <2>3 DEF BInv
<1>12. CASE ~(mode = "collect" /\ finished' < NumCases)
  <2>1. pc' = "idle" /\ outcome' = "done"
    BY <1>12 DEF Dump
  <2>2. mode = "collect" => Len(output.raw) = NumCases
    BY <1>2, <1>3, <1>12, CasesAssumption
  <2>3. DoneIsComplete'
    BY <1>1, <1>3, <1>5, <2>2 DEF DoneIsComplete
  <2>4. CollectsInOrder' /\ ReprocsAll' /\ UnderWay' /\ MeasuredSoFar'
    BY <2>1 DEF CollectsInOrder, ReprocsAll, UnderWay, MeasuredSoFar
  <2> QED
    BY <1>7, <1>8, <1>9, <1>10, <2>3, <2>4 DEF BInv
<1> QED
  BY <1>11, <1>12

\* Every step keeps the invariant.
LEMMA NextBInv == BInv /\ [Next]_vars => BInv'
<1> SUFFICES ASSUME BInv, [Next]_vars PROVE BInv'
  OBVIOUS
<1>1. CASE (\E p \in Parsers : EditScript(p)) \/ StartCollect \/ StartReproc \/ Kill
  BY <1>1, OperatorKeepsBInv
<1>2. CASE DecentRuns
  <2>1. TypeOK' /\ UnderWay' /\ CollectsInOrder' /\ ReprocsAll'
    BY <1>2 DEF DecentRuns, session, BInv, TypeOK, UnderWay, CollectsInOrder, ReprocsAll
  <2>2. MeasuredSoFar' /\ MeasuredFromRaw' /\ NeverEmpty'
    BY <1>2 DEF DecentRuns, session, BInv, MeasuredSoFar, MeasuredFromRaw, NeverEmpty
  <2>3. ReprocedFile' /\ FinishedIsOnDisk' /\ DoneIsComplete'
    BY <1>2 DEF DecentRuns, session, BInv, UnderWay, ReprocedFile, FinishedIsOnDisk,
       DoneIsComplete
  <2> QED
    BY <2>1, <2>2, <2>3 DEF BInv
<1>3. CASE DecentFails \/ NativeFails \/ ParseRaises
  <2>1. pc \notin {"idle", "dump"} /\ Raise
    BY <1>3 DEF DecentFails, NativeFails, ParseRaises
  <2> QED
    BY <2>1, RaiseKeepsBInv
<1>4. ASSUME NEW o \in Outputs, NativeRuns(o)
      PROVE  BInv'
  BY <1>4, NativeRunsKeepsBInv
<1>5. CASE Parse
  BY <1>5, ParseKeepsBInv
<1>6. CASE Open
  <2>1. Torn.status # "whole"
    BY DEF Torn
  <2>2. TypeOK'
    BY <1>6 DEF Open, session, BInv, TypeOK
  <2>3. MeasuredFromRaw' /\ NeverEmpty' /\ ReprocedFile' /\ FinishedIsOnDisk'
        /\ DoneIsComplete'
    BY <1>6, <2>1 DEF Open, session, BInv, MeasuredFromRaw, NeverEmpty,
       ReprocedFile, FinishedIsOnDisk, DoneIsComplete
  <2>4. UnderWay' /\ CollectsInOrder' /\ ReprocsAll' /\ MeasuredSoFar'
    BY <1>6 DEF Open, session, BInv, UnderWay, CollectsInOrder, ReprocsAll, MeasuredSoFar
  <2> QED
    BY <2>2, <2>3, <2>4 DEF BInv
<1>7. CASE Dump
  BY <1>7, DumpKeepsBInv
<1>8. CASE UNCHANGED vars
  <2>1. UNCHANGED <<file, script, mode, pc, output, finished, outcome, atStart>>
    BY <1>8 DEF vars
  <2>2. TypeOK' /\ UnderWay' /\ CollectsInOrder' /\ ReprocsAll'
    BY <2>1 DEF BInv, TypeOK, UnderWay, CollectsInOrder, ReprocsAll
  <2>3. MeasuredSoFar' /\ MeasuredFromRaw'
    BY <2>1 DEF BInv, MeasuredSoFar, MeasuredFromRaw
  <2>4. NeverEmpty' /\ ReprocedFile' /\ FinishedIsOnDisk' /\ DoneIsComplete'
    BY <2>1 DEF BInv, NeverEmpty, ReprocedFile, FinishedIsOnDisk, DoneIsComplete
  <2> QED
    BY <2>2, <2>3, <2>4 DEF BInv
<1> QED
  BY <1>1, <1>2, <1>3, <1>4, <1>5, <1>6, <1>7, <1>8 DEF Next, Proceed

-----------------------------------------------------------------------------
(* The theorems.                                                           *)

\* The invariant on the file, the output in hand and the session's progress.
THEOREM SessionInvariance == Spec => []BInv
BY InitBInv, NextBInv, PTL DEF Spec

\* The file and the output are records of at most NumCases outputs, however
\* sessions are started, fail, and are killed.
THEOREM SessionTypes == Spec => []TypeOK
<1>1. BInv => TypeOK
  BY DEF BInv
<1> QED
  BY SessionInvariance, <1>1, PTL

\* A file that can be loaded has, for each output, its measurement, all by one
\* parser.
THEOREM FileIsMeasured == Spec => []MeasuredFromRaw
<1>1. BInv => MeasuredFromRaw
  BY DEF BInv
<1> QED
  BY SessionInvariance, <1>1, PTL

\* What a session has finished is on disk, unless it is killed while writing,
\* and no more than one output of it is not.
THEOREM FinishedIsKept == Spec => []FinishedIsOnDisk
<1>1. BInv => FinishedIsOnDisk
  BY DEF BInv
<1> QED
  BY SessionInvariance, <1>1, PTL

\* A session that ends without a failure has in the file all it had to do.
THEOREM DoneMeansComplete == Spec => []DoneIsComplete
<1>1. BInv => DoneIsComplete
  BY DEF BInv
<1> QED
  BY SessionInvariance, <1>1, PTL

\* Reproc writes the outputs it found, and no step of it writes others.
THEOREM ReprocKeepsOutputs == Spec => ReprocKeepsRaw
<1>1. BInv /\ [Next]_vars =>
        [mode = "reproc" /\ file'.status = "whole"
           => file'.content.raw = atStart.content.raw]_vars
  <2> SUFFICES ASSUME BInv, [Next]_vars, mode = "reproc", file'.status = "whole"
               PROVE  file'.content.raw = atStart.content.raw
    OBVIOUS
  <2>1. CASE file' = file
    BY <2>1 DEF BInv, ReprocedFile
  <2>2. CASE Open
    BY <2>2 DEF Open, Torn
  <2>3. CASE Dump
    BY <2>3 DEF Dump, Whole, BInv, ReprocsAll
  <2> QED
    BY <2>1, <2>2, <2>3 DEF Next, Proceed, vars, session, EditScript,
       StartCollect, StartReproc, Kill, Raise, DecentRuns, DecentFails,
       NativeRuns, NativeFails, Parse, ParseRaises
<1> QED
  BY SessionInvariance, <1>1, PTL DEF Spec, ReprocKeepsRaw

\* Whatever ends a session, it ends as SessionEnds says: killed, failed, or
\* with every test case it had to do in the file.
THEOREM EndsAsPromised ==
  Spec => [][pc # "idle" /\ pc' = "idle" =>
               \/ outcome' \in {"killed", "failed"}
               \/ Len(file'.content.raw) = IF mode' = "collect" THEN NumCases
                                           ELSE Len(atStart'.content.raw)]_vars
<1>1. BInv' /\ [Next]_vars =>
        [pc # "idle" /\ pc' = "idle" =>
           \/ outcome' \in {"killed", "failed"}
           \/ Len(file'.content.raw) = IF mode' = "collect" THEN NumCases
                                       ELSE Len(atStart'.content.raw)]_vars
  <2> SUFFICES ASSUME BInv', Next, pc # "idle", pc' = "idle",
                      outcome' \notin {"killed", "failed"}
               PROVE  Len(file'.content.raw) = IF mode' = "collect" THEN NumCases
                                               ELSE Len(atStart'.content.raw)
    OBVIOUS
  <2>1. outcome' = "done"
    BY DEF Next, Proceed, EditScript, StartCollect, StartReproc, Kill, Raise,
       DecentRuns, DecentFails, NativeRuns, NativeFails, Parse, ParseRaises,
       Open, Dump
  <2> QED
    BY <2>1 DEF BInv, DoneIsComplete
<1> QED
  BY SessionInvariance, <1>1, PTL DEF Spec

-----------------------------------------------------------------------------
(* Progress: the steps of a session are numbered downwards.                *)

\* The steps of one test case are five.
StepsLeft ==
  IF pc = "idle" THEN 0
  ELSE 5 * (NumCases - finished)
       + (CASE pc = "decent" -> 4
            [] pc = "native" -> 3
            [] pc = "parse"  -> 2
            [] pc = "open"   -> 1
            [] OTHER         -> 0)

\* The steps left are a number, and a session under way has one left.
LEMMA StepsLeftTyped ==
  ASSUME BInv
  PROVE  StepsLeft \in Nat /\ (pc # "idle" => StepsLeft > 0)
<1>1. CASE pc = "idle"
  BY <1>1 DEF StepsLeft
<1>2. CASE pc # "idle"
  <2>1. NumCases - finished \in Nat /\ NumCases - finished > 0
    BY <1>2, CasesAssumption DEF BInv, TypeOK, CollectsInOrder, ReprocsAll
  <2>2. 5 * (NumCases - finished) \in Nat /\ 5 * (NumCases - finished) > 0
    BY <2>1
  <2> QED
    BY <1>2, <2>2 DEF StepsLeft
<1> QED
  BY <1>1, <1>2

\* Every step of a session, whatever it is, leaves fewer: what SessionEnds
\* needs of the steps, and fairness makes of it that the session ends.
THEOREM SessionsProgress == Spec => [][pc # "idle" => StepsLeft' < StepsLeft]_vars
<1>1. BInv /\ [Next]_vars => [pc # "idle" => StepsLeft' < StepsLeft]_vars
  <2> SUFFICES ASSUME BInv, Next, pc # "idle"
               PROVE  StepsLeft' < StepsLeft
    OBVIOUS
  <2>1. StepsLeft \in Nat /\ StepsLeft > 0
    BY StepsLeftTyped
  <2>2. NumCases - finished \in Nat /\ finished \in Nat /\ NumCases \in Nat
    BY CasesAssumption DEF BInv, TypeOK
  <2>3. CASE pc' = "idle"
    BY <2>1, <2>3 DEF StepsLeft
  <2>4. CASE DecentRuns
    BY <2>2, <2>4 DEF DecentRuns, session, StepsLeft
  <2>5. ASSUME NEW o \in Outputs, NativeRuns(o)
        PROVE  StepsLeft' < StepsLeft
    BY <2>2, <2>5 DEF NativeRuns, StepsLeft
  <2>6. CASE Parse
    BY <2>2, <2>6 DEF Parse, StepsLeft
  <2>7. CASE Open
    BY <2>2, <2>7 DEF Open, session, StepsLeft
  <2>8. CASE Dump /\ pc' # "idle"
    <3>1. mode = "collect" /\ pc' = "decent" /\ pc = "dump"
          /\ finished' = Len(output.raw)
      BY <2>8 DEF Dump
    <3>2. finished' = finished + 1
      BY <3>1 DEF BInv, CollectsInOrder
    <3> QED
      BY <2>2, <3>1, <3>2 DEF StepsLeft
  <2>9. pc' = "idle" \/ DecentRuns \/ (\E o \in Outputs : NativeRuns(o))
        \/ Parse \/ Open \/ (Dump /\ pc' # "idle")
    BY DEF Next, Proceed, EditScript, StartCollect, StartReproc, Kill, Raise,
           DecentFails, NativeFails, ParseRaises
  <2> QED
    BY <2>3, <2>4, <2>5, <2>6, <2>7, <2>8, <2>9
<1> QED
  BY SessionInvariance, <1>1, PTL DEF Spec
=============================================================================
