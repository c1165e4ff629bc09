CONSTANTS
  NumCases = 3
  Outputs = {"usual", "odd"}
  Parsers = {"old", "new"}
  Rejected <- MCRejected
SPECIFICATION Spec
INVARIANTS
  TypeOK
  MeasuredFromRaw
  FinishedIsOnDisk
PROPERTIES
  ReprocKeepsRaw
  SessionEnds
