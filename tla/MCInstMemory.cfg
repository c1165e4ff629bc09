CONSTANTS
  Slots = {s1, s2, s3}
  Blocks = {b1, b2, b3}
  Null = Null
  Counts = {0, 1, 2, 3, 9}
  ItemSize = 2
  SizeModulus = 16
  WasmMax = 4
SYMMETRY Symmetry
SPECIFICATION Spec
INVARIANTS
  TypeOK
  OneOwner
  MembersAgree
CHECK_DEADLOCK FALSE
