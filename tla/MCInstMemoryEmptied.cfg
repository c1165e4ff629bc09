CONSTANTS
  Slots = {s1, s2}
  Blocks = {b1, b2}
  Null = Null
  Counts = {1, 2}
  ItemSize = 2
  SizeModulus = 16
  WasmMax = 4
SPECIFICATION Spec
PROPERTIES
  EmptiedIsLeftAlone
CHECK_DEADLOCK FALSE
