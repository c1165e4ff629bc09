CONSTANTS
  Modulus = 3
  Steps = {1, 2}
  Sizes = {0, 2, 4, 6}
  Lens = {1, 2, 3}
  WasmModulus = 4
SPECIFICATION EventSpec
INVARIANTS
  EventTypeOK
  IntervalInOwnCall
  DurationIsElapsed
  RoomMeansWhole
