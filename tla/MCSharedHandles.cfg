CONSTANTS
  Objects = {o1, o2, o3, o4, o5, o6}
  NoObject = NoObject
  MaxHandles = 2
SYMMETRY Symmetry
SPECIFICATION Spec
INVARIANTS
  TypeOK
  HandleKeepsChainAlive
  NoLeak
PROPERTIES
  MemFreedInLiveInstance
