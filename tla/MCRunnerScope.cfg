CONSTANTS
  Objects = {o1, o2, o3, o4, o5, o6}
  NoObject = NoObject
  MaxHandles = 1
SPECIFICATION ScopeSpec
INVARIANTS
  ScopeTypeOK
  OneInstanceAtATime
  NothingLeftAtReturn
PROPERTIES
  ScopesOrderDestruction
  ImplementsResourceTree
  UnwindingEnds
CHECK_DEADLOCK FALSE
