CONSTANTS
  Objects = {o1, o2, o3}
  NoObject = NoObject
  MaxHandles = 1
SPECIFICATION Spec
PROPERTIES
  ParentOutlivesChild
