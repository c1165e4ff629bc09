CONSTANTS
  Slots = {s1, s2, s3}
  Natives = {n1, n2}
  Parents = {p1, p2}
  Owned = {d1, d2}
  Null = Null
SYMMETRY Symmetry
SPECIFICATION Spec
INVARIANTS
  TypeOK
  OneOwner
  UserDataNamesOwner
  MembersBelong
  OrphanedByDestructorOnly
CHECK_DEADLOCK FALSE
