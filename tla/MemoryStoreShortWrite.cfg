SPECIFICATION Spec
CONSTANTS
  OwnerScopes = {p1}
  MemberScopes = {}
  GroupScopes = {g1}
  Contents = {a, b}
  Slots = {residence}
  NoSlot = NoSlot
  Damaged = Damaged
  ShortWrites = TRUE
  MaxRecords = 2
SYMMETRY Symmetry
INVARIANTS
  DocumentIsWhole
CHECK_DEADLOCK FALSE
