SPECIFICATION Spec
CONSTANTS
  ann = ann
  bob = bob
  bay1 = bay1
  sam = sam
  a1 = a1
  a2 = a2
  a3 = a3
  b1 = b1
  AnyStatus = AnyStatus
  NoSlot = NoSlot
  Customers = {ann, bob}
  Walks = {w1}
  Wishes <- MCWishes
  Ids = {a1, a2, a3, b1}
  BookedBy <- MCBookedBy
  Rows <- MCRows
SYMMETRY AnnsSymmetry
INVARIANTS
  QuietWalkIsExact
  NoneMissed
CHECK_DEADLOCK FALSE
