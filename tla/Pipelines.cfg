SPECIFICATION Spec
CONSTANTS
  Initial = Initial
  Triggers <- NoTags
  Runs = {r1, r2, r3}
SYMMETRY RunSymmetry
INVARIANTS
  TypeOK
  ImagePresent
PROPERTIES
  ProdApproved
  JenkinsInOrder
CHECK_DEADLOCK FALSE
