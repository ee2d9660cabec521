SPECIFICATION Spec
CONSTANTS
  Initial = Initial
  Triggers <- OfTag
  Runs = {r1}
INVARIANTS
  ImagePresent
CHECK_DEADLOCK FALSE
