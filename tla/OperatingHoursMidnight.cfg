SPECIFICATION Spec
CONSTANTS
  Step = 30
  LastStart = 2900
  Durations = {30, 60, 90}
INVARIANT
  AcceptedMeansWithin
CHECK_DEADLOCK FALSE
