SPECIFICATION FairSpec
CONSTANTS
  Null = Null
  api = api
  shell = shell
  worker1 = worker1
  worker2 = worker2
  Processes = {api, shell, worker1, worker2}
  Strong <- MCStrong
  Sites <- MCSites
  Secrets <- MCSecrets
  MaxFailures = 3
  MaxRotations = 2
INVARIANTS
  TypeOK
  ServesSeeded
  DemoIsLegal
  ServingCanSign
  RefusedMeansOutdated
PROPERTIES
  ChangesSurvive
  EventuallyServes
CHECK_DEADLOCK FALSE
