SPECIFICATION Spec
CONSTANTS
  ann = ann
  bob = bob
  rose = rose
  lily = lily
  north = north
  south = south
  none = none
  NoToken = NoToken
  NoRow = NoRow
  r1 = r1
  r2 = r2
  NewPost <- MCNewPost
  Lifetime = 30
  Registrations = {r1, r2}
  Logins = {l1}
  Reads = {g1}
  Credentials <- MCCredentials
  Posts <- MCPosts
  Employees = {r1}
  Appointments <- MCAppointments
  Instants <- MCInstants
  Faults <- DbFaults
INVARIANTS
  RegistrationIsTruthful
  LoginIsOwn
  TypeOK
  RightsAreRecent
CHECK_DEADLOCK FALSE
