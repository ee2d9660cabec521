SPECIFICATION Spec
CONSTANTS
  ann = ann
  annsCar = annsCar
  north = north
  night = night
  wash = wash
  tyres = tyres
  brakes = brakes
  bay1 = bay1
  bay2 = bay2
  bay3 = bay3
  sam = sam
  kim = kim
  lee = lee
  ghost = ghost
  NoKey = NoKey
  Anywhere = Anywhere
  NoSlot = NoSlot
  NoSlots = NoSlots
  Never = Never
  Ttl = 2
  Customers = {ann}
  Vehicles = {annsCar}
  Dealerships = {north, night}
  Services = {wash, tyres, brakes}
  Bays = {bay1, bay2, bay3}
  Techs = {sam, kim, lee}
  Active = {bay1, bay2, bay3, sam, kim, lee}
  Payloads = {}
  Owner <- MCOwner
  OfferedAt <- MCOfferedAt
  Duration <- MCDuration
  Required <- MCRequired
  Skills <- MCSkills
  HomeOf <- MCHomeOf
  Hours <- MCHours
  Questions <- MCQuestions
  Rows <- MCRows
  Instants <- MCInstants
  Faults <- MCFaults
  Queries = {q1, q2, q3}
  Ids = {a1, a2}
SYMMETRY QuerySymmetry
INVARIANTS
  TypeOK
  AnswerFitsQuestion
  AnswerIsRecent
PROPERTY
  OfferedIsBookable
CHECK_DEADLOCK FALSE
