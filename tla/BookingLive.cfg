SPECIFICATION FairSpec
CONSTANTS
  ann = ann
  bob = bob
  annsCar = annsCar
  bobsCar = bobsCar
  north = north
  south = south
  wash = wash
  tyres = tyres
  brakes = brakes
  bay1 = bay1
  bay2 = bay2
  bay3 = bay3
  sam = sam
  kim = kim
  lee = lee
  key1 = key1
  ghost = ghost
  NoKey = NoKey
  NoOne = NoOne
  Anywhere = Anywhere
  Customers <- MCCustomers
  Vehicles <- MCVehicles
  Dealerships <- MCDealerships
  Services <- MCServices
  Bays <- MCBays
  Techs <- MCTechs
  Owner <- MCOwner
  OfferedAt <- MCOfferedAt
  Duration <- MCDuration
  Required <- MCRequired
  Skills <- MCSkills
  HomeOf <- MCHomeOf
  Hours <- MCHours
  Active <- SmallActive
  Payloads <- PairPayloads
  Instants <- Morning
  Faults <- LiveFaults
  Requests = {r1, r2}
  Cancels = {x1}
PROPERTIES
  CalendarSpec
  EventuallyAnswered
  FreedSlotIsBookable
