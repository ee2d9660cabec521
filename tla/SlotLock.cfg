SPECIFICATION Spec
CONSTANTS
  Clients = {c1, c2, c3}
  Keys = {bayKey, techKey}
  NoClient = NoClient
  Faults <- AllFaults
INVARIANT
  TypeOK
PROPERTY
  OnlyOwnToken
