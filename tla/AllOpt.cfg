CONSTANTS
  Con <- AllCon
  Rules <- AllRules
  Client <- Clients
  Scripts <- AllScripts
  Body <- ProgramBody
  Worker <- Workers
  NoMpi = {}
  MaxStatus = 8
SPECIFICATION Spec
CHECK_DEADLOCK FALSE
INVARIANTS
  TypeOK
  ClaimsOwned
  NoLostMatch
  SyncServed
  MutualExclusion
  KeptHeadsReturn
  OnlyTriedGoalsWait
PROPERTIES
  MultisetRewriting
