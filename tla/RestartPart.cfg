CONSTANTS
  Con <- RestartCon
  Rules <- RestartRules
  Client <- Clients
  Scripts <- RestartScripts
  Body <- ProgramBody
  Worker <- OneWorker
  NoMpi = {}
  MaxStatus = 6
SPECIFICATION Spec
CHECK_DEADLOCK FALSE
INVARIANTS
  TypeOK
  ClaimsOwned
  ClaimsAreMatched
PROPERTIES
  MultisetRewriting
