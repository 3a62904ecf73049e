CONSTANTS
  Con <- MapCon
  Rules <- MapRules
  Client <- Clients
  Scripts <- MapScripts
  Body <- ProgramBody
  Worker <- OneWorker
  NoMpi = {}
  MaxStatus = 6
SPECIFICATION Spec
CHECK_DEADLOCK FALSE
INVARIANTS
  NoLostMatch
