CONSTANTS
  Con <- BlocksCon
  Rules <- BlocksRules
  Client <- Clients
  Scripts <- BlocksScripts
  Body <- ProgramBody
  Worker <- OneWorker
  NoMpi = {}
  MaxStatus = 8
SPECIFICATION Spec
CHECK_DEADLOCK FALSE
INVARIANTS
  KeptHeadsReturn
