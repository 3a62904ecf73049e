CONSTANTS
  Con <- MutexCon
  Rules <- MutexRules
  Client <- Clients
  Scripts <- RelockScripts
  Body <- ProgramBody
  Worker <- OneWorker
  NoMpi = {}
  MaxStatus = 6
SPECIFICATION Spec
CHECK_DEADLOCK FALSE
INVARIANTS
  MutualExclusion
