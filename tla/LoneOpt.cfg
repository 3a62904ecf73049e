CONSTANTS
  Con <- SumCon
  Rules <- LoneRules
  Client <- Clients
  Scripts <- LoneScripts
  Body <- ProgramBody
  Worker <- OneWorker
  NoMpi = {}
  MaxStatus = 3
SPECIFICATION FairSpec
PROPERTIES
  LoneGoalsEnd
