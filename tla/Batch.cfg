CONSTANTS
  Con <- BatchCon
  Rules <- BatchRules
  Client <- Clients
  Scripts <- BatchScriptsAll
  Body <- BatchBody
  Worker <- WorkersAndSlots
  Slots <- TwoSlots
  Driver = "p"
  Setups <- BatchSetups
  NoMpi <- BagMpi
  MaxStatus = 8
SPECIFICATION FairBatchSpec
CHECK_DEADLOCK FALSE
INVARIANTS
  BatchComplete
  DriveTypeOK
PROPERTIES
  LoneGoalsEnd
  
