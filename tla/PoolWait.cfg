CONSTANTS
  Client <- OneClient
  Worker <- OneWorker
  Scripts <- WaitScripts
  Task <- Tasks
  Spawn <- Spawns
CHECK_DEADLOCK FALSE
SPECIFICATION FairSpec
PROPERTY
  JoinEnds
