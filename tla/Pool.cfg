CONSTANTS
  Client <- TwoClients
  Worker <- TwoWorkers
  Scripts <- PoolScripts
  Task <- Tasks
  Spawn <- Spawns
CHECK_DEADLOCK FALSE
SPECIFICATION FairSpec
INVARIANTS
  TypeOK
  CounterExact
PROPERTIES
  JoinSound
  TasksRun
