CONSTANTS
  Con <- UncountedCon
  Rules <- UncountedRules
  Client <- Clients
  Worker <- OneWorker
  Slots <- Batch
  Driver = "p"
  Setups <- UncountedSetups
  Body <- UncountedBody
  MaxStatus = 8
SPECIFICATION FairSpec
INVARIANTS
  TypeOK
  ClaimedByOne
  NoLostMatch
PROPERTIES
  MultisetRewriting

  OptimisticRunEnds
