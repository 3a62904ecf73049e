CONSTANTS
  Con <- MatchCon
  Rules <- MatchRules
  Client <- Clients
  Scripts <- MatchScripts
  Body <- ProgramBody
  Worker <- Workers
  NoMpi = {}
  MaxStatus = 6
SPECIFICATION Spec
CHECK_DEADLOCK FALSE
INVARIANTS
  TypeOK
  ClaimsOwned
  SyncServed
  MutualExclusion
  UsesAreClaimed
  KeptHeadsReturn
PROPERTIES
  MultisetRewriting
