CONSTANTS
  Thread <- Threads
  Width = 4
  Bound = 2
SPECIFICATION Spec
INVARIANTS
  TypeOK
  OwnersCounted
PROPERTY
  ImplementsCounter
