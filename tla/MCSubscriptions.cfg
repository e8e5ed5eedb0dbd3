SPECIFICATION FairSpec
CONSTANTS
  callback = callback
  control = control
  hub = hub
  command = command
  None = none
  Loop = loop
  Internal <- MCInternal
  Hubs <- MCHubs
  Covers <- MCCovers
  Names <- MCNames
  Registrars = {r1}
  Slots = 1
INVARIANTS
  TypeOK
  ServedIsListed
  OneInternalEntry
  SweptClean
PROPERTIES
  InternalTopicsAreHeard
  DroppedForAReason
CHECK_DEADLOCK FALSE
