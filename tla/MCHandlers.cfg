SPECIFICATION HelpedSpec
CONSTANTS
  h1 = h1
  h2 = h2
  Modules <- MCModules
  General = general
  Limit = 3
INVARIANTS
  TypeOK
  WalkersAreGone
  NeverStartedTwice
  NothingLeft
PROPERTIES
  RestartsAfterBusyRow
  HungIsRestarted
  UninitializeReturns
CHECK_DEADLOCK FALSE
