\* Two control handlers, one data handler, four identifiers.
CONSTANTS
  a = a
  b = b
  c = c
  Values = {h1, h2}
  DataHandlers = {d}
  NoValue = NoValue
  Rids <- MCRids
  DataKey <- MCDataKey
SPECIFICATION Spec
INVARIANTS
  TypeOK
  TreeHoldsTheRegistered
  TreeHasNoDeadBranch
  SearchFindsTheLongestPrefix
  RunningHandlerIsRegistered
PROPERTY
  StableHandlerGetsTheEvent
