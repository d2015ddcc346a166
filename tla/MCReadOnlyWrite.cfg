\* Two threads, every kernel routine may fail in every call.
CONSTANTS
  Handle = {w1, w2}
  Writer = {w1, w2}
  Page <- MCPage
  Addr <- MCAddr
  Request <- MCRequest
  PageSize = 2
  TypicalUse = TRUE
  MaxLocks = 1
SPECIFICATION Spec
INVARIANTS
  RWTypeOK
  NothingOutlivesTheCall
PROPERTIES
  StoresThroughLockedView
  ImplementsCodeWrite
  CallsReturn
CHECK_DEADLOCK FALSE
