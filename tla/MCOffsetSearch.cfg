\* Two callers; drivers come and go.
CONSTANTS
  Module <- MCModule
  Kernel = "ntos"
  NoModule = NoModule
  Base = {1, 2, 3}
  PathOf <- MCPathOf
  FileOf <- MCFileOf
  Empty = ""
  Exports <- MCExports
  Thread = {t1, t2}
  RoutineOf <- MCRoutineOf
  SystemProcess = 4
  Images <- MCImages
  FieldOffset <- MCFieldOffset
  Request <- MCRequest
SYMMETRY Symmetry
SPECIFICATION Spec
INVARIANTS
  TypeOK
  ResolutionRight
  OffsetsRight
  InitSuffices
CHECK_DEADLOCK FALSE
