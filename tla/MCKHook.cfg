\* Two hooks on one function, used in any order while a processor calls it.
CONSTANTS
  h1 = h1
  h2 = h2
  Hook = {h1, h2}
  Cpu = {c1}
  Addr <- MCAddr
  InsnLen <- MCLen
  Ret <- MCRet
  Growth <- MCGrowth
  Entry = {4}
  NearDst = {}
  NearStub = {h1, h2}
  HOOK_SIZE_RELATIVE = 1
  HOOK_SIZE_ABSOLUTE = 3
  AbsJumpSize = 2
  Slack = 1
  ReadsRax <- MCReadsRax
  WritesRax <- MCWritesRax
SYMMETRY Hooks
SPECIFICATION Spec
INVARIANTS
  TypeOK
  InstalledIffEnabled
  OriginalBytesRestored
  NoDanglingJump
  OriginalOrder
  
CHECK_DEADLOCK FALSE
