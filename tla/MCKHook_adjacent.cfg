\* A hook on each of two neighbouring functions, the first shorter than the window.
CONSTANTS
  h1 = h1
  h2 = h2
  Hook = {h1, h2}
  Cpu = {}
  Addr <- MCAddr
  InsnLen <- MCLen
  Ret <- MCRet
  Growth <- MCGrowth
  Entry = {1, 4}
  NearDst = {h1, h2}
  NearStub = {h1, h2}
  HOOK_SIZE_RELATIVE = 1
  HOOK_SIZE_ABSOLUTE = 3
  AbsJumpSize = 2
  Slack = 1
  ReadsRax <- MCReadsRax
  WritesRax <- MCWritesRax
SPECIFICATION SeparateSpec
INVARIANT FlagTells
CHECK_DEADLOCK FALSE
