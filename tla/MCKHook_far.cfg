\* Trampolines out of reach of the function: the jump back is an absolute one.
CONSTANTS
  h1 = h1
  h2 = h2
  Hook = {h1, h2}
  Cpu = {c1}
  Addr <- MCAddr
  InsnLen <- MCLen
  Ret <- MCRet
  Growth <- MCGrowth
  Entry = {4}
  NearDst = {}
  NearStub = {}
  HOOK_SIZE_RELATIVE = 1
  HOOK_SIZE_ABSOLUTE = 3
  AbsJumpSize = 2
  Slack = 1
  ReadsRax <- MCReadsRax
  WritesRax <- MCWritesRax
SPECIFICATION Spec
INVARIANT RaxTransparent
CHECK_DEADLOCK FALSE
