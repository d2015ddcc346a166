\* Processes come and go under a walk and under copies.
CONSTANTS
  sys = sys
  p1 = p1
  p2 = p2
  p3 = p3
  Proc = {sys, p1, p2, p3}
  System = sys
  Head = Head
  Null = Null
  Pid = {4, 5, 6, 7}
  SystemPid = 4
  Asked = {6}
  HeadWord = 0
  Walker = {w1}
  Copier = {c1}
  Len = 2
SPECIFICATION Spec
INVARIANTS
  TypeOK
  NoneMeansAbsent
  CopyTargetHeld
  ReferencesReturned
PROPERTIES
  SomeWasListed
  WalkEnds
