\* Two threads allocate, free and write; freed memory is scribbled over.
CONSTANTS
  Thread = {t1, t2}
  Addr <- MCAddr
  Base <- MCBase
  Layout <- MCLayout
  PtrSize = 2
SPECIFICATION Spec
INVARIANTS
  TypeOK
  HeadersIntact
  BlocksInsideAllocation
  BlocksDisjoint
  FreesAreValid
  NothingLeaks
SYMMETRY MCSymmetry
