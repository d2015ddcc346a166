\* Callers that follow the documented order of calls.
CONSTANTS
  Handle = {h1, h2, h3}
  Page = {p1, p2}
  TypicalUse = TRUE
  MaxLocks = 2
SPECIFICATION MdlSpec
INVARIANTS
  TypeOK
  PinsAccounted
  MappedPagesArePinned
  NoBugcheck
CHECK_DEADLOCK FALSE
SYMMETRY MCSymmetry
