\* Every small region against every small pattern.
CONSTANTS
  Byte = {0, 1}
  Wildcard = Wildcard
  NotFound = NotFound
  Image <- MCImage
  Pattern <- MCPattern
SPECIFICATION Spec
INVARIANTS
  ReturnsFirstOccurrence
  ReadsInsideRegion
PROPERTY Terminates
CHECK_DEADLOCK FALSE
