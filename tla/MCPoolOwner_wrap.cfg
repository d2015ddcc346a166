\* A length whose byte count does not fit in a word.
CONSTANTS
  Owner = {o1, o2}
  Value <- MCValue
  Zero = Zero
  Hole = Hole
  Addr <- MCAddr
  Base <- MCBase
  Size = 2
  Word = 8
  Count = {2, 5}
  Type <- AllTypes
  Caching = {"cached", "uncached"}
SPECIFICATION Spec
INVARIANT ElementsInside
CHECK_DEADLOCK FALSE
